------------------------------ MODULE FuSignals ------------------------------
(***************************************************************************)
(* What every functional unit is described with: tokens, the operands a    *)
(* word selects (fu_in picks the inport of each, which is left out), and   *)
(* the combinational answer of a unit to them.  fu/basic/Fu.py.            *)
(***************************************************************************)
EXTENDS Integers, FiniteSets, FiniteSetsExt, TLC

CONSTANTS
  W,           (* payload bits                                             *)
  Lanes,       (* num_lanes of the vector units                            *)
  None         (* no token                                                 *)

ASSUME FuAssumption == W \in Nat \ {0} /\ Lanes \in 4..W /\ W % Lanes = 0

M == 2^W
B == W \div Lanes

Operand == {"in0", "in1", "in2", "in3", "const", "response"}
Payload == 0..(M - 1)
Token == [payload : Payload, predicate : BOOLEAN]

Data(x, p) == [payload |-> x, predicate |-> p]

(* Payloads as bits, as lanes, and as two's complement numbers.            *)
Bits(x) == {i \in 0..(W - 1) : (x \div 2^i) % 2 = 1}
FromBits(S) == MapThenSumSet(LAMBDA i : 2^i, S)
Lane(x, i) == (x \div 2^(i * B)) % 2^B
Bool(c) == IF c THEN 1 ELSE 0

(* A unit's answer: the tokens on the outports whose val is raised, the    *)
(* operands whose rdy is raised, recv_opt.rdy, and what it offers the      *)
(* control memory.                                                         *)
Quiet == [outs |-> <<>>, takes |-> {}, done |-> FALSE, cmd |-> None]

All(t, S) == \A i \in S : t[i] # None

Granted(t, S) == \A i \in S : t[i].predicate

(* Two sets of tokens offered together; the first wins.                    *)
Join(f, g) == [o \in DOMAIN f \cup DOMAIN g |-> IF o \in DOMAIN f THEN f[o] ELSE g[o]]

(* A unit that waits for all of reads, then offers outs, and lets takes    *)
(* and the word go once the receivers are ready.                           *)
Waits(t, rdy, reads, takes, outs) ==
  IF All(t, reads)
  THEN [Quiet EXCEPT !.outs = outs, !.takes = IF rdy THEN takes ELSE {}, !.done = rdy]
  ELSE Quiet

(* Most operations: every operand read is taken, and its predicate counts. *)
Op(t, rdy, rvf, reads, x) ==
  Waits(t, rdy, reads, reads, [out0 |-> Data(x, Granted(t, reads) /\ rvf)])

(* The same with a predicate of its own.                                   *)
OpIf(t, rdy, reads, x, p) == Waits(t, rdy, reads, reads, [out0 |-> Data(x, p)])

(* update_reached_vector_factor: the last pass of a vectorized iteration;  *)
(* a unit covers 2^unit lanes at once, the word asks for 2^factor.         *)
reached_vector_factor(counter, unit, factor) == counter + 2^unit >= 2^factor

(* update_vector_factor_counter, in every cycle recv_opt.val is up.        *)
vector_factor_counter(counter, unit, factor, last) ==
  IF ~last THEN counter
  ELSE IF reached_vector_factor(counter, unit, factor) THEN 0 ELSE counter + 2^unit
=============================================================================
