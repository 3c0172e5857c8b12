---------------------------- MODULE GlobalReduce ----------------------------
(***************************************************************************)
(* The global reduce unit (controller/GlobalReduceUnitRTL.py) and the      *)
(* tiles that use it: a CPU tells the unit how many contributions make a   *)
(* round; the unit queues the contributions, and answers each with the sum *)
(* or product of the round.  A tile waits for its answer before it         *)
(* contributes again (already_sent_to_controller), so that a fast one may  *)
(* be a round ahead of a slow one.                                         *)
(*                                                                         *)
(* One action is one clock edge.  At most one packet arrives per cycle, in *)
(* any order; one the unit does not take comes again.  The count is never  *)
(* behind a contribution that waits for it: the CPU sends it before the    *)
(* launch.  Products are answered as the unit answers them, though its     *)
(* controller has no branch that hands it one.                             *)
(***************************************************************************)
EXTENDS Naturals, Sequences, FiniteSets, FiniteSetsExt

CONSTANTS
  Tile,              (* the contributors                                   *)
  QueueSize,         (* of the NormalQueueRTL                              *)
  Modulus,           (* 2 ^ width of a payload                             *)
  Cmd,               (* the operation of each round, "ADD" or "MUL"        *)
  Operand,           (* what each tile contributes to each round           *)
  None               (* no contribution in this cycle                      *)

VARIABLES
  target_count, receiving_count, sending_count,
  queue,             (* contributions not answered                         *)
  reduce_add_value, reduce_mul_value,
  waiting,           (* tiles whose contribution was taken, not answered   *)
  result             (* the answers each tile got                          *)

counts == <<target_count, receiving_count, sending_count>>
vars == <<counts, queue, reduce_add_value, reduce_mul_value, waiting, result>>

(* A tile goes round by round, each with the operation of its ctrl word.   *)
round(t) == Len(result[t]) + 1

Offering == {t \in Tile \ waiting : round(t) \in DOMAIN Cmd}

Contribution(t) ==
  [src |-> t, cmd |-> Cmd[round(t)], data |-> Operand[round(t)][t]]

(* set_recv_rdy, update_send                                               *)
Bug_recv_data_rdy == Len(queue) < QueueSize        \* rounds not kept apart

recv_data_rdy == target_count > receiving_count /\ Len(queue) < QueueSize

send_val == target_count > 0 /\ receiving_count = target_count /\ queue # <<>>

Answer == IF Head(queue).cmd = "ADD" THEN reduce_add_value ELSE reduce_mul_value
-----------------------------------------------------------------------------
(* taken: the tile whose contribution the unit takes in this cycle, or     *)
(* None; sent: an answer goes out.                                         *)
update_count(count, taken, sent) ==
  LET over == ~sent /\ sending_count = receiving_count
                    /\ sending_count = target_count /\ target_count > 0 IN
  /\ target_count' = IF count THEN Cardinality(Tile) ELSE target_count
  /\ sending_count' = CASE sent  -> sending_count + 1
                        [] over  -> 0
                        [] OTHER -> sending_count
  /\ receiving_count' = CASE over                    -> 0
                          [] ~over /\ taken # None   -> receiving_count + 1
                          [] OTHER                   -> receiving_count

Bug_starts_afresh == receiving_count = target_count

starts_afresh == sending_count = target_count

accumulate_value(taken) ==
  LET is(cmd) == taken # None /\ Contribution(taken).cmd = cmd
      data == Contribution(taken).data IN
  /\ reduce_add_value' = CASE starts_afresh               -> 0
                           [] ~starts_afresh /\ is("ADD") -> (reduce_add_value + data) % Modulus
                           [] OTHER                       -> reduce_add_value
  /\ reduce_mul_value' = CASE starts_afresh               -> 1
                           [] ~starts_afresh /\ is("MUL") -> (reduce_mul_value * data) % Modulus
                           [] OTHER                       -> reduce_mul_value

(* arrives: the packet at the network's port, a contribution, a            *)
(* CMD_GLOBAL_REDUCE_COUNT or none; rdy: the crossbar takes an answer.     *)
Cycle(arrives, rdy) ==
  LET taken == IF arrives \in Tile /\ recv_data_rdy THEN arrives ELSE None
      sent == send_val /\ rdy
      kept == IF sent THEN Tail(queue) ELSE queue IN
  /\ update_count(arrives = "count", taken, sent)
  /\ accumulate_value(taken)
  /\ queue' = IF taken = None THEN kept ELSE Append(kept, Contribution(taken))
  /\ waiting' = (waiting \cup ({taken} \ {None}))
                  \ (IF sent THEN {Head(queue).src} ELSE {})
  /\ result' = IF sent THEN [result EXCEPT ![Head(queue).src] = Append(@, Answer)] ELSE result

Init ==
  /\ target_count = 0 /\ receiving_count = 0 /\ sending_count = 0
  /\ queue = <<>>
  /\ reduce_add_value = 0 /\ reduce_mul_value = 1
  /\ waiting = {}
  /\ result = [t \in Tile |-> <<>>]

Next == \E arrives \in Offering \cup {"count", None}, rdy \in BOOLEAN : Cycle(arrives, rdy)

Spec == Init /\ [][Next]_vars
-----------------------------------------------------------------------------
(* What a round is for: the sum or product of all its contributions.       *)
Reduction(k) ==
  LET x(t, acc) == (IF Cmd[k] = "ADD" THEN acc + Operand[k][t] ELSE acc * Operand[k][t])
  IN  FoldSet(x, IF Cmd[k] = "ADD" THEN 0 ELSE 1, Tile) % Modulus

(* Every answer is the reduction over one contribution of every tile, of   *)
(* the round the tile contributed to, however far apart the tiles are      *)
(* (accumulate_value, set_recv_rdy).                                       *)
ReduceExact == \A t \in Tile : \A k \in DOMAIN result[t] : result[t][k] = Reduction(k)

(* Every round is answered to everybody, as long as the unit was told the  *)
(* count, the contributions arrive and the answers are taken.              *)
RoundsComplete == <>(\A t \in Tile : Len(result[t]) = Len(Cmd))
=============================================================================
