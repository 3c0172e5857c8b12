----------------------------- MODULE TokenStore -----------------------------
(***************************************************************************)
(* What a register bank promises about tokens: every value accepted for a  *)
(* register is consumed once, in the order of acceptance, and at most one  *)
(* value in the whole bank waits behind an unconsumed one.                 *)
(* One step is one clock cycle; a cycle may consume a token, accept a      *)
(* write, do both, or, when a clear is asked for (task switch), forget     *)
(* everything.                                                             *)
(***************************************************************************)
EXTENDS Naturals, Sequences

CONSTANTS
  Reg,       (* register indices                                           *)
  Data,      (* values                                                     *)
  None       (* "no write" / "nothing consumed"                            *)

VARIABLES
  tokens,    (* per register, the accepted and unconsumed values           *)
  accepted,  (* <<register, value>> accepted in the last cycle, or None    *)
  consumed,  (* <<register, value>> consumed in the last cycle, or None    *)
  cleared    (* a clear was asked for in the last cycle                    *)

vars == <<tokens, accepted, consumed, cleared>>

Init ==
  /\ tokens = [r \in Reg |-> <<>>]
  /\ accepted = None
  /\ consumed = None
  /\ cleared = FALSE

Consumed(c, r) == c # None /\ c[1] = r
Accepted(a, r) == a # None /\ a[1] = r

(* The queue of register r after the consumption and the write of a cycle. *)
After(a, c, r) ==
  LET left == IF Consumed(c, r) THEN Tail(tokens[r]) ELSE tokens[r]
  IN  IF Accepted(a, r) THEN Append(left, a[2]) ELSE left

Cycle(a, c) ==
  /\ cleared' = FALSE
  /\ accepted' = a
  /\ consumed' = c
  /\ c # None => tokens[c[1]] # <<>> /\ c[2] = Head(tokens[c[1]])
  /\ tokens' = [r \in Reg |-> After(a, c, r)]
  /\ \A r, s \in Reg :
       Len(tokens'[r]) <= 2 /\ (Len(tokens'[r]) = 2 /\ Len(tokens'[s]) = 2 => r = s)

Forget ==
  /\ cleared' = TRUE
  /\ tokens' = [r \in Reg |-> <<>>]
  /\ accepted' = None
  /\ consumed' = None

Next ==
  \/ \E a, c \in (Reg \X Data) \cup {None} : Cycle(a, c)
  \/ Forget

Spec == Init /\ [][Next]_vars
=============================================================================
