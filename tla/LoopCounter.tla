---------------------------- MODULE LoopCounter ----------------------------
(***************************************************************************)
(* The loop counter FU of a tile (fu/single/LoopCounterRTL.py).  Per ctrl  *)
(* address it is a leaf counter (OPT_LOOP_COUNT) that reports the end of   *)
(* its loop once, or a shadow register (OPT_LOOP_DELIVERY) that delivers   *)
(* the value of an outer loop.  The configured leaf loop is 0 .. Inner - 1.*)
(***************************************************************************)
EXTENDS Naturals

CONSTANTS Addr, Inner, NoShadow

VARIABLES
  leaf_current_value,
  already_done,        (* LEAF_COUNTER_COMPLETE was sent for this loop     *)
  shadow               (* shadow_regs, NoShadow while not shadow_valid     *)

CounterInit ==
  /\ leaf_current_value = [a \in Addr |-> 0]
  /\ already_done = [a \in Addr |-> FALSE]
  /\ shadow = [a \in Addr |-> NoShadow]

loop_terminated(a) == leaf_current_value[a] >= Inner

(* OPT_LOOP_COUNT, a valid iteration whose value the tile takes.           *)
Count(a) ==
  /\ ~loop_terminated(a)
  /\ leaf_current_value' = [leaf_current_value EXCEPT ![a] = @ + 1]
  /\ UNCHANGED <<already_done, shadow>>

(* OPT_LOOP_COUNT, the first terminated iteration: the completion is       *)
(* accepted by the ctrl memory.                                            *)
Complete(a) ==
  /\ loop_terminated(a) /\ ~already_done[a]
  /\ already_done' = [already_done EXCEPT ![a] = TRUE]
  /\ UNCHANGED <<leaf_current_value, shadow>>

Bug_Receive(m) ==                  \* the reset keeps the done flag
  IF m.cmd = "RESET_LEAF"
    THEN /\ leaf_current_value' = [leaf_current_value EXCEPT ![m.addr] = 0]
         /\ UNCHANGED <<already_done, shadow>>
    ELSE /\ shadow' = [shadow EXCEPT ![m.addr] = m.data]
         /\ UNCHANGED <<leaf_current_value, already_done>>

(* A command of the loop controller.                                       *)
Receive(m) ==
  IF m.cmd = "RESET_LEAF"
    THEN /\ leaf_current_value' = [leaf_current_value EXCEPT ![m.addr] = 0]
         /\ already_done' = [already_done EXCEPT ![m.addr] = FALSE]
         /\ UNCHANGED shadow
    ELSE /\ shadow' = [shadow EXCEPT ![m.addr] = m.data]
         /\ UNCHANGED <<leaf_current_value, already_done>>
=============================================================================
