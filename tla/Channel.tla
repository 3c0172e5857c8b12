------------------------------ MODULE Channel ------------------------------
(***************************************************************************)
(* noc/ChannelWithClearRTL.py: the channel in front of every tile inport,  *)
(* a chain of Latency two-entry queues with clear (latency 0 is a wire and *)
(* has no state).  rf/RegisterRTL.py is the same chain without clear.      *)
(*                                                                         *)
(* Each queue is taken as the FIFO that ValRdyQueue implements: its recv   *)
(* side is ready while it has room and its send side valid while it holds  *)
(* a message, both judged on the state before the clock edge.              *)
(***************************************************************************)
EXTENDS Naturals, Sequences, SequencesExt

CONSTANTS
  Msg,         (* the messages                                             *)
  NoMsg,       (* a value that is not a message                            *)
  Latency      (* the number of queues, at least 1                         *)

StageEntries == 2

VARIABLES
  queues,      (* queues[1] receives, queues[Latency] sends                *)
  clearable,   (* with a clear port (ChannelWithClearRTL) or not           *)
               (* (RegisterRTL); never changes                             *)
  send_rdy,    (* the receiver is ready in this cycle                      *)
  inp, out,    (* messages transferred in the last cycle (history)         *)
  cleared      (* the last cycle was a clear (history)                     *)

vars == <<queues, clearable, send_rdy, inp, out, cleared>>

Stage == 1 .. Latency

Room(k) == Len(queues[k]) < StageEntries
Holds(k) == queues[k] # <<>>

(* The message stage k hands on in this cycle, if any.                     *)
Bug_leaves(k) ==               \* a full stage is taken as not ready to send
  Holds(k) /\ (IF k = Latency THEN send_rdy ELSE Room(k) /\ Room(k + 1))

leaves(k) ==
  Holds(k) /\ (IF k = Latency THEN send_rdy ELSE Room(k + 1))

(* The message that enters stage k: from the interface or from stage k-1.  *)
enters(k, m) ==
  IF k = 1 THEN (IF m # NoMsg /\ Room(1) THEN m ELSE NoMsg)
           ELSE (IF leaves(k - 1) THEN Head(queues[k - 1]) ELSE NoMsg)

Step(k, m) ==
  LET left == IF leaves(k) THEN Tail(queues[k]) ELSE queues[k]
  IN  IF enters(k, m) # NoMsg THEN Append(left, enters(k, m)) ELSE left

Observe(m) ==
  /\ inp' = enters(1, m)
  /\ out' = IF leaves(Latency) THEN Head(queues[Latency]) ELSE NoMsg
-----------------------------------------------------------------------------
Init ==
  /\ queues = [k \in Stage |-> <<>>]
  /\ clearable \in BOOLEAN
  /\ send_rdy \in BOOLEAN
  /\ inp = NoMsg
  /\ out = NoMsg
  /\ cleared = FALSE

Tick(m) ==
  /\ queues' = [k \in Stage |-> Step(k, m)]
  /\ Observe(m)
  /\ send_rdy' \in BOOLEAN
  /\ cleared' = FALSE
  /\ UNCHANGED clearable

(* clear goes to all queues in the same cycle, so that a message on its    *)
(* way from one queue to the next does not survive.                        *)
Bug_TickClear(m) ==
  /\ clearable
  /\ queues' = [k \in Stage |-> IF k = 1 THEN <<>> ELSE Step(k, m)]
  /\ Observe(m)
  /\ send_rdy' \in BOOLEAN
  /\ cleared' = TRUE
  /\ UNCHANGED clearable

TickClear(m) ==
  /\ clearable
  /\ queues' = [k \in Stage |-> <<>>]
  /\ Observe(m)
  /\ send_rdy' \in BOOLEAN
  /\ cleared' = TRUE
  /\ UNCHANGED clearable

Next == \E m \in Msg \cup {NoMsg} : Tick(m) \/ TickClear(m)

Spec == Init /\ [][Next]_vars
-----------------------------------------------------------------------------
(* All messages in flight, oldest first. *)
Contents == FlattenSeq(Reverse(queues))

Fifo == INSTANCE Fifo WITH q <- Contents, Capacity <- StageEntries * Latency

(* The chain is one FIFO: messages keep their order across the stages, and *)
(* a clear leaves nothing behind in any of them.  Without a clear nothing  *)
(* is lost.                                                                *)
ImplementsFifo == Fifo!Spec

(* Nothing gets stuck between two stages: a message in the channel leaves  *)
(* it, or is cleared, as long as the clock runs and the receiver keeps     *)
(* coming back (a fair specification states both).                         *)
Delivers == (Contents # <<>>) ~> (out # NoMsg \/ cleared)
=============================================================================
