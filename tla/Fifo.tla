-------------------------------- MODULE Fifo --------------------------------
(***************************************************************************)
(* What every val/rdy queue of lib/basic/val_rdy/queues.py promises: a     *)
(* bounded first-in first-out buffer.  One step is one clock cycle, in     *)
(* which a message may enter and a message may leave.  Nothing stored may  *)
(* be thrown away except by a variant with a clear port, in a cycle in     *)
(* which that port is high.                                                *)
(***************************************************************************)
EXTENDS Naturals, Sequences

CONSTANTS
  Msg,       (* the messages that can be enqueued                          *)
  NoMsg,     (* "nothing was transferred in this cycle"                    *)
  Capacity   (* the number of messages the buffer can hold                 *)

VARIABLES
  q,         (* the stored messages, oldest first                          *)
  inp,       (* the message accepted in the last cycle, or NoMsg           *)
  out,       (* the message handed over in the last cycle, or NoMsg        *)
  clearable, (* the buffer has a clear port; never changes                 *)
  cleared    (* the clear port was high in the last cycle                  *)

vars == <<q, inp, out, clearable, cleared>>

(* The buffer as it stands after this cycle's arrival. *)
Arrived(m) == IF m = NoMsg THEN q ELSE Append(q, m)

Init ==
  /\ q = <<>>
  /\ inp = NoMsg
  /\ out = NoMsg
  /\ clearable \in BOOLEAN
  /\ cleared = FALSE

(* The oldest message, arrivals of this very cycle included, may leave. *)
Leaves(m) ==
  \/ /\ out' = NoMsg
     /\ q' = Arrived(m)
  \/ /\ Arrived(m) # <<>>
     /\ out' = Head(Arrived(m))
     /\ q' = Tail(Arrived(m))

Transfer(m) ==
  /\ cleared' = FALSE
  /\ inp' = m
  /\ Leaves(m)
  /\ Len(q') <= Capacity

(* A clear keeps nothing: even a message accepted in the same cycle is     *)
(* dropped, while the one handed over in that cycle has left.              *)
Flush(m) ==
  /\ clearable
  /\ cleared' = TRUE
  /\ inp' = m
  /\ q' = <<>>
  /\ \/ out' = NoMsg
     \/ /\ Arrived(m) # <<>>
        /\ out' = Head(Arrived(m))

Next ==
  /\ UNCHANGED clearable
  /\ \E m \in Msg \cup {NoMsg} : Transfer(m) \/ Flush(m)

Spec == Init /\ [][Next]_vars
=============================================================================
