----------------------------- MODULE QueueShape -----------------------------
(* What a multi-entry queue of lib/basic/val_rdy/queues.py is built with.  *)
EXTENDS Naturals

CONSTANTS
  Msg,         (* the messages                                             *)
  NoMsg,       (* a value that is not a message                            *)
  NumEntries   (* num_entries of the queue                                 *)

ASSUME QueueAssumption ==
  /\ NumEntries \in Nat
  /\ NumEntries >= 2          (* assert num_entries >= 2 *)
  /\ NoMsg \notin Msg
=============================================================================
