------------------------------- MODULE Links --------------------------------
(***************************************************************************)
(* The three kinds of val/rdy links, side by side: the queue of several    *)
(* entries (ValRdyQueue, extended), the queue of one entry and the         *)
(* channel, a chain of Latency queues.                                     *)
(***************************************************************************)
EXTENDS ValRdyQueue

CONSTANT
  Latency                        (* of the channel                         *)

VARIABLES
  full, entry, inp1, out1, cleared1,                  (* one-entry queue   *)
  queues, send_rdy, inp2, out2, cleared2              (* channel           *)

One == INSTANCE OneEntryQueue WITH inp <- inp1, out <- out1, cleared <- cleared1
Chain == INSTANCE Channel WITH inp <- inp2, out <- out2, cleared <- cleared2,
                               clearable <- (kind = "clear")

(* Like the ring, each one-entry queue and the channel, whatever its       *)
(* latency, is a bounded FIFO (OneEntryQueue, Channel): no message is      *)
(* repeated or overtaken between two tiles, two controllers or a           *)
(* controller and its network, and none is lost except in a clear.         *)
LinksAreFifos == One!ImplementsFifo /\ Chain!ImplementsFifo

(* Nothing gets stuck between two queues of a channel (Channel).           *)
ChannelDelivers == Chain!Delivers
=============================================================================
