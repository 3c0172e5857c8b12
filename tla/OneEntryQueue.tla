---------------------------- MODULE OneEntryQueue ----------------------------
(***************************************************************************)
(* The one-entry val/rdy queues of lib/basic/val_rdy/queues.py: normal,    *)
(* normal with clear, pipe and bypass.  They are written apart from the    *)
(* multi-entry ones (a full bit and one register, each kind with its own   *)
(* equation for the next full bit) and promise the same FIFO.              *)
(***************************************************************************)
EXTENDS Naturals, Sequences

CONSTANTS
  Msg,         (* the messages                                             *)
  NoMsg        (* a value that is not a message                            *)

Kinds == {"normal", "clear", "pipe", "bypass"}

VARIABLES
  kind,        (* which of the four queues this is; never changes          *)
  full,        (* the register holds a message                             *)
  entry,       (* the register                                             *)
  inp, out,    (* messages transferred in the last cycle (history)         *)
  cleared      (* the clear port was high in the last cycle (history)      *)

vars == <<kind, full, entry, inp, out, cleared>>
-----------------------------------------------------------------------------
recv_rdy(send_rdy) ==
  \/ ~full
  \/ kind = "pipe" /\ send_rdy

send_val(recv_val) ==
  \/ full
  \/ kind = "bypass" /\ recv_val

send_msg(recv_msg) ==
  IF kind = "bypass" /\ ~full THEN recv_msg ELSE entry

(* ff_normal1, ff_pipe1 and ff_bypass1: the next full bit.                 *)
Bug_NextFull(recv_val, send_rdy) ==         \* a message that waits is dropped
  CASE kind \in {"normal", "clear"} -> recv_val /\ ~full
    [] kind = "pipe"                -> recv_val
    [] kind = "bypass"              -> ~send_rdy /\ (full \/ recv_val)

NextFull(recv_val, send_rdy) ==
  CASE kind \in {"normal", "clear"} ->
         (recv_val /\ ~full) \/ (full /\ ~send_rdy)
    [] kind = "pipe" ->
         ~recv_rdy(send_rdy) \/ recv_val
    [] kind = "bypass" ->
         ~send_rdy /\ (full \/ recv_val)

(* The cycles in which the register is loaded.                             *)
Load(recv_val, send_rdy) ==
  CASE kind \in {"normal", "clear"} -> recv_val /\ ~full
    [] kind = "pipe"                -> recv_rdy(send_rdy) /\ recv_val
    [] kind = "bypass"              -> ~send_rdy /\ ~full /\ recv_val
-----------------------------------------------------------------------------
Init ==
  /\ kind \in Kinds
  /\ full = FALSE
  /\ entry \in Msg              (* the register has no reset *)
  /\ inp = NoMsg
  /\ out = NoMsg
  /\ cleared = FALSE

Datapath(recv_val, m, send_rdy) ==
  /\ entry' = IF Load(recv_val, send_rdy) THEN m ELSE entry
  /\ inp' = IF recv_val /\ recv_rdy(send_rdy) THEN m ELSE NoMsg
  /\ out' = IF send_val(recv_val) /\ send_rdy THEN send_msg(m) ELSE NoMsg
  /\ UNCHANGED kind

Tick(recv_val, m, send_rdy) ==
  /\ Datapath(recv_val, m, send_rdy)
  /\ full' = NextFull(recv_val, send_rdy)
  /\ cleared' = FALSE

TickClear(recv_val, m, send_rdy) ==
  /\ kind = "clear"
  /\ Datapath(recv_val, m, send_rdy)
  /\ full' = FALSE
  /\ cleared' = TRUE

Next ==
  \E recv_val, send_rdy \in BOOLEAN, m \in Msg :
    \/ Tick(recv_val, m, send_rdy)
    \/ TickClear(recv_val, m, send_rdy)

Spec == Init /\ [][Next]_vars
-----------------------------------------------------------------------------
Contents == IF full THEN <<entry>> ELSE <<>>

Fifo == INSTANCE Fifo WITH q <- Contents, Capacity <- 1, clearable <- (kind = "clear")

(* Each one-entry queue is a FIFO of capacity one, whichever of the three  *)
(* full-bit equations it uses: what it accepts it keeps until it hands it  *)
(* over, and only the queue with a clear port drops it, in a clear.        *)
ImplementsFifo == Fifo!Spec
=============================================================================
