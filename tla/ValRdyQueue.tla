---------------------------- MODULE ValRdyQueue ----------------------------
(***************************************************************************)
(* The multi-entry val/rdy queues of lib/basic/val_rdy/queues.py: normal,  *)
(* normal with clear, pipe and bypass.  All four share the same circular   *)
(* buffer (head, tail, count and a register file) and differ only in their *)
(* handshake, so the kind is chosen once, in the initial state.            *)
(*                                                                         *)
(* One step is one clock edge: the inputs of the cycle (recv_val with its  *)
(* message, send_rdy, clear) are arbitrary, the combinational outputs are  *)
(* operators, and the registers take the values up_reg gives them.         *)
(***************************************************************************)
EXTENDS Sequences, QueueShape

Kinds == {"normal", "clear", "pipe", "bypass"}

VARIABLES
  kind,        (* which of the four queues this is; never changes          *)
  head, tail,  (* read and write position                                  *)
  count,       (* number of stored messages                                *)
  regs,        (* the register file                                        *)
  inp, out,    (* messages transferred in the last cycle (history)         *)
  cleared,     (* the clear port was high in the last cycle (history)      *)
  offer        (* message offered and not taken in the last cycle (history)*)

ringvars == <<kind, head, tail, count, regs, inp, out, cleared, offer>>

Slots == 0 .. (NumEntries - 1)
-----------------------------------------------------------------------------
(* Combinational outputs. *)

Bug_recv_rdy(send_rdy) ==
  \/ count <= NumEntries
  \/ kind = "pipe" /\ send_rdy

recv_rdy(send_rdy) ==
  \/ count < NumEntries
  \/ kind = "pipe" /\ send_rdy

send_val(recv_val) ==
  \/ count > 0
  \/ kind = "bypass" /\ recv_val

send_msg(recv_msg) ==
  IF kind = "bypass" /\ count = 0 THEN recv_msg ELSE regs[head]

(* The next position in the circular buffer.                               *)
Advance(i) == IF i < NumEntries - 1 THEN i + 1 ELSE 0
-----------------------------------------------------------------------------
RingInit ==
  /\ kind \in Kinds
  /\ head = 0
  /\ tail = 0
  /\ count = 0
  /\ regs \in [Slots -> Msg]        (* the register file has no reset *)
  /\ inp = NoMsg
  /\ out = NoMsg
  /\ cleared = FALSE
  /\ offer = NoMsg

(* up_reg outside reset: positions and count follow the two handshakes.    *)
up_reg(recv_xfer, send_xfer) ==
  /\ tail' = IF recv_xfer THEN Advance(tail) ELSE tail
  /\ head' = IF send_xfer THEN Advance(head) ELSE head
  /\ count' = CASE recv_xfer /\ ~send_xfer -> count + 1
                [] ~recv_xfer /\ send_xfer -> count - 1
                [] OTHER                   -> count

(* The register file is written on every accepted message.                 *)
dpath(recv_xfer, m) ==
  regs' = IF recv_xfer THEN [regs EXCEPT ![tail] = m] ELSE regs

(* History: what crossed the two interfaces in this cycle.                 *)
Observe(recv_xfer, send_xfer, m) ==
  /\ inp' = IF recv_xfer THEN m ELSE NoMsg
  /\ out' = IF send_xfer THEN send_msg(m) ELSE NoMsg

(* A clock edge without reset or clear. *)
Tick(recv_val, m, send_rdy) ==
  LET recv_xfer == recv_val /\ recv_rdy(send_rdy)
      send_xfer == send_val(recv_val) /\ send_rdy
  IN  /\ up_reg(recv_xfer, send_xfer)
      /\ dpath(recv_xfer, m)
      /\ Observe(recv_xfer, send_xfer, m)
      /\ cleared' = FALSE
      /\ offer' = IF send_val(recv_val) /\ ~send_rdy THEN send_msg(m) ELSE NoMsg
      /\ UNCHANGED kind

(* A clock edge with the clear port high: the handshakes of the cycle      *)
(* still happen, and then the pointers go to zero.                         *)
TickClear(recv_val, m, send_rdy) ==
  LET recv_xfer == recv_val /\ recv_rdy(send_rdy)
      send_xfer == send_val(recv_val) /\ send_rdy
  IN  /\ kind = "clear"
      /\ head' = 0
      /\ tail' = 0
      /\ count' = 0
      /\ dpath(recv_xfer, m)
      /\ Observe(recv_xfer, send_xfer, m)
      /\ cleared' = TRUE
      /\ offer' = NoMsg
      /\ UNCHANGED kind

RingNext ==
  \E recv_val, send_rdy \in BOOLEAN, m \in Msg :
    \/ Tick(recv_val, m, send_rdy)
    \/ TickClear(recv_val, m, send_rdy)

RingSpec == RingInit /\ [][RingNext]_ringvars
-----------------------------------------------------------------------------
(* The registers stay in range: in particular the count never passes the   *)
(* number of entries and never goes below zero.                            *)
RingTypeOK ==
  /\ kind \in Kinds
  /\ head \in Slots
  /\ tail \in Slots
  /\ count \in 0 .. NumEntries
  /\ regs \in [Slots -> Msg]
  /\ {inp, out, offer} \subseteq Msg \cup {NoMsg}
  /\ cleared \in BOOLEAN

Wrap(i) == IF i < NumEntries THEN i ELSE i - NumEntries

(* The occupied slots are the count slots from head on, around the ring:   *)
(* the three registers, updated by three separate statements of up_reg,    *)
(* never drift apart.                                                      *)
RingConsistent == tail = Wrap(head + count)

(* A message offered and not taken is what the queue offers in the next    *)
(* cycle: valid is never retracted and the message never replaced, even by *)
(* the bypass queue, whose offer came straight from its input.             *)
RingOfferHeld ==
  offer # NoMsg => count > 0 /\ regs[head] = offer

RingInv == RingTypeOK /\ RingConsistent /\ RingOfferHeld

(* The stored messages, oldest first.                                      *)
Contents == [i \in 1 .. count |-> regs[Wrap(head + i - 1)]]

Fifo == INSTANCE Fifo WITH q <- Contents, Capacity <- NumEntries,
                           clearable <- (kind = "clear")

(* Each of the four queues is a bounded FIFO: nothing accepted is lost,    *)
(* duplicated or reordered, except that the queue with a clear port drops  *)
(* what it holds in a cycle in which that port is high.                    *)
ImplementsFifo == Fifo!Spec
=============================================================================
