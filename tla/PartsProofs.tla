----------------------------- MODULE PartsProofs -----------------------------
(***************************************************************************)
(* Proofs about the parts of PartsMC that every other one is wired with.   *)
(* The queues, for every number of entries, every set of messages and each *)
(* of the four kinds: the queues of several entries, the queue of one      *)
(* entry, and the channel, a chain of Latency queues that move in the same *)
(* cycle, for every Latency.  The crossbar, for any number of ports, any   *)
(* routes and any prologue counts.                                         *)
(***************************************************************************)
EXTENDS Crossbar, Links, SequenceTheorems, WellFoundedInduction, TLAPS

(* The transfers of a cycle whose inputs are recv_val and ready.        *)
RecvXfer(recv_val, ready) == recv_val /\ recv_rdy(ready)
SendXfer(recv_val, ready) == send_val(recv_val) /\ ready

(* A transfer out of the full pipe queue frees the slot a transfer in      *)
(* fills, and no transfer out happens when there is nothing to send.       *)
LEMMA CountStaysInRange ==
  ASSUME RingTypeOK,
         NEW recv_val \in BOOLEAN, NEW ready \in BOOLEAN,
         up_reg(RecvXfer(recv_val, ready), SendXfer(recv_val, ready))
  PROVE  /\ count' \in 0 .. NumEntries
         /\ head' \in Slots
         /\ tail' \in Slots
  BY QueueAssumption
  DEF RingTypeOK, RecvXfer, SendXfer, up_reg, recv_rdy, send_val, Advance, Slots

(* The three registers agree after every cycle without a clear.            *)
LEMMA RingStaysConsistent ==
  ASSUME RingTypeOK, RingConsistent,
         NEW recv_val \in BOOLEAN, NEW ready \in BOOLEAN,
         up_reg(RecvXfer(recv_val, ready), SendXfer(recv_val, ready))
  PROVE  RingConsistent'
<1> DEFINE recv == RecvXfer(recv_val, ready)
           send == SendXfer(recv_val, ready)
<1>0. /\ NumEntries \in Nat /\ NumEntries >= 2
      /\ count \in 0 .. NumEntries
      /\ head \in Nat /\ head < NumEntries
      /\ tail = IF head + count < NumEntries
                  THEN head + count ELSE head + count - NumEntries
  BY QueueAssumption DEF RingTypeOK, RingConsistent, Wrap, Slots
<1>1. CASE recv /\ send
  <2>1. head' = Advance(head) /\ tail' = Advance(tail) /\ count' = count
    BY <1>1 DEF up_reg
  <2> QED BY <1>0, <2>1 DEF RingConsistent, Wrap, Advance
<1>2. CASE recv /\ ~send
  <2>1. head' = head /\ tail' = Advance(tail) /\ count' = count + 1
    BY <1>2 DEF up_reg
  <2>2. count < NumEntries
    BY <1>0, <1>2 DEF RecvXfer, recv_rdy, SendXfer, send_val
  <2> QED BY <1>0, <2>1, <2>2 DEF RingConsistent, Wrap, Advance
<1>3. CASE ~recv /\ send
  <2>1. head' = Advance(head) /\ tail' = tail /\ count' = count - 1
    BY <1>3 DEF up_reg
  <2>2. count > 0
    BY <1>0, <1>3 DEF RecvXfer, recv_rdy, SendXfer, send_val
  <2> QED BY <1>0, <2>1, <2>2 DEF RingConsistent, Wrap, Advance
<1>4. CASE ~recv /\ ~send
  <2>1. head' = head /\ tail' = tail /\ count' = count
    BY <1>4 DEF up_reg
  <2> QED BY <1>0, <2>1 DEF RingConsistent, Wrap
<1> QED BY <1>1, <1>2, <1>3, <1>4

LEMMA RingInitInv == RingInit => RingInv
<1> SUFFICES ASSUME RingInit PROVE RingInv
  OBVIOUS
<1>1. /\ kind \in Kinds /\ head = 0 /\ tail = 0 /\ count = 0 /\ regs \in [Slots -> Msg]
      /\ inp = NoMsg /\ out = NoMsg /\ cleared = FALSE /\ offer = NoMsg
  BY DEF RingInit
<1>2. 0 \in Slots /\ 0 \in 0 .. NumEntries /\ Wrap(0 + 0) = 0
  BY QueueAssumption DEF Slots, Wrap
<1>3. RingTypeOK
  BY <1>1, <1>2 DEF RingTypeOK
<1> QED BY <1>1, <1>2, <1>3 DEF RingInv, RingConsistent, RingOfferHeld

LEMMA TickInv ==
  ASSUME RingInv,
         NEW recv_val \in BOOLEAN, NEW ready \in BOOLEAN, NEW m \in Msg,
         Tick(recv_val, m, ready)
  PROVE  RingInv'
<1> USE DEF RingInv
<1>1. up_reg(RecvXfer(recv_val, ready), SendXfer(recv_val, ready))
  BY DEF Tick, RecvXfer, SendXfer
<1>2. RingTypeOK'
  <2>1. regs' \in [Slots -> Msg]
    BY DEF Tick, dpath, RingTypeOK
  <2>2. {inp', out', offer'} \subseteq Msg \cup {NoMsg}
    BY DEF Tick, Observe, RingTypeOK, send_msg
  <2>3. kind' \in Kinds /\ cleared' \in BOOLEAN
    BY DEF Tick, RingTypeOK
  <2> QED BY <1>1, <2>1, <2>2, <2>3, CountStaysInRange DEF RingTypeOK
<1>3. RingConsistent'
  BY <1>1, RingStaysConsistent
<1>4. RingOfferHeld'
  <2> SUFFICES ASSUME offer' # NoMsg
               PROVE  count' > 0 /\ regs'[head'] = offer'
    BY DEF RingOfferHeld
  <2>1. send_val(recv_val) /\ ~ready /\ offer' = send_msg(m)
    BY DEF Tick
  <2>2. head' = head
    BY <2>1 DEF Tick, up_reg
  <2>3. CASE count > 0
    (* A message stored earlier: a message accepted now goes elsewhere.    *)
    <3>1. ASSUME recv_rdy(ready) PROVE tail # head
      BY <2>1, <2>3, <3>1, QueueAssumption
      DEF RingTypeOK, RingConsistent, Wrap, recv_rdy, Slots
    <3>2. regs'[head] = regs[head]
      BY <3>1 DEF Tick, dpath, RingTypeOK
    <3>3. count' > 0
      BY <2>1, <2>3 DEF Tick, up_reg, RingTypeOK
    <3> QED BY <2>1, <2>2, <2>3, <3>2, <3>3 DEF send_msg, RingTypeOK
  <2>4. CASE ~(count > 0)
    (* The bypass queue offered its input, and stores it now.              *)
    <3>1. count = 0 /\ kind = "bypass" /\ recv_val
      BY <2>1, <2>4 DEF send_val, RingTypeOK
    <3>2. recv_rdy(ready)
      BY <3>1, QueueAssumption DEF recv_rdy
    <3>3. tail = head
      BY <3>1, QueueAssumption DEF RingConsistent, Wrap, RingTypeOK, Slots
    <3>4. count' = 1 /\ regs' = [regs EXCEPT ![tail] = m]
      BY <2>1, <3>1, <3>2 DEF Tick, up_reg, dpath
    <3> QED BY <2>1, <2>2, <3>1, <3>3, <3>4 DEF send_msg, RingTypeOK
  <2> QED BY <2>3, <2>4
<1> QED BY <1>2, <1>3, <1>4

LEMMA TickClearInv ==
  ASSUME RingInv,
         NEW recv_val \in BOOLEAN, NEW ready \in BOOLEAN, NEW m \in Msg,
         TickClear(recv_val, m, ready)
  PROVE  RingInv'
<1> USE DEF RingInv
<1>1. regs' \in [Slots -> Msg]
  BY DEF TickClear, dpath, RingTypeOK
<1>2. {inp', out', offer'} \subseteq Msg \cup {NoMsg}
  BY DEF TickClear, Observe, RingTypeOK, send_msg
<1> QED
  BY <1>1, <1>2, QueueAssumption
  DEF TickClear, RingTypeOK, RingConsistent, RingOfferHeld, Slots, Wrap

(* The registers keep their types, the ring its shape, and an offer its    *)
(* message, in every reachable state.                                      *)
THEOREM RingInvariance == RingSpec => []RingInv
<1>1. RingInit => RingInv
  BY RingInitInv
<1>2. RingInv /\ [RingNext]_ringvars => RingInv'
  <2> SUFFICES ASSUME RingInv, [RingNext]_ringvars PROVE RingInv'
    OBVIOUS
  <2>1. CASE UNCHANGED ringvars
    BY <2>1 DEF ringvars, RingInv, RingTypeOK, RingConsistent, RingOfferHeld
  <2>2. CASE RingNext
    BY <2>2, TickInv, TickClearInv DEF RingNext
  <2> QED BY <2>1, <2>2
<1> QED BY <1>1, <1>2, PTL DEF RingSpec
-----------------------------------------------------------------------------
(* Refinement: what the ring holds is the queue of the FIFO.               *)

(* The n messages of a ring with register file f from position h on.       *)
Ring(n, h, f) == [i \in 1 .. n |-> f[Wrap(h + i - 1)]]

LEMMA RingIsSeq ==
  ASSUME NEW n \in 0 .. NumEntries, NEW h \in Slots, NEW f \in [Slots -> Msg]
  PROVE  /\ Ring(n, h, f) \in Seq(Msg)
         /\ Len(Ring(n, h, f)) = n
         /\ \A i \in 1 .. n : Ring(n, h, f)[i] = f[Wrap(h + i - 1)]
<1>1. \A i \in 1 .. n : Wrap(h + i - 1) \in Slots
  BY QueueAssumption DEF Wrap, Slots
<1>2. n \in Nat
  BY QueueAssumption
<1>3. Ring(n, h, f) \in [1 .. n -> Msg]
  BY <1>1 DEF Ring
<1>4. Ring(n, h, f) \in Seq(Msg)
  BY <1>2, <1>3, SeqDef
<1> QED BY <1>2, <1>3, <1>4, LenProperties DEF Ring

(* Writing the slot after the last message appends it.                     *)
LEMMA RingAppend ==
  ASSUME NEW n \in 0 .. NumEntries, NEW h \in Slots, NEW f \in [Slots -> Msg],
         NEW m \in Msg, n < NumEntries
  PROVE  Ring(n + 1, h, [f EXCEPT ![Wrap(h + n)] = m]) = Append(Ring(n, h, f), m)
<1> DEFINE g == [f EXCEPT ![Wrap(h + n)] = m]
           s == Ring(n + 1, h, g)
           t == Append(Ring(n, h, f), m)
<1>0. n \in Nat /\ n + 1 \in 0 .. NumEntries
  BY QueueAssumption
<1>1. n + 1 \in 0 .. NumEntries /\ n \in Nat /\ g \in [Slots -> Msg]
  BY <1>0
<1>2. s \in Seq(Msg) /\ Len(s) = n + 1 /\ \A i \in 1 .. n + 1 : s[i] = g[Wrap(h + i - 1)]
  BY <1>1, RingIsSeq
<1>3. /\ Ring(n, h, f) \in Seq(Msg) /\ Len(Ring(n, h, f)) = n
      /\ \A i \in 1 .. n : Ring(n, h, f)[i] = f[Wrap(h + i - 1)]
  BY RingIsSeq
<1>4. /\ t \in Seq(Msg) /\ Len(t) = n + 1 /\ t[n + 1] = m
      /\ \A i \in 1 .. n : t[i] = f[Wrap(h + i - 1)]
  BY <1>1, <1>3
<1>5. ASSUME NEW i \in 1 .. n + 1 PROVE s[i] = t[i]
  <2>1. Wrap(h + n) \in Slots
    BY <1>1, QueueAssumption DEF Wrap, Slots
  <2>2. CASE i = n + 1
    <3>1. h + i - 1 = h + n
      BY <1>1, <2>2 DEF Slots
    <3>2. g[Wrap(h + n)] = m
      BY <2>1
    <3> QED BY <1>2, <1>4, <2>2, <3>1, <3>2
  <2>3. CASE i \in 1 .. n
    <3>1. Wrap(h + i - 1) # Wrap(h + n) /\ Wrap(h + i - 1) \in Slots
      BY <1>1, <2>3, QueueAssumption DEF Wrap, Slots
    <3>2. g[Wrap(h + i - 1)] = f[Wrap(h + i - 1)]
      BY <3>1
    <3> QED BY <1>2, <1>4, <2>3, <3>2
  <2>4. i = n + 1 \/ i \in 1 .. n
    BY <1>1
  <2> QED BY <2>2, <2>3, <2>4
<1> HIDE DEF s, t
<1>6. s = t
  BY <1>2, <1>4, <1>5, SeqEqual
<1> QED BY <1>6 DEF s, t, g

(* Advancing the read position drops the oldest message.                   *)
LEMMA RingTail ==
  ASSUME NEW n \in 1 .. NumEntries, NEW h \in Slots, NEW f \in [Slots -> Msg]
  PROVE  /\ Ring(n, h, f) # <<>>
         /\ Head(Ring(n, h, f)) = f[h]
         /\ Ring(n - 1, Advance(h), f) = Tail(Ring(n, h, f))
<1> DEFINE s == Ring(n, h, f)
           t == Ring(n - 1, Advance(h), f)
<1>1. n \in 0 .. NumEntries /\ n - 1 \in 0 .. NumEntries /\ Advance(h) \in Slots
  BY QueueAssumption DEF Advance, Slots
<1>2. s \in Seq(Msg) /\ Len(s) = n /\ \A i \in 1 .. n : s[i] = f[Wrap(h + i - 1)]
  BY <1>1, RingIsSeq
<1>3. /\ t \in Seq(Msg) /\ Len(t) = n - 1
      /\ \A i \in 1 .. n - 1 : t[i] = f[Wrap(Advance(h) + i - 1)]
  BY <1>1, RingIsSeq
<1> HIDE DEF s, t
<1>4. s # <<>>
  BY <1>2
<1>5. Head(s) = f[h]
  <2>1. Wrap(h + 1 - 1) = h
    BY QueueAssumption DEF Wrap, Slots
  <2>2. s[1] = f[h]
    BY <1>2, <2>1
  <2> QED BY <1>2, <1>4, <2>2
<1>6. Tail(s) \in Seq(Msg) /\ Len(Tail(s)) = n - 1 /\ \A i \in 1 .. n - 1 : Tail(s)[i] = s[i + 1]
  BY <1>2, <1>4, HeadTailProperties
<1>7. ASSUME NEW i \in 1 .. n - 1 PROVE t[i] = Tail(s)[i]
  <2>1. Wrap(Advance(h) + i - 1) = Wrap(h + (i + 1) - 1)
    BY QueueAssumption DEF Wrap, Advance, Slots
  <2>2. i + 1 \in 1 .. n
    OBVIOUS
  <2>3. s[i + 1] = f[Wrap(h + (i + 1) - 1)]
    BY <1>2, <2>2
  <2> QED BY <1>3, <1>6, <2>1, <2>3
<1>8. t = Tail(s)
  BY <1>3, <1>6, <1>7, SeqEqual
<1> QED BY <1>4, <1>5, <1>8 DEF s, t

(* Appending to a non-empty queue does not change what leaves first.       *)
LEMMA AppendToNonEmpty ==
  ASSUME NEW s \in Seq(Msg), NEW m \in Msg, s # <<>>
  PROVE  /\ Append(s, m) # <<>>
         /\ Head(Append(s, m)) = Head(s)
         /\ Tail(Append(s, m)) = Append(Tail(s), m)
<1> DEFINE a == Append(s, m)
           t == Tail(s)
<1>1. /\ a \in Seq(Msg) /\ Len(a) = Len(s) + 1 /\ Len(s) \in Nat /\ a[Len(s) + 1] = m
      /\ \A i \in 1 .. Len(s) : a[i] = s[i]
  OBVIOUS
<1>2. Len(s) >= 1
  BY <1>1, EmptySeq
<1>3. /\ t \in Seq(Msg) /\ Len(t) = Len(s) - 1
      /\ \A i \in 1 .. Len(s) - 1 : t[i] = s[i + 1]
  BY HeadTailProperties
<1>4. a # <<>> /\ Head(a) = Head(s)
  BY <1>1, <1>2
<1>5. /\ Tail(a) \in Seq(Msg) /\ Len(Tail(a)) = Len(s)
      /\ \A i \in 1 .. Len(s) : Tail(a)[i] = a[i + 1]
  BY <1>1, <1>4, HeadTailProperties
<1>6. /\ Append(t, m) \in Seq(Msg) /\ Len(Append(t, m)) = Len(s)
      /\ Append(t, m)[Len(s)] = m
      /\ \A i \in 1 .. Len(s) - 1 : Append(t, m)[i] = t[i]
  BY <1>1, <1>2, <1>3
<1> HIDE DEF a, t
<1>7. ASSUME NEW i \in 1 .. Len(s) PROVE Tail(a)[i] = Append(t, m)[i]
  <2>1. CASE i = Len(s)
    BY <1>1, <1>5, <1>6, <2>1
  <2>2. CASE i \in 1 .. Len(s) - 1
    <3>1. i + 1 \in 1 .. Len(s)
      BY <1>1, <2>2
    <3>2. Tail(a)[i] = a[i + 1] /\ a[i + 1] = s[i + 1]
      BY <1>1, <1>5, <3>1
    <3>3. Append(t, m)[i] = t[i] /\ t[i] = s[i + 1]
      BY <1>3, <1>6, <2>2
    <3> QED BY <3>2, <3>3
  <2>3. i = Len(s) \/ i \in 1 .. Len(s) - 1
    <3>1. Len(s) \in Nat
      OBVIOUS
    <3> QED BY <3>1
  <2> QED BY <2>1, <2>2, <2>3
<1>8. Tail(a) = Append(t, m)
  BY <1>5, <1>6, <1>7, SeqEqual
<1> QED BY <1>4, <1>8 DEF a, t

LEMMA ContentsIsRing == Contents = Ring(count, head, regs)
  BY DEF Contents, Ring

(* The queue after a cycle, in the ring and in the FIFO.                   *)
LEMMA TickRefines ==
  ASSUME RingInv, RingInv',
         NEW recv_val \in BOOLEAN, NEW ready \in BOOLEAN, NEW m \in Msg,
         Tick(recv_val, m, ready)
  PROVE  Fifo!Transfer(inp')
<1> DEFINE recv == RecvXfer(recv_val, ready)
           send == SendXfer(recv_val, ready)
<1>0. /\ count \in 0 .. NumEntries /\ head \in Slots /\ regs \in [Slots -> Msg]
      /\ tail = Wrap(head + count)
      /\ count' \in 0 .. NumEntries /\ head' \in Slots /\ regs' \in [Slots -> Msg]
      /\ NoMsg \notin Msg /\ NumEntries \in Nat /\ NumEntries >= 2
  BY QueueAssumption DEF RingInv, RingTypeOK, RingConsistent
<1>1. /\ up_reg(recv, send)
      /\ inp' = (IF recv THEN m ELSE NoMsg)
      /\ out' = (IF send THEN send_msg(m) ELSE NoMsg)
      /\ regs' = (IF recv THEN [regs EXCEPT ![tail] = m] ELSE regs)
      /\ cleared' = FALSE
  BY DEF Tick, Observe, dpath, RecvXfer, SendXfer
<1>2. Contents' = Ring(count', head', regs')
  BY DEF Contents, Ring, Wrap
<1>3. Len(Contents') <= NumEntries
  BY <1>0, <1>2, RingIsSeq
<1> SUFFICES Fifo!Leaves(inp')
  <2>1. Fifo!Transfer(inp') <=> Fifo!Leaves(inp')
    <3>1. cleared' = FALSE
      BY <1>1
    <3> QED BY <1>3, <3>1 DEF Fifo!Transfer
  <2> QED BY <2>1
<1>4. CASE ~recv /\ ~send
  <2>1. head' = head /\ count' = count /\ regs' = regs /\ inp' = NoMsg /\ out' = NoMsg
    BY <1>1, <1>4 DEF up_reg
  <2>2. Contents' = Contents
    BY <1>2, <2>1, ContentsIsRing
  <2> QED BY <2>1, <2>2 DEF Fifo!Leaves, Fifo!Arrived
<1>5. CASE recv /\ ~send
  <2>1. /\ head' = head /\ count' = count + 1 /\ regs' = [regs EXCEPT ![tail] = m]
        /\ inp' = m /\ out' = NoMsg
    BY <1>1, <1>5 DEF up_reg
  <2>2. count < NumEntries
    BY <1>0, <1>5 DEF RecvXfer, recv_rdy, SendXfer, send_val
  <2>3. Ring(count + 1, head, [regs EXCEPT ![Wrap(head + count)] = m])
          = Append(Ring(count, head, regs), m)
    BY <1>0, <2>2, RingAppend
  <2>4. Contents' = Append(Contents, m)
    BY <1>0, <1>2, <2>1, <2>3, ContentsIsRing
  <2> QED BY <1>0, <2>1, <2>4 DEF Fifo!Leaves, Fifo!Arrived
<1>6. CASE ~recv /\ send
  <2>1. /\ head' = Advance(head) /\ count' = count - 1 /\ regs' = regs
        /\ inp' = NoMsg /\ out' = send_msg(m)
    BY <1>1, <1>6 DEF up_reg
  <2>2. count \in 1 .. NumEntries
    BY <1>0, <1>6 DEF RecvXfer, recv_rdy, SendXfer, send_val
  <2>3. out' = regs[head]
    BY <2>1, <2>2 DEF send_msg
  <2>4. Contents # <<>> /\ Head(Contents) = regs[head] /\ Contents' = Tail(Contents)
    BY <1>0, <1>2, <2>1, <2>2, ContentsIsRing, RingTail
  <2> QED BY <2>1, <2>3, <2>4 DEF Fifo!Leaves, Fifo!Arrived
<1>7. CASE recv /\ send
  <2>1. /\ head' = Advance(head) /\ count' = count
        /\ regs' = [regs EXCEPT ![tail] = m]
        /\ inp' = m /\ out' = send_msg(m)
    BY <1>1, <1>7 DEF up_reg
  <2>2. CASE count = NumEntries
    (* The full pipe queue overwrites the slot it is sending from.         *)
    <3>1. tail = head /\ out' = regs[head]
      BY <1>0, <2>1, <2>2 DEF Wrap, send_msg, Slots
    <3>2. Contents # <<>> /\ Head(Contents) = regs[head]
          /\ Tail(Contents) = Ring(count - 1, Advance(head), regs)
      BY <1>0, <2>2, ContentsIsRing, RingTail
    <3>3. head = Wrap(Advance(head) + (count - 1)) /\ Advance(head) \in Slots
      BY <1>0, <2>2 DEF Wrap, Advance, Slots
    <3>4. Ring((count - 1) + 1, Advance(head), [regs EXCEPT ![head] = m])
            = Append(Ring(count - 1, Advance(head), regs), m)
      <4> DEFINE n == count - 1
                 h == Advance(head)
      <4>1. n \in 0 .. NumEntries /\ n < NumEntries
        BY <1>0, <2>2
      <4>2. h \in Slots /\ Wrap(h + n) = head
        BY <3>3
      <4> HIDE DEF n, h
      <4>3. Ring(n + 1, h, [regs EXCEPT ![Wrap(h + n)] = m]) = Append(Ring(n, h, regs), m)
        <5>1. regs \in [Slots -> Msg] /\ m \in Msg
          BY <1>0
        <5> QED BY <4>1, <4>2, <5>1, RingAppend
      <4>4. Ring(n + 1, h, [regs EXCEPT ![head] = m]) = Append(Ring(n, h, regs), m)
        BY <4>2, <4>3
      <4> QED BY <4>4 DEF n, h
    <3>5. (count - 1) + 1 = count
      BY <1>0
    <3>6. Contents' = Append(Tail(Contents), m)
      BY <1>2, <2>1, <3>1, <3>2, <3>4, <3>5
    <3>7. Contents \in Seq(Msg)
      BY <1>0, ContentsIsRing, RingIsSeq
    <3>8. /\ Append(Contents, m) # <<>>
          /\ Head(Append(Contents, m)) = Head(Contents)
          /\ Tail(Append(Contents, m)) = Append(Tail(Contents), m)
      BY <3>2, <3>7, AppendToNonEmpty
    <3> QED BY <1>0, <2>1, <3>1, <3>2, <3>6, <3>8
            DEF Fifo!Leaves, Fifo!Arrived
  <2>3. CASE count < NumEntries
    <3> DEFINE g == [regs EXCEPT ![tail] = m]
    <3>1. Ring(count + 1, head, g) = Append(Contents, m)
      <4>1. Ring(count + 1, head, [regs EXCEPT ![Wrap(head + count)] = m])
              = Append(Ring(count, head, regs), m)
        BY <1>0, <2>3, RingAppend
      <4> QED BY <1>0, <4>1, ContentsIsRing
    <3>2. /\ Append(Contents, m) # <<>>
          /\ Head(Append(Contents, m)) = g[head]
          /\ Ring(count, Advance(head), g) = Tail(Append(Contents, m))
      <4> DEFINE n == count + 1
      <4>1. n \in 1 .. NumEntries /\ n - 1 = count
        BY <1>0, <2>3
      <4>2. g \in [Slots -> Msg]
        BY <1>0, Zenon
      <4> HIDE DEF n, g
      <4>3. /\ Ring(n, head, g) # <<>>
            /\ Head(Ring(n, head, g)) = g[head]
            /\ Ring(n - 1, Advance(head), g) = Tail(Ring(n, head, g))
        BY <1>0, <4>1, <4>2, RingTail
      <4> QED BY <3>1, <4>1, <4>3 DEF n
    <3>3. out' = send_msg(m)
      BY <2>1
    <3>4. Contents' = Tail(Append(Contents, m))
      BY <1>2, <2>1, <3>2
    <3>5. send_msg(m) = g[head]
      <4>1. CASE count = 0
        <5>1. kind = "bypass" /\ tail = head
          BY <1>0, <1>7, <4>1 DEF SendXfer, send_val, Wrap, Slots
        <5> QED BY <1>0, <4>1, <5>1 DEF send_msg
      <4>2. CASE count > 0
        <5>1. tail # head
          BY <1>0, <2>3, <4>2 DEF Wrap, Slots
        <5> QED BY <1>0, <4>2, <5>1 DEF send_msg
      <4> QED BY <1>0, <4>1, <4>2
    <3> QED BY <1>0, <2>1, <3>2, <3>3, <3>4, <3>5
            DEF Fifo!Leaves, Fifo!Arrived
  <2> QED BY <1>0, <2>2, <2>3
<1> QED BY <1>4, <1>5, <1>6, <1>7

LEMMA TickClearRefines ==
  ASSUME RingInv, RingInv',
         NEW recv_val \in BOOLEAN, NEW ready \in BOOLEAN, NEW m \in Msg,
         TickClear(recv_val, m, ready)
  PROVE  Fifo!Flush(inp')
<1> DEFINE recv == RecvXfer(recv_val, ready)
           send == SendXfer(recv_val, ready)
<1>0. /\ count \in 0 .. NumEntries /\ head \in Slots /\ regs \in [Slots -> Msg]
      /\ NoMsg \notin Msg /\ NumEntries \in Nat /\ NumEntries >= 2
  BY QueueAssumption DEF RingInv, RingTypeOK
<1>1. /\ inp' = (IF recv THEN m ELSE NoMsg)
      /\ out' = (IF send THEN send_msg(m) ELSE NoMsg)
      /\ count' = 0 /\ kind = "clear" /\ cleared' = TRUE
  BY DEF TickClear, Observe, RecvXfer, SendXfer
<1>2. Contents' = <<>>
  BY <1>1 DEF Contents
<1>3. CASE ~send
  BY <1>1, <1>2, <1>3 DEF Fifo!Flush
<1>4. CASE send
  <2>1. count \in 1 .. NumEntries /\ send_msg(m) = regs[head]
    BY <1>0, <1>1, <1>4 DEF SendXfer, send_val, send_msg
  <2>2. Contents \in Seq(Msg) /\ Contents # <<>> /\ Head(Contents) = regs[head]
    BY <1>0, <2>1, ContentsIsRing, RingTail, RingIsSeq
  <2>3. Append(Contents, m) # <<>> /\ Head(Append(Contents, m)) = Head(Contents)
    BY <2>2, AppendToNonEmpty
  <2> QED BY <1>1, <1>2, <1>4, <2>1, <2>2, <2>3 DEF Fifo!Flush, Fifo!Arrived
<1> QED BY <1>3, <1>4

(* The circular buffer implements the FIFO, whichever its kind: no message *)
(* is lost, duplicated or reordered, and no capacity is exceeded; only the *)
(* kind with a clear port drops what it holds, what arrives in the same    *)
(* cycle included, and only in a cycle in which that port is high.         *)
THEOREM Refinement == RingSpec => ImplementsFifo
<1>1. RingInit => Fifo!Init
  <2> SUFFICES ASSUME RingInit PROVE Fifo!Init
    OBVIOUS
  <2>1. Contents = <<>>
    BY DEF RingInit, Contents
  <2> QED BY <2>1 DEF RingInit, Fifo!Init
<1>2. RingInv /\ RingInv' /\ [RingNext]_ringvars => [Fifo!Next]_(Fifo!vars)
  <2> SUFFICES ASSUME RingInv, RingInv', [RingNext]_ringvars PROVE [Fifo!Next]_(Fifo!vars)
    OBVIOUS
  <2>0. inp' \in Msg \cup {NoMsg}
    BY DEF RingInv, RingTypeOK
  <2>1. CASE UNCHANGED ringvars
    BY <2>1 DEF ringvars, Fifo!vars, Contents, Wrap
  <2>2. ASSUME NEW recv_val \in BOOLEAN, NEW ready \in BOOLEAN, NEW m \in Msg,
               Tick(recv_val, m, ready)
        PROVE  Fifo!Next
    BY <2>0, <2>2, TickRefines DEF Fifo!Next, Tick
  <2>3. ASSUME NEW recv_val \in BOOLEAN, NEW ready \in BOOLEAN, NEW m \in Msg,
               TickClear(recv_val, m, ready)
        PROVE  Fifo!Next
    BY <2>0, <2>3, TickClearRefines DEF Fifo!Next, TickClear
  <2> QED BY <2>1, <2>2, <2>3 DEF RingNext
<1> QED BY <1>1, <1>2, RingInvariance, PTL DEF RingSpec, ImplementsFifo, Fifo!Spec
-----------------------------------------------------------------------------
(* The channel holds what all its queues hold, so its proofs are by        *)
(* induction over the queues of the chain.  Every nonempty set of naturals *)
(* has a least element.                                                    *)
LEMMA LeastElement ==
  ASSUME NEW T \in SUBSET Nat, T # {}
  PROVE  \E n \in T : \A m \in T : n <= m
<1>1. \E n \in T : \A m \in T : ~(<<m, n>> \in OpToRel(<, Nat))
  BY NatLessThanWellFounded, WFMin
<1>2. PICK n \in T : \A m \in T : ~(<<m, n>> \in OpToRel(<, Nat))
  BY <1>1
<1>3. ASSUME NEW m \in T PROVE n <= m
  <2>1. <<m, n>> \in Nat \X Nat
    OBVIOUS
  <2>2. ~(m < n)
    BY <1>2, <2>1 DEF OpToRel
  <2> QED BY <2>2
<1> QED BY <1>3

(* A set of naturals with 0 and every successor holds all of them.         *)
LEMMA Induction ==
  ASSUME NEW S, 0 \in S, \A n \in Nat : n \in S => n + 1 \in S
  PROVE  Nat \subseteq S
<1> SUFFICES ASSUME Nat \ S # {} PROVE FALSE
  OBVIOUS
<1>1. PICK n \in Nat \ S : \A m \in Nat \ S : n <= m
  BY LeastElement
<1>2. n # 0 /\ n - 1 \in Nat /\ ~(n <= n - 1)
  OBVIOUS
<1>3. n - 1 \in S
  BY <1>1, <1>2
<1>4. (n - 1) + 1 \in S
  BY <1>2, <1>3
<1> QED BY <1>1, <1>2, <1>4

-----------------------------------------------------------------------------
(* The one-entry queues.                                                   *)
OneInv == full \in BOOLEAN /\ entry \in Msg /\ kind \in Kinds

(* A queue of at most one message after a cycle, in all cases.             *)
LEMMA OneStep ==
  ASSUME OneInv, One!Next
  PROVE  OneInv' /\ One!Fifo!Next
<1>1. PICK recv_val \in BOOLEAN, ready \in BOOLEAN, m \in Msg :
        One!Tick(recv_val, m, ready) \/ One!TickClear(recv_val, m, ready)
  BY DEF One!Next
<1> DEFINE accepted == recv_val /\ One!recv_rdy(ready)
           sent == One!send_val(recv_val) /\ ready
           a == IF accepted THEN m ELSE NoMsg
<1>2. /\ inp1' = a /\ out1' = (IF sent THEN One!send_msg(m) ELSE NoMsg) /\ kind' = kind
      /\ entry' = IF One!Load(recv_val, ready) THEN m ELSE entry
      /\ \/ full' = One!NextFull(recv_val, ready) /\ cleared1' = FALSE
         \/ kind = "clear" /\ full' = FALSE /\ cleared1' = TRUE
  BY <1>1 DEF One!Tick, One!TickClear, One!Datapath
<1>3. NoMsg \notin Msg /\ a \in Msg \cup {NoMsg}
  BY QueueAssumption
<1>4. OneInv'
  <2>1. One!NextFull(recv_val, ready) \in BOOLEAN
    BY DEF OneInv, Kinds, One!NextFull, One!recv_rdy
  <2> QED BY <1>2, <2>1 DEF OneInv
<1>5. /\ One!recv_rdy(ready) <=> ~full \/ (kind = "pipe" /\ ready)
      /\ One!send_val(recv_val) <=> full \/ (kind = "bypass" /\ recv_val)
      /\ One!send_msg(m) = IF kind = "bypass" /\ ~full THEN m ELSE entry
      /\ kind \in Kinds
  BY DEF One!recv_rdy, One!send_val, One!send_msg, OneInv
<1>6. /\ One!NextFull(recv_val, ready) =
           IF full THEN ~ready \/ (kind = "pipe" /\ recv_val)
           ELSE recv_val /\ ~(kind = "bypass" /\ ready)
      /\ One!Load(recv_val, ready) =
           IF full THEN kind = "pipe" /\ ready /\ recv_val
           ELSE recv_val /\ ~(kind = "bypass" /\ ready)
  BY <1>5 DEF One!NextFull, One!Load, Kinds, OneInv
<1>7. /\ One!Contents = IF full THEN <<entry>> ELSE <<>>
      /\ One!Contents' = IF full' THEN <<entry'>> ELSE <<>>
      /\ One!Fifo!Arrived(a) = IF a = NoMsg THEN One!Contents ELSE Append(One!Contents, a)
  BY DEF One!Contents, One!Fifo!Arrived
<1>8. /\ full /\ a # NoMsg => One!Fifo!Arrived(a) = <<entry, a>>
      /\ full /\ a = NoMsg => One!Fifo!Arrived(a) = <<entry>>
      /\ ~full /\ a # NoMsg => One!Fifo!Arrived(a) = <<a>>
      /\ ~full /\ a = NoMsg => One!Fifo!Arrived(a) = <<>>
  <2>1. \A x, y \in Msg : Append(<<x>>, y) = <<x, y>> /\ Append(<<>>, y) = <<y>>
    <3> TAKE x, y \in Msg
    <3>1. Append(<<>>, y) = <<y>>
      OBVIOUS
    <3>2. Append(<<x>>, y) = <<x, y>>
      <4>1. <<x>> \in Seq(Msg) /\ <<x, y>> \in Seq(Msg) /\ Len(<<x>>) = 1 /\ Len(<<x, y>>) = 2
        OBVIOUS
      <4>2. /\ Append(<<x>>, y) \in Seq(Msg) /\ Len(Append(<<x>>, y)) = 2
            /\ Append(<<x>>, y)[1] = x /\ Append(<<x>>, y)[2] = y
        BY <4>1, AppendProperties
      <4>3. \A i \in 1 .. 2 : Append(<<x>>, y)[i] = <<x, y>>[i]
        BY <4>2
      <4> QED BY <4>1, <4>2, <4>3, SeqEqual
    <3> QED BY <3>1, <3>2
  <2>0. (a # NoMsg => a \in Msg) /\ entry \in Msg
    BY <1>3 DEF OneInv
  <2> HIDE DEF a
  <2>2. CASE full
    BY <2>0, <1>7, <2>1, <2>2
  <2>3. CASE ~full
    BY <2>0, <1>7, <2>1, <2>3
  <2> QED BY <2>2, <2>3
<1>9. /\ \A x, y : Head(<<x, y>>) = x /\ Tail(<<x, y>>) = <<y>> /\ <<x, y>> # <<>>
      /\ \A x : Head(<<x>>) = x /\ Tail(<<x>>) = <<>> /\ <<x>> # <<>>
  OBVIOUS
<1>10. Len(One!Contents') <= 1
  <2>1. One!Contents' = <<>> \/ One!Contents' = <<entry'>>
    BY <1>7
  <2>2. Len(<<>>) <= 1 /\ \A x : Len(<<x>>) <= 1
    OBVIOUS
  <2> QED BY <2>1, <2>2
<1> HIDE DEF a
<1>11. /\ a = IF recv_val /\ One!recv_rdy(ready) THEN m ELSE NoMsg
       /\ m # NoMsg
  BY <1>3 DEF a
<1>12. CASE kind = "clear" /\ full' = FALSE /\ cleared1' = TRUE
  <2>1. One!Contents' = <<>>
    BY <1>7, <1>12
  <2>2. out1' = IF full /\ ready THEN entry ELSE NoMsg
    BY <1>2, <1>5, <1>12
  <2>3. full => One!Fifo!Arrived(a) # <<>> /\ Head(One!Fifo!Arrived(a)) = entry
    BY <1>8, <1>9
  <2>4. One!Fifo!Flush(a)
    BY <1>2, <1>12, <2>1, <2>2, <2>3 DEF One!Fifo!Flush
  <2> QED BY <1>2, <1>3, <1>4, <2>4 DEF One!Fifo!Next
<1>13. CASE full' = One!NextFull(recv_val, ready) /\ cleared1' = FALSE
  <2> SUFFICES One!Fifo!Leaves(a)
    <3>1. One!Fifo!Transfer(a)
      BY <1>2, <1>10, <1>13 DEF One!Fifo!Transfer
    <3> QED BY <1>2, <1>3, <1>4, <3>1 DEF One!Fifo!Next
  <2>1. CASE full /\ ready
    <3>1. /\ out1' = entry /\ full' = (kind = "pipe" /\ recv_val)
          /\ full' => entry' = m /\ a = m
          /\ ~full' => a = NoMsg
      BY <1>2, <1>5, <1>6, <1>11, <1>13, <2>1
    <3>2. /\ One!Fifo!Arrived(a) # <<>> /\ out1' = Head(One!Fifo!Arrived(a))
          /\ One!Contents' = Tail(One!Fifo!Arrived(a))
      BY <1>7, <1>8, <1>9, <1>11, <2>1, <3>1
    <3> QED BY <3>2 DEF One!Fifo!Leaves
  <2>2. CASE full /\ ~ready
    <3>1. out1' = NoMsg /\ full' = TRUE /\ entry' = entry /\ a = NoMsg
      BY <1>2, <1>5, <1>6, <1>11, <1>13, <2>2
    <3>2. One!Contents' = One!Fifo!Arrived(a)
      BY <1>7, <1>8, <2>2, <3>1
    <3> QED BY <3>1, <3>2 DEF One!Fifo!Leaves
  <2>3. CASE ~full /\ kind = "bypass" /\ ready /\ recv_val
    <3>1. out1' = m /\ full' = FALSE /\ a = m
      BY <1>2, <1>5, <1>6, <1>11, <1>13, <2>3
    <3>2. /\ One!Fifo!Arrived(a) # <<>> /\ out1' = Head(One!Fifo!Arrived(a))
          /\ One!Contents' = Tail(One!Fifo!Arrived(a))
      BY <1>7, <1>8, <1>9, <1>11, <2>3, <3>1
    <3> QED BY <3>2 DEF One!Fifo!Leaves
  <2>4. CASE ~full /\ ~(kind = "bypass" /\ ready /\ recv_val)
    <3>1. /\ out1' = NoMsg /\ full' = recv_val
          /\ recv_val => entry' = m /\ a = m
          /\ ~recv_val => a = NoMsg
      BY <1>2, <1>5, <1>6, <1>11, <1>13, <2>4
    <3>2. One!Contents' = One!Fifo!Arrived(a)
      BY <1>7, <1>8, <1>11, <2>4, <3>1
    <3> QED BY <3>1, <3>2 DEF One!Fifo!Leaves
  <2> QED BY <2>1, <2>2, <2>3, <2>4
<1> QED BY <1>2, <1>12, <1>13

LEMMA OneRefines == One!Spec => One!ImplementsFifo
<1>1. One!Init => OneInv /\ One!Fifo!Init
  BY DEF One!Init, OneInv, One!Fifo!Init, One!Contents, One!Kinds, Kinds
<1>2. OneInv /\ [One!Next]_(One!vars) => OneInv' /\ [One!Fifo!Next]_(One!Fifo!vars)
  <2> SUFFICES ASSUME OneInv, UNCHANGED One!vars PROVE OneInv' /\ UNCHANGED One!Fifo!vars
    BY OneStep
  <2> QED BY DEF OneInv, One!vars, One!Fifo!vars, One!Contents
<1> QED BY <1>1, <1>2, PTL DEF One!Spec, One!ImplementsFifo, One!Fifo!Spec

-----------------------------------------------------------------------------
(* The channel.  IsFlat is the recursion FlattenSeq is written with.       *)
IsFlat(r, f) == f = [i \in 1 .. Len(r) |-> IF i = 1 THEN r[i] ELSE f[i - 1] \o r[i]]
Flat(r) == CHOOSE f : IsFlat(r, f)

LEMMA FlattenIsFlat ==
  ASSUME NEW r, Len(r) # 0
  PROVE  Chain!FlattenSeq(r) = Flat(r)[Len(r)]
  BY DEF Chain!FlattenSeq, Flat, IsFlat

LEMMA FlatExists ==
  ASSUME NEW r, Len(r) \in Nat
  PROVE  \E f : IsFlat(r, f)
<1> DEFINE Partly(n, f) == f = [i \in 1 .. n |-> IF i = 1 THEN r[i] ELSE f[i - 1] \o r[i]]
           Good == {n \in Nat : \E f : Partly(n, f)}
<1>1. 0 \in Good
  <2> DEFINE f == [i \in 1 .. 0 |-> r[i]]
  <2>1. Partly(0, f)
    OBVIOUS
  <2> QED BY <2>1
<1>2. ASSUME NEW n \in Nat, n \in Good PROVE n + 1 \in Good
  <2>1. PICK f : Partly(n, f)
    BY <1>2
  <2> DEFINE g == [i \in 1 .. n + 1 |-> IF i = 1 THEN r[i] ELSE f[i - 1] \o r[i]]
  <2>2. \A i \in 1 .. n : i \in 1 .. n + 1 /\ g[i] = f[i]
    <3> TAKE i \in 1 .. n
    <3>1. i \in 1 .. n + 1
      OBVIOUS
    <3>2. f[i] = IF i = 1 THEN r[i] ELSE f[i - 1] \o r[i]
      BY <2>1
    <3>3. g[i] = IF i = 1 THEN r[i] ELSE f[i - 1] \o r[i]
      BY <3>1
    <3> QED BY <3>1, <3>2, <3>3
  <2>3. ASSUME NEW i \in 1 .. n + 1
        PROVE  g[i] = IF i = 1 THEN r[i] ELSE g[i - 1] \o r[i]
    <3>1. i # 1 => i - 1 \in 1 .. n
      OBVIOUS
    <3>2. i # 1 => g[i - 1] = f[i - 1]
      BY <2>2, <3>1
    <3> QED BY <3>2
  <2>4. Partly(n + 1, g)
    BY <2>3
  <2>5. n + 1 \in Nat /\ \E h : Partly(n + 1, h)
    <3> HIDE DEF Partly
    <3> QED BY <2>4
  <2> QED BY <2>5
<1>3. \E f : Partly(Len(r), f)
  <2> HIDE DEF Partly
  <2>1. Nat \subseteq Good
    BY <1>1, <1>2, Induction
  <2> QED BY <2>1
<1> QED BY <1>3 DEF IsFlat

ChainShape == Latency \in Nat \ {0}

(* What the last i stages hold, the stage that sends first.                *)
Queues == [Chain!Stage -> Seq(Msg)]
LastStages(qs) == Flat(Chain!Reverse(qs))

LEMMA LastStagesEquation ==
  ASSUME ChainShape, NEW qs \in Queues
  PROVE  /\ LastStages(qs)[1] = qs[Latency]
         /\ \A i \in 1 .. Latency : i # 1 =>
              LastStages(qs)[i] = LastStages(qs)[i - 1] \o qs[(Latency - i) + 1]
         /\ Chain!FlattenSeq(Chain!Reverse(qs)) = LastStages(qs)[Latency]
<1> DEFINE r == Chain!Reverse(qs)
           f == Flat(r)
<1>1. qs \in Seq(Seq(Msg)) /\ Len(qs) = Latency
  <2>1. qs \in [1 .. Latency -> Seq(Msg)] /\ Latency \in Nat
    BY DEF Queues, Chain!Stage, ChainShape
  <2> DEFINE T == Seq(Msg)
  <2> HIDE DEF T
  <2>2. qs \in Seq(T) /\ Len(qs) = Latency
    <3>1. qs \in [1 .. Latency -> T]
      BY <2>1 DEF T
    <3>2. qs \in Seq(T)
      BY <2>1, <3>1, SeqDef
    <3> QED BY <2>1, <3>1, <3>2, LenProperties
  <2> QED BY <2>2 DEF T
<1>2. r = [i \in 1 .. Latency |-> qs[(Latency - i) + 1]] /\ Latency \in Nat \ {0}
  BY <1>1 DEF Chain!Reverse, ChainShape
<1>3. Len(r) = Latency
  <2>1. \A i \in 1 .. Latency : (Latency - i) + 1 \in 1 .. Latency
    BY <1>2
  <2>2. r \in [1 .. Latency -> Seq(Msg)]
    BY <1>2, <2>1 DEF Queues, Chain!Stage
  <2> HIDE DEF r
  <2> QED BY <1>2, <2>2
<1>4. IsFlat(r, f)
  <2> HIDE DEF r
  <2>1. \E g : IsFlat(r, g)
    BY <1>2, <1>3, FlatExists
  <2> QED BY <2>1 DEF Flat
<1>5. \A i \in 1 .. Latency :
        f[i] = IF i = 1 THEN r[i] ELSE f[i - 1] \o r[i]
  <2> HIDE DEF r, f
  <2> QED BY <1>3, <1>4 DEF IsFlat
<1>6. \A i \in 1 .. Latency : r[i] = qs[(Latency - i) + 1]
  BY <1>2
<1>7. r[1] = qs[Latency]
  BY <1>2, <1>6
<1>8. Chain!FlattenSeq(r) = f[Latency]
  <2> HIDE DEF r
  <2> QED BY <1>2, <1>3, FlattenIsFlat
<1>9. 1 \in 1 .. Latency
  BY <1>2
<1> QED BY <1>5, <1>6, <1>7, <1>8, <1>9 DEF LastStages

ChainInv ==
  /\ queues \in Queues
  /\ \A k \in Chain!Stage : Len(queues[k]) <= 2
  /\ send_rdy \in BOOLEAN


(* A message that came in, if one did, behind those there.                 *)
Joined(s, x) == IF x = NoMsg THEN s ELSE Append(s, x)

Sends == Chain!leaves(Latency)

(* One cycle of a stage: what it keeps and what enters it.                 *)
LEMMA StageStep ==
  ASSUME ChainShape, ChainInv, NEW m \in Msg \cup {NoMsg}, NEW k \in Chain!Stage
  PROVE  /\ Chain!leaves(k) => queues[k] # <<>>
         /\ Chain!enters(k, m) \in Msg \cup {NoMsg}
         /\ Chain!Step(k, m) =
              Joined(IF Chain!leaves(k) THEN Tail(queues[k]) ELSE queues[k], Chain!enters(k, m))
         /\ Chain!Step(k, m) \in Seq(Msg) /\ Len(Chain!Step(k, m)) <= 2
<1> DEFINE q == queues[k]
           e == Chain!enters(k, m)
           kept == IF Chain!leaves(k) THEN Tail(q) ELSE q
<1>0. NoMsg \notin Msg /\ Latency \in Nat \ {0} /\ k \in 1 .. Latency
  BY QueueAssumption DEF ChainShape, Chain!Stage
<1>1. \A j \in 1 .. Latency : queues[j] \in Seq(Msg) /\ Len(queues[j]) <= 2
  BY DEF ChainInv, Queues, Chain!Stage
<1>2. \A j \in 1 .. Latency : Chain!leaves(j) => queues[j] # <<>>
  BY DEF Chain!leaves, Chain!Holds
<1>3. k # 1 => k - 1 \in 1 .. Latency /\ k - 1 # Latency /\ (k - 1) + 1 = k
  BY <1>0
<1>4. e \in Msg \cup {NoMsg}
  <2>1. CASE k = 1
    BY <2>1 DEF Chain!enters
  <2>2. CASE k # 1
    <3>1. Chain!leaves(k - 1) => Head(queues[k - 1]) \in Msg
      BY <1>1, <1>2, <1>3, <2>2, HeadTailProperties
    <3> QED BY <2>2, <3>1 DEF Chain!enters
  <2> QED BY <2>1, <2>2
<1>5. kept \in Seq(Msg) /\ Len(kept) \in Nat /\ Len(kept) <= 2
      /\ (Chain!leaves(k) => Len(kept) <= 1)
  <2>1. q \in Seq(Msg) /\ Len(q) \in Nat /\ Len(q) <= 2
    BY <1>0, <1>1
  <2>2. CASE Chain!leaves(k)
    <3>1. Tail(q) \in Seq(Msg) /\ Len(Tail(q)) = Len(q) - 1 /\ Len(Tail(q)) \in Nat
      BY <1>0, <1>2, <2>1, <2>2, HeadTailProperties
    <3> QED BY <2>1, <2>2, <3>1
  <2> QED BY <2>1, <2>2
<1>6. e # NoMsg => Len(kept) <= 1
  <2> SUFFICES ASSUME e # NoMsg, ~Chain!leaves(k) PROVE Len(q) < 2
    BY <1>0, <1>1, <1>5
  <2>1. Chain!Room(k)
    <3>1. CASE k = 1
      BY <3>1 DEF Chain!enters
    <3>2. CASE k # 1
      <4>1. Chain!leaves(k - 1)
        BY <3>2 DEF Chain!enters
      <4> QED BY <1>3, <3>2, <4>1 DEF Chain!leaves
    <3> QED BY <3>1, <3>2
  <2> QED BY <2>1 DEF Chain!Room, Chain!StageEntries
<1>7. Chain!Step(k, m) = Joined(kept, e)
  BY DEF Chain!Step, Joined
<1> HIDE DEF kept, e, q
<1>8. Joined(kept, e) \in Seq(Msg) /\ Len(Joined(kept, e)) <= 2
  <2>1. CASE e = NoMsg
    BY <1>5, <2>1 DEF Joined
  <2>2. CASE e # NoMsg
    <3>1. Append(kept, e) \in Seq(Msg) /\ Len(Append(kept, e)) = Len(kept) + 1
      BY <1>4, <1>5, <2>2, AppendProperties
    <3> QED BY <1>5, <1>6, <2>2, <3>1 DEF Joined
  <2> QED BY <2>1, <2>2
<1> QED BY <1>0, <1>2, <1>4, <1>7, <1>8 DEF q, kept, e

LEMMA ChainStep ==
  ASSUME ChainShape, ChainInv, NEW m \in Msg \cup {NoMsg}, Chain!Tick(m) \/ Chain!TickClear(m)
  PROVE  ChainInv'
<1>0. send_rdy' \in BOOLEAN
  BY DEF Chain!Tick, Chain!TickClear
<1>1. CASE Chain!Tick(m)
  <2>1. queues' = [k \in Chain!Stage |-> Chain!Step(k, m)]
    BY <1>1 DEF Chain!Tick
  <2>2. \A k \in Chain!Stage : Chain!Step(k, m) \in Seq(Msg) /\ Len(Chain!Step(k, m)) <= 2
    BY StageStep
  <2> QED BY <1>0, <2>1, <2>2 DEF ChainInv, Queues, Chain!Stage
<1>2. CASE Chain!TickClear(m)
  <2>1. queues' = [k \in Chain!Stage |-> <<>>]
    BY <1>2 DEF Chain!TickClear
  <2>2. <<>> \in Seq(Msg) /\ Len(<<>>) <= 2
    OBVIOUS
  <2> QED BY <1>0, <2>1, <2>2 DEF ChainInv, Queues, Chain!Stage
<1> QED BY <1>1, <1>2

(* Sequences with a message behind.                                        *)
LEMMA JoinedFacts ==
  ASSUME NEW s \in Seq(Msg), NEW x \in Msg \cup {NoMsg}
  PROVE  /\ Joined(s, x) \in Seq(Msg)
         /\ \A t \in Seq(Msg) : t \o Joined(s, x) = Joined(t \o s, x)
         /\ s # <<>> => /\ Joined(s, x) # <<>> /\ Head(Joined(s, x)) = Head(s)
                        /\ Tail(Joined(s, x)) = Joined(Tail(s), x)
<1>1. CASE x = NoMsg
  BY <1>1 DEF Joined
<1>2. CASE x # NoMsg
  <2>0. x \in Msg /\ <<x>> \in Seq(Msg)
    BY <1>2
  <2>1. Append(s, x) \in Seq(Msg) /\ Append(s, x) # <<>> /\ Append(s, x) = s \o <<x>>
    BY <2>0, AppendProperties, AppendIsConcat
  <2>2. s # <<>> => Head(Append(s, x)) = Head(s) /\ Tail(Append(s, x)) = Append(Tail(s), x)
    BY HeadTailAppend
  <2>3. ASSUME NEW t \in Seq(Msg) PROVE t \o Append(s, x) = Append(t \o s, x)
    <3>1. t \o s \in Seq(Msg)
      BY ConcatProperties
    <3>2. Append(t \o s, x) = (t \o s) \o <<x>>
      BY <2>0, <3>1, AppendIsConcat
    <3>3. (t \o s) \o <<x>> = t \o (s \o <<x>>)
      BY <2>0, ConcatAssociative
    <3> QED BY <2>1, <3>2, <3>3
  <2> QED BY <1>2, <2>1, <2>2, <2>3 DEF Joined
<1> QED BY <1>1, <1>2

(* What leaves the head of a sequence enters the one in front of it.       *)
LEMMA HandOn ==
  ASSUME NEW T, NEW a \in Seq(T), NEW b \in Seq(T), b # <<>>
  PROVE  Append(a, Head(b)) \o Tail(b) = a \o b
<1>1. Head(b) \in T /\ Tail(b) \in Seq(T) /\ <<Head(b)>> \in Seq(T)
  BY HeadTailProperties
<1>2. b = <<Head(b)>> \o Tail(b)
  <2>1. Len(b) \in Nat /\ 1 \in 1 .. Len(b) /\ Len(b) \in 1 .. Len(b)
    BY EmptySeq
  <2>2. SubSeq(b, 1, Len(b)) = <<b[1]>> \o SubSeq(b, 1 + 1, Len(b))
    BY <2>1, SubSeqRecursiveFirst
  <2>3. SubSeq(b, 1, Len(b)) = b /\ Tail(b) = SubSeq(b, 2, Len(b)) /\ Head(b) = b[1]
    BY SubSeqFull, TailIsSubSeq
  <2> QED BY <2>2, <2>3
<1>3. (a \o <<Head(b)>>) \o Tail(b) = a \o (<<Head(b)>> \o Tail(b))
  BY <1>1, ConcatAssociative
<1>4. Append(a, Head(b)) = a \o <<Head(b)>>
  BY <1>1, AppendIsConcat
<1> QED BY <1>2, <1>3, <1>4

LEMMA HeadTailOfConcat ==
  ASSUME NEW T, NEW a \in Seq(T), a # <<>>, NEW b \in Seq(T)
  PROVE  /\ a \o b # <<>> /\ Head(a \o b) = Head(a)
         /\ Tail(a \o b) = Tail(a) \o b
<1>1. Head(a) \in T /\ Tail(a) \in Seq(T) /\ <<Head(a)>> \in Seq(T)
  BY HeadTailProperties
<1>2. a \o b \in Seq(T) /\ Len(a \o b) = Len(a) + Len(b)
      /\ \A i \in 1 .. Len(a) + Len(b) : (a \o b)[i] = IF i <= Len(a) THEN a[i] ELSE b[i - Len(a)]
  BY ConcatProperties
<1>3. Len(a) \in Nat /\ Len(a) >= 1 /\ Len(b) \in Nat
  BY EmptySeq, LenProperties
<1>4. a \o b # <<>> /\ Head(a \o b) = Head(a)
  <2>1. 1 \in 1 .. Len(a) + Len(b) /\ 1 <= Len(a) /\ Len(a \o b) # 0
    BY <1>2, <1>3
  <2>2. (a \o b)[1] = a[1]
    BY <1>2, <2>1
  <2> QED BY <1>2, <2>1, <2>2
<1>5. Tail(a \o b) \in Seq(T) /\ Len(Tail(a \o b)) = Len(a) + Len(b) - 1
      /\ \A i \in 1 .. Len(a) + Len(b) - 1 : Tail(a \o b)[i] = (a \o b)[i + 1]
  <2> DEFINE c == a \o b
  <2>1. c \in Seq(T) /\ c # <<>> /\ Len(c) = Len(a) + Len(b)
    BY <1>2, <1>4
  <2> HIDE DEF c
  <2>2. Tail(c) \in Seq(T) /\ Len(Tail(c)) = Len(c) - 1
        /\ \A i \in 1 .. Len(Tail(c)) : Tail(c)[i] = c[i + 1]
    BY <2>1, HeadTailProperties
  <2> QED BY <2>1, <2>2 DEF c
<1>6. Len(Tail(a)) = Len(a) - 1 /\ \A i \in 1 .. Len(a) - 1 : Tail(a)[i] = a[i + 1]
  BY HeadTailProperties
<1>7. Tail(a) \o b \in Seq(T) /\ Len(Tail(a) \o b) = Len(a) + Len(b) - 1
      /\ \A i \in 1 .. Len(a) + Len(b) - 1 :
           (Tail(a) \o b)[i] = IF i <= Len(a) - 1 THEN Tail(a)[i] ELSE b[i - (Len(a) - 1)]
  <2>1. Tail(a) \o b \in Seq(T) /\ Len(Tail(a) \o b) = Len(Tail(a)) + Len(b)
      /\ \A i \in 1 .. Len(Tail(a)) + Len(b) :
           (Tail(a) \o b)[i] = IF i <= Len(Tail(a)) THEN Tail(a)[i] ELSE b[i - Len(Tail(a))]
    BY <1>1, ConcatProperties
  <2>2. (Len(a) - 1) + Len(b) = Len(a) + Len(b) - 1
    BY <1>3
  <2> QED BY <1>6, <2>1, <2>2
<1>8. \A i \in 1 .. Len(a) + Len(b) - 1 : Tail(a \o b)[i] = (Tail(a) \o b)[i]
  <2> TAKE i \in 1 .. Len(a) + Len(b) - 1
  <2>1. /\ i + 1 \in 1 .. Len(a) + Len(b) /\ (i + 1 <= Len(a) <=> i <= Len(a) - 1)
        /\ (i + 1) - Len(a) = i - (Len(a) - 1) /\ (i <= Len(a) - 1 => i \in 1 .. Len(a) - 1)
    BY <1>3
  <2>2. Tail(a \o b)[i] = IF i <= Len(a) - 1 THEN a[i + 1] ELSE b[i - (Len(a) - 1)]
    BY <1>2, <1>5, <2>1
  <2> QED BY <1>6, <1>7, <2>1, <2>2
<1>9. Tail(a \o b) = Tail(a) \o b
  BY <1>5, <1>7, <1>8, SeqEqual
<1> QED BY <1>4, <1>9


(* When the channel sends, it sends the first of what the stages hold.     *)
LEMMA LastStagesHold ==
  ASSUME ChainShape, ChainInv, NEW i \in 1 .. Latency
  PROVE  LET f == LastStages(queues)
         IN /\ f[i] \in Seq(Msg)
            /\ Sends => f[i] # <<>> /\ Head(f[i]) = Head(queues[Latency])
<1> DEFINE f == LastStages(queues)
           Right(j) == /\ f[j] \in Seq(Msg)
                       /\ Sends => f[j] # <<>> /\ Head(f[j]) = Head(queues[Latency])
           Good == {n \in Nat : n + 1 <= Latency => Right(n + 1)}
<1>0. /\ Latency \in Nat /\ Latency >= 1 /\ Chain!Stage = 1 .. Latency /\ queues \in Queues
      /\ \A s \in 1 .. Latency : queues[s] \in Seq(Msg)
  BY DEF ChainShape, Chain!Stage, ChainInv, Queues
<1>1. /\ f[1] = queues[Latency]
      /\ \A j \in 1 .. Latency : j # 1 => f[j] = f[j - 1] \o queues[(Latency - j) + 1]
  BY <1>0, LastStagesEquation
<1> HIDE DEF f
<1>2. 0 \in Good
  <2>1. Latency \in 1 .. Latency /\ 0 + 1 = 1
    BY <1>0
  <2>2. Sends => queues[Latency] # <<>>
    BY DEF Sends, Chain!leaves, Chain!Holds
  <2>3. Right(1)
    BY <1>0, <1>1, <2>1, <2>2
  <2> QED BY <2>1, <2>3
<1>3. ASSUME NEW n \in Nat, n \in Good PROVE n + 1 \in Good
  <2> SUFFICES ASSUME (n + 1) + 1 <= Latency PROVE Right((n + 1) + 1)
    OBVIOUS
  <2> DEFINE j == (n + 1) + 1
             q == queues[(Latency - j) + 1]
  <2>1. /\ j \in 1 .. Latency /\ j # 1 /\ j - 1 = n + 1 /\ n + 1 <= Latency
        /\ (Latency - j) + 1 \in 1 .. Latency
    BY <1>0
  <2>2. f[j] = f[n + 1] \o q /\ q \in Seq(Msg)
    BY <1>0, <1>1, <2>1
  <2>3. Right(n + 1)
    BY <1>3, <2>1
  <2> HIDE DEF j, q
  <2>4. f[j] \in Seq(Msg)
    BY <2>2, <2>3, ConcatProperties
  <2>5. f[n + 1] # <<>> => f[j] # <<>> /\ Head(f[j]) = Head(f[n + 1])
    BY <2>2, <2>3, HeadTailOfConcat
  <2> QED BY <2>3, <2>4, <2>5 DEF j
<1>4. i - 1 \in Nat /\ (i - 1) + 1 = i /\ i <= Latency
  BY <1>0
<1>5. Right(i)
  <2>1. Nat \subseteq Good
    <3> HIDE DEF Good
    <3> QED BY <1>2, <1>3, Induction
  <2> QED BY <1>4, <2>1
<1> QED BY <1>5 DEF f


(* A cycle of the last i stages is a cycle of one queue: what the last one *)
(* sends leaves it, what enters the first one of them comes in.            *)
LEMMA LastStagesStep ==
  ASSUME ChainShape, ChainInv, NEW m \in Msg \cup {NoMsg}, Chain!Tick(m), NEW i \in 1 .. Latency
  PROVE  LET old == LastStages(queues)
             new == LastStages(queues')
         IN /\ new[i] \in Seq(Msg) /\ Len(new[i]) <= 2 * i
            /\ new[i] = Joined(IF Sends THEN Tail(old[i]) ELSE old[i],
                               Chain!enters((Latency - i) + 1, m))
<1> DEFINE old == LastStages(queues)
           new == LastStages(queues')
           k(j) == (Latency - j) + 1
           Right(j) ==
             /\ new[j] \in Seq(Msg) /\ Len(new[j]) <= 2 * j
             /\ new[j] = Joined(IF Sends THEN Tail(old[j]) ELSE old[j], Chain!enters(k(j), m))
           Good == {n \in Nat : n + 1 <= Latency => Right(n + 1)}
<1>0. /\ Latency \in Nat /\ Latency >= 1 /\ Chain!Stage = 1 .. Latency
      /\ queues \in Queues /\ queues' \in Queues
      /\ queues' = [s \in Chain!Stage |-> Chain!Step(s, m)]
      /\ \A s \in 1 .. Latency : queues[s] \in Seq(Msg)
  <2>1. Latency \in Nat /\ Latency >= 1 /\ Chain!Stage = 1 .. Latency /\ queues \in Queues
    BY DEF ChainShape, Chain!Stage, ChainInv
  <2>2. \A s \in 1 .. Latency : queues[s] \in Seq(Msg)
    BY <2>1 DEF Queues
  <2>3. queues' = [s \in Chain!Stage |-> Chain!Step(s, m)]
    BY DEF Chain!Tick
  <2>4. queues' \in Queues
    <3>1. \A s \in Chain!Stage : Chain!Step(s, m) \in Seq(Msg)
      BY StageStep
    <3> QED BY <2>3, <3>1 DEF Queues
  <2> QED BY <2>1, <2>2, <2>3, <2>4
<1>1. /\ old[1] = queues[Latency]
      /\ \A j \in 1 .. Latency : j # 1 => old[j] = old[j - 1] \o queues[k(j)]
  BY <1>0, LastStagesEquation
<1>2. /\ new[1] = queues'[Latency]
      /\ \A j \in 1 .. Latency : j # 1 => new[j] = new[j - 1] \o queues'[k(j)]
  BY <1>0, LastStagesEquation
<1>3. ASSUME NEW s \in 1 .. Latency
      PROVE  /\ Chain!leaves(s) => queues[s] # <<>>
             /\ Chain!enters(s, m) \in Msg \cup {NoMsg}
             /\ queues'[s] = Joined(IF Chain!leaves(s) THEN Tail(queues[s]) ELSE queues[s],
                                    Chain!enters(s, m))
             /\ queues'[s] \in Seq(Msg) /\ Len(queues'[s]) <= 2
  BY <1>0, StageStep
<1>10. \A j \in 1 .. Latency : old[j] \in Seq(Msg) /\ (Sends => old[j] # <<>>)
  BY LastStagesHold
<1> HIDE DEF old, new
<1>4. Right(1)
  <2>1. k(1) = Latency /\ Latency \in 1 .. Latency
    BY <1>0
  <2> HIDE DEF k
  <2> QED BY <1>0, <1>1, <1>2, <1>3, <2>1 DEF Sends
<1>5. ASSUME NEW n \in Nat, n >= 1, n + 1 <= Latency, Right(n) PROVE Right(n + 1)
  <2> DEFINE s == Latency - n
             q == queues[s]
             X == IF Sends THEN Tail(old[n]) ELSE old[n]
             e == Chain!enters(k(n), m)
             e1 == Chain!enters(s, m)
             kept == IF Chain!leaves(s) THEN Tail(q) ELSE q
  <2>1. /\ s \in 1 .. Latency /\ k(n + 1) = s /\ k(n) = s + 1 /\ s + 1 # 1 /\ (s + 1) - 1 = s
        /\ (n + 1) - 1 = n /\ n + 1 \in 1 .. Latency /\ n + 1 # 1
    BY <1>0, <1>5
  <2>2. e = IF Chain!leaves(s) THEN Head(q) ELSE NoMsg
    BY <2>1 DEF Chain!enters
  <2>3. /\ old[n + 1] = old[n] \o q /\ new[n + 1] = new[n] \o queues'[s]
        /\ new[n] = Joined(X, e) /\ queues'[s] = Joined(kept, e1)
        /\ Chain!leaves(s) => q # <<>>
        /\ q \in Seq(Msg) /\ e1 \in Msg \cup {NoMsg} /\ old[n] \in Seq(Msg) /\ new[n] \in Seq(Msg)
        /\ queues'[s] \in Seq(Msg) /\ Len(queues'[s]) <= 2 /\ Len(new[n]) <= 2 * n
        /\ Sends => old[n] # <<>>
    <3>1. n \in 1 .. Latency
      BY <1>0, <1>5
    <3> QED BY <1>0, <1>1, <1>2, <1>3, <1>5, <1>10, <2>1, <3>1
  <2>4. X \in Seq(Msg) /\ kept \in Seq(Msg)
    BY <2>3, HeadTailProperties
  <2> HIDE DEF s, q, e, e1, k, Right
  <2>5. new[n] \o kept = X \o q
    <3>1. CASE Chain!leaves(s)
      <4>1. Head(q) \in Msg /\ q # <<>> /\ NoMsg \notin Msg
        BY <2>3, <3>1, HeadTailProperties, QueueAssumption
      <4>2. new[n] = Append(X, Head(q)) /\ kept = Tail(q)
        BY <2>2, <2>3, <3>1, <4>1 DEF Joined
      <4> HIDE DEF X, kept
      <4>3. Append(X, Head(q)) \o Tail(q) = X \o q
        BY <2>3, <2>4, <4>1, HandOn
      <4> QED BY <4>2, <4>3
    <3>2. CASE ~Chain!leaves(s)
      BY <2>2, <2>3, <3>2 DEF Joined
    <3> QED BY <3>1, <3>2
  <2>6. new[n + 1] = Joined(X \o q, e1)
    <3> HIDE DEF X, kept
    <3>1. new[n] \o Joined(kept, e1) = Joined(new[n] \o kept, e1)
      <4>1. kept \in Seq(Msg) /\ e1 \in Msg \cup {NoMsg} /\ new[n] \in Seq(Msg)
        BY <2>3, <2>4
      <4>2. \A t \in Seq(Msg) : t \o Joined(kept, e1) = Joined(t \o kept, e1)
        BY <4>1, JoinedFacts
      <4> QED BY <4>1, <4>2
    <3> QED BY <2>3, <2>5, <3>1
  <2>7. X \o q = IF Sends THEN Tail(old[n + 1]) ELSE old[n + 1]
    <3>1. CASE Sends
      <4>1. Tail(old[n] \o q) = Tail(old[n]) \o q
        BY <2>3, <3>1, HeadTailOfConcat
      <4> QED BY <2>3, <3>1, <4>1
    <3>2. CASE ~Sends
      BY <2>3, <3>2
    <3> QED BY <3>1, <3>2
  <2>8. new[n + 1] \in Seq(Msg) /\ Len(new[n + 1]) <= 2 * (n + 1)
    <3>2. new[n + 1] \in Seq(Msg) /\ Len(new[n + 1]) = Len(new[n]) + Len(queues'[s])
      BY <2>3, ConcatProperties
    <3>3. Len(new[n]) \in Nat /\ Len(queues'[s]) \in Nat
      BY <2>3, LenProperties
    <3> QED BY <2>3, <3>2, <3>3
  <2>9. e1 = Chain!enters(k(n + 1), m)
    BY <2>1 DEF e1
  <2> QED BY <2>6, <2>7, <2>8, <2>9 DEF Right
<1> HIDE DEF Right
<1>6. 0 \in Good
  <2>1. 0 + 1 = 1
    OBVIOUS
  <2> QED BY <1>4, <2>1
<1>7. ASSUME NEW n \in Nat, n \in Good PROVE n + 1 \in Good
  <2> SUFFICES ASSUME (n + 1) + 1 <= Latency PROVE Right((n + 1) + 1)
    OBVIOUS
  <2>1. n + 1 \in Nat /\ n + 1 >= 1 /\ n + 1 <= Latency
    BY <1>0
  <2>2. Right(n + 1)
    BY <1>7, <2>1
  <2> QED BY <1>5, <2>1, <2>2
<1>8. i - 1 \in Nat /\ (i - 1) + 1 = i /\ i <= Latency
  BY <1>0
<1>9. Right(i)
  <2>1. Nat \subseteq Good
    <3> HIDE DEF Good
    <3> QED BY <1>6, <1>7, Induction
  <2> QED BY <1>8, <2>1
<1> QED BY <1>9 DEF Right, old, new, k

(* All stages together.                                                    *)
LEMMA ChainContents ==
  ASSUME ChainShape, ChainInv
  PROVE  /\ Chain!Contents = LastStages(queues)[Latency] /\ Chain!Contents \in Seq(Msg)
         /\ Sends => Chain!Contents # <<>> /\ Head(Chain!Contents) = Head(queues[Latency])
<1>1. Latency \in 1 .. Latency /\ queues \in Queues
  BY DEF ChainShape, ChainInv
<1>2. Chain!Contents = LastStages(queues)[Latency]
  BY <1>1, LastStagesEquation DEF Chain!Contents
<1> QED BY <1>1, <1>2, LastStagesHold

LEMMA ChainContentsStep ==
  ASSUME ChainShape, ChainInv, NEW m \in Msg \cup {NoMsg}, Chain!Tick(m)
  PROVE  /\ Len(Chain!Contents') <= 2 * Latency
         /\ Chain!Contents' = Joined(IF Sends THEN Tail(Chain!Contents) ELSE Chain!Contents,
                                     Chain!enters(1, m))
<1>1. Latency \in 1 .. Latency /\ (Latency - Latency) + 1 = 1
  BY DEF ChainShape
<1>2. queues' \in Queues
  <2>1. queues' = [s \in Chain!Stage |-> Chain!Step(s, m)]
    BY DEF Chain!Tick
  <2> QED BY <2>1, StageStep DEF Queues
<1>3. /\ Chain!Contents = LastStages(queues)[Latency]
      /\ Chain!Contents' = LastStages(queues')[Latency]
  BY <1>2, ChainContents, LastStagesEquation DEF Chain!Contents
<1> QED BY <1>1, <1>3, LastStagesStep


(* Empty stages hold nothing.                                              *)
LEMMA EmptyStages ==
  ASSUME ChainShape, NEW qs \in Queues, \A k \in Chain!Stage : qs[k] = <<>>
  PROVE  Chain!FlattenSeq(Chain!Reverse(qs)) = <<>>
<1> DEFINE f == LastStages(qs)
           Good == {n \in Nat : n + 1 <= Latency => f[n + 1] = <<>>}
<1>0. Latency \in Nat /\ Latency >= 1 /\ Chain!Stage = 1 .. Latency
  BY DEF ChainShape, Chain!Stage
<1>1. /\ f[1] = qs[Latency] /\ Chain!FlattenSeq(Chain!Reverse(qs)) = f[Latency]
      /\ \A i \in 1 .. Latency : i # 1 => f[i] = f[i - 1] \o qs[(Latency - i) + 1]
  BY LastStagesEquation
<1> HIDE DEF f
<1>2. 0 \in Good
  <2>1. Latency \in 1 .. Latency /\ 0 + 1 = 1
    BY <1>0
  <2> QED BY <1>0, <1>1, <2>1
<1>3. ASSUME NEW n \in Nat, n \in Good PROVE n + 1 \in Good
  <2> SUFFICES ASSUME (n + 1) + 1 <= Latency PROVE f[(n + 1) + 1] = <<>>
    OBVIOUS
  <2>1. /\ (n + 1) + 1 \in 1 .. Latency /\ (n + 1) + 1 # 1 /\ ((n + 1) + 1) - 1 = n + 1
        /\ (Latency - ((n + 1) + 1)) + 1 \in 1 .. Latency /\ n + 1 <= Latency
    BY <1>0
  <2>2. f[n + 1] = <<>> /\ qs[(Latency - ((n + 1) + 1)) + 1] = <<>>
    BY <1>0, <1>3, <2>1
  <2>3. <<>> \o <<>> = <<>>
    <3>1. <<>> \in Seq(Msg)
      OBVIOUS
    <3> QED BY <3>1, ConcatEmptySeq
  <2>4. f[(n + 1) + 1] = f[((n + 1) + 1) - 1] \o qs[(Latency - ((n + 1) + 1)) + 1]
    BY <1>1, <2>1
  <2> QED BY <2>1, <2>2, <2>3, <2>4
<1>4. Latency - 1 \in Nat /\ (Latency - 1) + 1 = Latency /\ Latency <= Latency
  BY <1>0
<1>5. Nat \subseteq Good
  <2> HIDE DEF Good
  <2> QED BY <1>2, <1>3, Induction
<1>6. f[Latency] = <<>>
  BY <1>4, <1>5
<1> QED BY <1>1, <1>6

LEMMA ChainTickRefines ==
  ASSUME ChainShape, ChainInv, NEW m \in Msg \cup {NoMsg}, Chain!Tick(m)
  PROVE  Chain!Fifo!Next
<1> DEFINE a == Chain!enters(1, m)
           c == Chain!Contents
<1>1. /\ c \in Seq(Msg) /\ Len(Chain!Contents') <= 2 * Latency
      /\ Sends => c # <<>> /\ Head(c) = Head(queues[Latency])
      /\ Chain!Contents' = Joined(IF Sends THEN Tail(c) ELSE c, a)
  BY ChainContents, ChainContentsStep
<1>2. inp2' = a /\ out2' = IF Sends THEN Head(queues[Latency]) ELSE NoMsg
  BY DEF Chain!Tick, Chain!Observe, Sends
<1>3. a \in Msg \cup {NoMsg}
  <2>1. 1 \in Chain!Stage
    BY DEF ChainShape, Chain!Stage
  <2> QED BY <2>1, StageStep
<1>4. Chain!Fifo!Arrived(a) = Joined(c, a)
  BY DEF Chain!Fifo!Arrived, Joined
<1>5. Len(Chain!Contents') <= Chain!StageEntries * Latency
  BY <1>1 DEF Chain!StageEntries
<1> SUFFICES Chain!Fifo!Leaves(a)
  <2>1. cleared2' = FALSE /\ (kind = "clear")' = (kind = "clear")
    BY DEF Chain!Tick
  <2>2. Chain!Fifo!Transfer(a)
    BY <1>2, <1>5, <2>1 DEF Chain!Fifo!Transfer
  <2> QED BY <1>3, <2>1, <2>2 DEF Chain!Fifo!Next
<1> HIDE DEF a, c
<1>6. c # <<>> => /\ Joined(c, a) # <<>> /\ Head(Joined(c, a)) = Head(c)
                  /\ Tail(Joined(c, a)) = Joined(Tail(c), a)
  BY <1>1, <1>3, JoinedFacts
<1>7. CASE Sends
  <2>1. /\ Chain!Fifo!Arrived(a) # <<>> /\ out2' = Head(Chain!Fifo!Arrived(a))
        /\ Chain!Contents' = Tail(Chain!Fifo!Arrived(a))
    BY <1>1, <1>2, <1>4, <1>6, <1>7
  <2> QED BY <2>1 DEF Chain!Fifo!Leaves
<1>8. CASE ~Sends
  <2>1. out2' = NoMsg /\ Chain!Contents' = Chain!Fifo!Arrived(a)
    BY <1>1, <1>2, <1>4, <1>8
  <2> QED BY <2>1 DEF Chain!Fifo!Leaves
<1> QED BY <1>7, <1>8

LEMMA ChainClearRefines ==
  ASSUME ChainShape, ChainInv, NEW m \in Msg \cup {NoMsg}, Chain!TickClear(m)
  PROVE  Chain!Fifo!Next
<1> DEFINE a == Chain!enters(1, m)
           c == Chain!Contents
<1>1. c \in Seq(Msg) /\ (Sends => c # <<>> /\ Head(c) = Head(queues[Latency]))
  BY ChainContents
<1>2. inp2' = a /\ out2' = IF Sends THEN Head(queues[Latency]) ELSE NoMsg
  BY DEF Chain!TickClear, Chain!Observe, Sends
<1>0. kind = "clear" /\ cleared2' = TRUE /\ (kind = "clear")' = (kind = "clear")
  BY DEF Chain!TickClear
<1>3. a \in Msg \cup {NoMsg}
  <2>1. 1 \in Chain!Stage
    BY DEF ChainShape, Chain!Stage
  <2> QED BY <2>1, StageStep
<1>4. Chain!Fifo!Arrived(a) = Joined(c, a)
  BY DEF Chain!Fifo!Arrived, Joined
<1>5. Chain!Contents' = <<>>
  <2>1. queues' = [k \in Chain!Stage |-> <<>>]
    BY DEF Chain!TickClear
  <2>2. queues' \in Queues /\ \A k \in Chain!Stage : queues'[k] = <<>>
    BY <2>1 DEF Queues
  <2> QED BY <2>2, EmptyStages DEF Chain!Contents
<1> HIDE DEF a, c
<1>6. c # <<>> => Joined(c, a) # <<>> /\ Head(Joined(c, a)) = Head(c)
  BY <1>1, <1>3, JoinedFacts
<1>7. Chain!Fifo!Flush(a)
  BY <1>0, <1>1, <1>2, <1>4, <1>5, <1>6 DEF Chain!Fifo!Flush
<1> QED BY <1>0, <1>3, <1>7 DEF Chain!Fifo!Next

LEMMA ChainInitRefines ==
  ASSUME ChainShape, Chain!Init
  PROVE  ChainInv /\ Chain!Fifo!Init
<1>1. queues = [k \in Chain!Stage |-> <<>>]
  BY DEF Chain!Init
<1>2. queues \in Queues /\ \A k \in Chain!Stage : queues[k] = <<>>
  BY <1>1 DEF Queues
<1>3. Chain!Contents = <<>>
  BY <1>2, EmptyStages DEF Chain!Contents
<1>4. ChainInv
  BY <1>2 DEF ChainInv, Chain!Init
<1> QED BY <1>3, <1>4 DEF Chain!Fifo!Init, Chain!Init

(* Each of the four one-entry queues, and the channel for every latency,   *)
(* is a bounded FIFO: its full bit, or the hand-over between its stages,   *)
(* loses, repeats and reorders nothing; where there is a clear port, a     *)
(* clear empties all stages at once, the message between two of them       *)
(* included, and nothing else drops a message.                             *)
THEOREM LinkRefinement ==
  ASSUME ChainShape
  PROVE  One!Spec /\ Chain!Spec => LinksAreFifos
<1>1. Chain!Init => ChainInv /\ Chain!Fifo!Init
  BY ChainInitRefines
<1>2. ChainInv /\ [Chain!Next]_(Chain!vars) => ChainInv' /\ [Chain!Fifo!Next]_(Chain!Fifo!vars)
  <2>1. ASSUME ChainInv, UNCHANGED Chain!vars PROVE ChainInv' /\ UNCHANGED Chain!Fifo!vars
    <3>1. UNCHANGED <<queues, send_rdy, inp2, out2, cleared2, kind = "clear">>
      BY <2>1 DEF Chain!vars
    <3>2. Chain!Contents' = Chain!Contents
      BY <3>1 DEF Chain!Contents
    <3> QED BY <2>1, <3>1, <3>2 DEF ChainInv, Chain!Fifo!vars, Queues, Chain!Stage
  <2>2. ASSUME ChainInv, NEW m \in Msg \cup {NoMsg}, Chain!Tick(m) \/ Chain!TickClear(m)
        PROVE  ChainInv' /\ Chain!Fifo!Next
    <3>1. ChainInv'
      BY <2>2, ChainStep
    <3>2. Chain!Fifo!Next
      BY <2>2, ChainTickRefines, ChainClearRefines
    <3> QED BY <3>1, <3>2
  <2> QED BY <2>1, <2>2 DEF Chain!Next
<1>3. Chain!Spec => Chain!ImplementsFifo
  BY <1>1, <1>2, PTL DEF Chain!Spec, Chain!ImplementsFifo, Chain!Fifo!Spec
<1> QED BY <1>3, OneRefines DEF LinksAreFifos
-----------------------------------------------------------------------------
(* The crossbar.                                                           *)
LEMMA CrossbarInitInv == Init => CrossbarInv
<1> SUFFICES ASSUME Init PROVE CrossbarInv
  OBVIOUS
<1>0. 0 \in 0 .. MaxPrologue
  BY CrossbarAssumption
<1>1. TypeOK
  BY <1>0 DEF Init, TypeOK
<1>2. MulticastInProgress /\ IdleClean
  BY DEF Init, MulticastInProgress, IdleClean
<1>3. PrologueExact
  <2> SUFFICES ASSUME NEW a \in Addr, NEW i \in In
               PROVE  counter[a][i] = CASE ~Used(a, i) -> 0
                        [] Used(a, i) /\ runs[a] < limit[a][i] -> runs[a]
                        [] OTHER -> limit[a][i]
    BY DEF PrologueExact
  <2>1. counter[a][i] = 0 /\ runs[a] = 0 /\ limit[a][i] \in 0 .. MaxPrologue
    BY DEF Init
  <2>2. limit[a][i] = 0 \/ 0 < limit[a][i]
    BY <2>1, CrossbarAssumption
  <2> QED BY <2>1, <2>2
<1> QED BY <1>1, <1>2, <1>3 DEF CrossbarInv

(* What is offered is owed and not yet served, and its message is there.   *)
LEMMA OfferedFacts ==
  /\ Offered \subseteq Required \ send_accepted
  /\ \A o \in Offered : o \in Out /\ dir[o] \in In /\ recv_data[dir[o]] # Empty
  BY DEF Offered, offered, all_recv_valid, recv_required, Required, send_required, Valid

LEMMA WorkTypes ==
  ASSUME TypeOK, Work
  PROVE  TypeOK'
<1> USE DEF TypeOK
<1>1. counter' \in [Addr -> [In -> 0 .. MaxPrologue]]
  <2>1. \A i \in In :
          (IF /\ Finishes
              /\ \E o \in Out : dir[o] = i
              /\ counter[addr][i] < limit[addr][i]
             THEN counter[addr][i] + 1 ELSE counter[addr][i]) \in 0 .. MaxPrologue
    <3> SUFFICES ASSUME NEW i \in In, counter[addr][i] < limit[addr][i]
                 PROVE  counter[addr][i] + 1 \in 0 .. MaxPrologue
      OBVIOUS
    <3>1. counter[addr][i] \in 0 .. MaxPrologue /\ limit[addr][i] \in 0 .. MaxPrologue
      OBVIOUS
    <3> QED BY <3>1, CrossbarAssumption
  <2> QED BY <2>1 DEF Work, update_prologue_counter
<1>2. recv_data' \in [In -> Data \cup {Empty}]
  BY DEF Work, update_recv_data
<1>3. send_accepted' \subseteq Out
  BY OfferedFacts DEF Work, update_send_accepted, send_accepted_next, offered, send_required
<1>4. got' \in [Out -> Data \cup {None}]
  <2>1. \A o \in Offered : recv_data[dir[o]] \in Data
    BY OfferedFacts
  <2> QED BY <2>1 DEF Work
<1>5. runs' \in [Addr -> 0 .. MaxPrologue]
  <2>1. runs[addr] \in 0 .. MaxPrologue
    OBVIOUS
  <2>2. runs[addr] < MaxPrologue => runs[addr] + 1 \in 0 .. MaxPrologue
    BY <2>1, CrossbarAssumption
  <2> QED BY <2>1, <2>2 DEF Work
<1>6. busy' \in BOOLEAN /\ compute_done' \in BOOLEAN /\ rdy' \subseteq Out
  BY DEF Work, Finishes, opt_rdy, all_recv_valid, all_send_accepted
<1>7. /\ route' \in [Addr -> Route] /\ addr' \in Addr
      /\ limit' \in [Addr -> [In -> 0 .. MaxPrologue]]
  BY DEF Work, config
<1> QED BY <1>1, <1>2, <1>3, <1>4, <1>5, <1>6, <1>7

(* A cycle that does not finish the step adds exactly the outports served  *)
(* in it to send_accepted, and nothing they depend on changes.             *)
LEMMA UnfinishedCycle ==
  ASSUME TypeOK, Work, ~Finishes
  PROVE  /\ busy'
         /\ counter' = counter /\ dir' = dir /\ Prologue' = Prologue /\ Required' = Required
         /\ send_accepted' = send_accepted \cup (Offered \cap rdy)
         /\ \A i \in Valid : recv_data'[i] = recv_data[i]
         /\ runs' = runs
<1> USE DEF TypeOK
<1>1. busy /\ busy' /\ UNCHANGED <<route, limit, addr>>
  BY DEF Work, config
<1>2. counter' = counter
  <2>1. counter' = [counter EXCEPT ![addr] = [i \in In |-> counter[addr][i]]]
    BY DEF Work, update_prologue_counter
  <2>2. [i \in In |-> counter[addr][i]] = counter[addr]
    OBVIOUS
  <2> QED BY <2>1, <2>2
<1>3. dir' = dir /\ Prologue' = Prologue /\ Required' = Required
  BY <1>1, <1>2 DEF dir, Prologue, Required
<1>4. send_accepted' = send_accepted \cup (Offered \cap rdy)
  BY <1>1 DEF Work, update_send_accepted, send_accepted_next, Finishes, Offered
<1>5. \A i \in Valid : recv_data'[i] = recv_data[i]
  BY <1>1 DEF Work, update_recv_data, Dequeued, dequeued, Finishes, Valid
<1>6. runs' = runs
  <2>1. runs' = [runs EXCEPT ![addr] = runs[addr]]
    BY DEF Work
  <2> QED BY <2>1
<1> QED BY <1>1, <1>2, <1>3, <1>4, <1>5, <1>6

LEMMA WorkMulticast ==
  ASSUME TypeOK, MulticastInProgress, Work
  PROVE  MulticastInProgress' /\ IdleClean'
<1>1. CASE Finishes
  BY <1>1 DEF Work, update_send_accepted, send_accepted_next, Finishes,
              MulticastInProgress, IdleClean
<1>2. CASE ~Finishes
  <2>1. /\ busy /\ busy' /\ dir' = dir /\ Required' = Required
        /\ send_accepted' = send_accepted \cup (Offered \cap rdy)
        /\ \A i \in Valid : recv_data'[i] = recv_data[i]
    BY <1>2, UnfinishedCycle DEF Work
  <2>2. got' = [o \in Out |-> IF o \in Offered \cap rdy THEN recv_data[dir[o]] ELSE got[o]]
    BY DEF Work
  <2>3. \A o \in Offered : o \in Out /\ o \in Required /\ recv_data[dir[o]] \in Data /\ dir[o] \in Valid
    BY OfferedFacts DEF TypeOK, Valid
  <2>4. send_accepted = {o \in Out : got[o] # None} /\ send_accepted \subseteq Required
        /\ \A o \in send_accepted : got[o] = recv_data[dir[o]]
    BY <2>1 DEF MulticastInProgress
  <2>5. \A o \in Out : got'[o] # None <=> o \in send_accepted'
    BY <2>1, <2>2, <2>3, <2>4, CrossbarAssumption
  <2>6. send_accepted' \subseteq Required' /\ send_accepted' \subseteq Out
    BY <2>1, <2>3, <2>4
  <2>7. \A o \in send_accepted : dir[o] \in Valid
    BY <2>4, CrossbarAssumption DEF TypeOK, Valid, Required, send_required, dir, Route
  <2>8. \A o \in send_accepted' : got'[o] = recv_data'[dir[o]]
    BY <2>1, <2>2, <2>3, <2>4, <2>7
  <2> QED BY <2>1, <2>5, <2>6, <2>8 DEF MulticastInProgress, IdleClean
<1> QED BY <1>1, <1>2
(* One entry of the prologue bookkeeping after one more completed step.    *)
LEMMA PrologueStep ==
  ASSUME NEW n \in 0 .. MaxPrologue, NEW l \in 0 .. MaxPrologue
  PROVE  LET c == IF n < l THEN n ELSE l
             m == IF n < MaxPrologue THEN n + 1 ELSE n
         IN  (IF c < l THEN c + 1 ELSE c) = (IF m < l THEN m ELSE l)
  BY CrossbarAssumption

LEMMA WorkPrologue ==
  ASSUME TypeOK, PrologueExact, Work
  PROVE  PrologueExact'
<1>1. UNCHANGED <<route, limit>> /\ addr \in Addr
  BY DEF Work, config, TypeOK
<1> SUFFICES ASSUME NEW a \in Addr, NEW i \in In
             PROVE  counter'[a][i] = CASE ~Used(a, i)                          -> 0
                      [] Used(a, i) /\ runs'[a] < limit[a][i] -> runs'[a]
                      [] OTHER                                -> limit[a][i]
  BY <1>1 DEF PrologueExact, Used
<1>2. counter[a][i] = CASE ~Used(a, i)                         -> 0
                        [] Used(a, i) /\ runs[a] < limit[a][i] -> runs[a]
                        [] OTHER                               -> limit[a][i]
  BY DEF PrologueExact
<1>3. /\ runs[a] \in 0 .. MaxPrologue /\ limit[a][i] \in 0 .. MaxPrologue
      /\ runs \in [Addr -> 0 .. MaxPrologue] /\ counter \in [Addr -> [In -> 0 .. MaxPrologue]]
  BY DEF TypeOK
<1>4. CASE ~Finishes
  BY <1>2, <1>4, UnfinishedCycle
<1>5. CASE Finishes /\ a # addr
  <2>1. counter'[a] = counter[a] /\ runs'[a] = runs[a]
    BY <1>3, <1>5 DEF Work, update_prologue_counter
  <2> QED BY <1>2, <2>1
<1>6. CASE Finishes /\ a = addr
  <2>1. counter'[a][i] = IF Used(a, i) /\ counter[a][i] < limit[a][i]
                           THEN counter[a][i] + 1 ELSE counter[a][i]
    BY <1>3, <1>6 DEF Work, update_prologue_counter, Used, dir
  <2>2. runs'[a] = IF runs[a] < MaxPrologue THEN runs[a] + 1 ELSE runs[a]
    BY <1>3, <1>6 DEF Work
  <2>3. CASE ~Used(a, i)
    BY <1>2, <2>1, <2>3
  <2>4. CASE Used(a, i)
    <3>1. counter[a][i] = IF runs[a] < limit[a][i] THEN runs[a] ELSE limit[a][i]
      BY <1>2, <2>4
    <3>2. counter'[a][i] = IF counter[a][i] < limit[a][i]
                             THEN counter[a][i] + 1 ELSE counter[a][i]
      BY <2>1, <2>4
    <3>3. counter'[a][i] = IF runs'[a] < limit[a][i] THEN runs'[a] ELSE limit[a][i]
      BY <1>3, <2>2, <3>1, <3>2, PrologueStep
    <3> QED BY <2>4, <3>3
  <2> QED BY <2>3, <2>4
<1> QED BY <1>4, <1>5, <1>6

LEMMA WaitInv ==
  ASSUME CrossbarInv, Wait
  PROVE  CrossbarInv'
<1> USE DEF CrossbarInv
<1>1. /\ ~busy /\ send_accepted' = {} /\ UNCHANGED <<route, limit, counter, runs>>
  BY DEF Wait, config, update_send_accepted
<1>2. recv_data' \in [In -> Data \cup {Empty}]
  BY DEF Wait, update_recv_data, TypeOK
<1>3. PrologueExact'
  BY <1>1 DEF PrologueExact, Used
<1>4. CASE busy' = FALSE /\ UNCHANGED <<addr, compute_done, got>>
  <2>1. TypeOK'
    BY <1>1, <1>2, <1>4 DEF Wait, TypeOK
  <2>2. MulticastInProgress' /\ IdleClean'
    BY <1>1, <1>4 DEF MulticastInProgress, IdleClean
  <2> QED BY <1>3, <2>1, <2>2
<1>5. CASE /\ busy' = TRUE /\ addr' \in Addr /\ compute_done' = FALSE
           /\ got' = [o \in Out |-> None]
  <2>1. TypeOK'
    BY <1>1, <1>2, <1>5 DEF Wait, TypeOK
  <2>2. MulticastInProgress' /\ IdleClean'
    BY <1>1, <1>5 DEF MulticastInProgress, IdleClean
  <2> QED BY <1>3, <2>1, <2>2
<1> QED BY <1>4, <1>5 DEF Wait

LEMMA ClearInv ==
  ASSUME CrossbarInv, Clear
  PROVE  CrossbarInv'
<1> USE DEF CrossbarInv
<1>1. 0 \in 0 .. MaxPrologue /\ UNCHANGED <<route, limit, addr>>
  BY CrossbarAssumption DEF Clear, config
<1>2. TypeOK'
  BY <1>1 DEF Clear, TypeOK
<1>3. MulticastInProgress' /\ IdleClean'
  BY DEF Clear, MulticastInProgress, IdleClean
<1>4. PrologueExact'
  <2> SUFFICES ASSUME NEW a \in Addr, NEW i \in In
               PROVE  counter'[a][i] = CASE ~Used(a, i)                          -> 0
                        [] Used(a, i) /\ runs'[a] < limit[a][i] -> runs'[a]
                        [] OTHER                                -> limit[a][i]
    BY <1>1 DEF PrologueExact, Used
  <2>1. counter'[a][i] = 0 /\ runs'[a] = 0 /\ limit[a][i] \in 0 .. MaxPrologue
    BY DEF Clear, TypeOK
  <2>2. limit[a][i] = 0 \/ 0 < limit[a][i]
    BY <2>1, CrossbarAssumption
  <2> QED BY <2>1, <2>2
<1> QED BY <1>2, <1>3, <1>4

(* The crossbar always knows exactly which receivers of the current step   *)
(* it has served, with which message, and how many executions of every     *)
(* address its prologue has skipped.                                       *)
THEOREM CrossbarInvariance == Spec => []CrossbarInv
<1>1. Init => CrossbarInv
  BY CrossbarInitInv
<1>2. CrossbarInv /\ [Next]_vars => CrossbarInv'
  <2> SUFFICES ASSUME CrossbarInv, [Next]_vars PROVE CrossbarInv'
    OBVIOUS
  <2>1. CASE UNCHANGED vars
    BY <2>1 DEF vars, config, CrossbarInv, TypeOK, MulticastInProgress, IdleClean, PrologueExact,
                Used, Required, Prologue, dir
  <2>2. CASE Work
    BY <2>2, WorkTypes, WorkMulticast, WorkPrologue DEF CrossbarInv
  <2>3. CASE Wait
    BY <2>3, WaitInv
  <2>4. CASE Clear
    BY <2>4, ClearInv
  <2> QED BY <2>1, <2>2, <2>3, <2>4 DEF Next
<1> QED BY <1>1, <1>2, PTL DEF Spec

(* No receiver of a multicast is served twice, whatever the order in which *)
(* the receivers become ready.                                             *)
THEOREM AtMostOnce == Spec => []NoDuplicate
<1>1. CrossbarInv => NoDuplicate
  <2> SUFFICES ASSUME CrossbarInv, NEW o \in Offered PROVE got[o] = None
    BY DEF NoDuplicate
  <2>1. busy /\ o \in Out /\ o \notin send_accepted
    BY OfferedFacts DEF Offered
  <2> QED BY <2>1 DEF CrossbarInv, MulticastInProgress
<1> QED BY <1>1, CrossbarInvariance, PTL

(* The inputs of a step are consumed together, once every receiver has its *)
(* message.                                                                *)
THEOREM ConsumedTogether == Spec => AllOrNothing
<1>1. CrossbarInv /\ [Next]_vars =>
        [ Work =>
            /\ busy' => \A i \in Valid : recv_data'[i] = recv_data[i]
            /\ ~busy' => \A o \in Required :
                 \/ got'[o] = recv_data[dir[o]]
                 \/ compute_done /\ o \in LocalOut /\ got'[o] = None ]_vars
  <2> SUFFICES ASSUME CrossbarInv, Work
               PROVE  /\ busy' => \A i \in Valid : recv_data'[i] = recv_data[i]
                      /\ ~busy' => \A o \in Required :
                           \/ got'[o] = recv_data[dir[o]]
                           \/ compute_done /\ o \in LocalOut /\ got'[o] = None
    OBVIOUS
  <2>1. CASE ~Finishes
    BY <2>1, UnfinishedCycle DEF CrossbarInv
  <2>2. CASE Finishes
    <3> SUFFICES ASSUME NEW o \in Required
                 PROVE  \/ got'[o] = recv_data[dir[o]]
                        \/ compute_done /\ o \in LocalOut /\ got'[o] = None
      BY <2>2 DEF Work
    <3>1. o \in Out /\ busy
      BY <2>2 DEF Required, send_required, Finishes
    <3>2. got'[o] = IF o \in Offered \cap rdy THEN recv_data[dir[o]] ELSE got[o]
      BY <3>1 DEF Work
    <3>3. /\ send_accepted = {p \in Out : got[p] # None}
          /\ \A p \in send_accepted : got[p] = recv_data[dir[p]]
      BY <3>1 DEF CrossbarInv, MulticastInProgress
    <3>4. CASE o \in send_accepted
      BY <3>2, <3>3, <3>4
    <3>5. CASE o \notin send_accepted
      <4>1. o \in Offered
        BY <2>2, <3>1, <3>5 DEF Finishes, opt_rdy, Offered, offered, Required
      <4>2. o \in rdy \/ (compute_done /\ o \in LocalOut)
        BY <2>2, <3>5 DEF Finishes, opt_rdy, all_send_accepted, Required
      <4> QED BY <3>1, <3>2, <3>3, <3>5, <4>1, <4>2
    <3> QED BY <3>4, <3>5
  <2> QED BY <2>1, <2>2
<1> QED BY <1>1, CrossbarInvariance, PTL DEF Spec, AllOrNothing

(* An offer that is not taken is repeated.                                 *)
THEOREM OffersPersist == Spec => OfferHeld
<1>1. CrossbarInv /\ [Next]_vars =>
        [ \A o \in Offered :
            Work /\ o \notin rdy =>
              \/ o \in Offered' /\ recv_data'[dir[o]] = recv_data[dir[o]]
              \/ compute_done /\ o \in LocalOut ]_vars
  <2> SUFFICES ASSUME CrossbarInv, Work, NEW o \in Offered, o \notin rdy,
                      ~(compute_done /\ o \in LocalOut)
               PROVE  o \in Offered' /\ recv_data'[dir[o]] = recv_data[dir[o]]
    OBVIOUS
  <2>1. o \in Required /\ o \notin send_accepted /\ dir[o] \in Valid
    BY OfferedFacts DEF Valid
  <2>2. ~Finishes
    BY <2>1 DEF Finishes, opt_rdy, all_send_accepted, Required
  <2>3. /\ busy' /\ dir' = dir /\ Prologue' = Prologue
        /\ send_accepted' = send_accepted \cup (Offered \cap rdy)
        /\ \A i \in Valid : recv_data'[i] = recv_data[i]
    BY <2>2, UnfinishedCycle DEF CrossbarInv
  <2>4. Valid \subseteq Valid'
    BY <2>3 DEF Valid
  <2>5. all_recv_valid(dir, Prologue, Valid)
    BY DEF Offered, offered
  <2>6. all_recv_valid(dir', Prologue', Valid')
    BY <2>3, <2>4, <2>5 DEF all_recv_valid
  <2>7. o \in send_required(dir', Prologue') \ send_accepted'
    BY <2>1, <2>3 DEF Required
  <2>8. o \in Offered'
    BY <2>3, <2>6, <2>7 DEF Offered, offered
  <2> QED BY <2>1, <2>3, <2>8
<1> QED BY <1>1, CrossbarInvariance, PTL DEF Spec, OfferHeld
=============================================================================
