------------------------- MODULE TileControlProofs -------------------------
(***************************************************************************)
(* Proofs about TileControl, for every memory size, every job and every    *)
(* order in which the sub-modules of a tile finish their parts.            *)
(*                                                                         *)
(* What a packet may change is known from the packets that can be in the   *)
(* queue: at most one is there (QueueDrains), and JobOrder says which, by  *)
(* the phase of the job.  From it follow the address sequence, the end of  *)
(* a job and the order of the constants.  Which COMPLETE ends a job is     *)
(* known from where the value of its first RET is (CompleteOrder).  A done *)
(* flag set between two jobs is harmless since PrologueOrder ties it to    *)
(* the address that is next.                                               *)
(***************************************************************************)
EXTENDS TileControl, TLAPS
-----------------------------------------------------------------------------
(* Counting modulo c, as a cursor does.                                    *)
LEMMA DivMod ==
  ASSUME NEW t \in Nat, NEW c \in Nat, c > 0
  PROVE  t = c * (t \div c) + (t % c) /\ t \div c \in Nat /\ t % c \in 0 .. (c - 1)
  OBVIOUS

LEMMA ModOf ==
  ASSUME NEW c \in Nat, NEW r \in Nat, NEW q \in Nat, r < c
  PROVE  (c * q + r) % c = r
  OBVIOUS

LEMMA ModNext ==
  ASSUME NEW t \in Nat, NEW c \in Nat, c > 0
  PROVE  (t + 1) % c = IF (t % c) + 1 < c THEN (t % c) + 1 ELSE 0
<1> DEFINE q == t \div c
           r == t % c
<1>1. t = c * q + r /\ q \in Nat /\ r \in 0 .. (c - 1)
  BY DivMod
<1> HIDE DEF q, r
<1>2. CASE r + 1 < c
  <2>1. t + 1 = c * q + (r + 1) /\ r + 1 \in Nat
    BY <1>1
  <2>2. (c * q + (r + 1)) % c = r + 1
    BY <1>1, <1>2, <2>1, ModOf
  <2> QED BY <1>2, <2>1, <2>2 DEF r
<1>3. CASE ~(r + 1 < c)
  <2>1. t + 1 = c * (q + 1) + 0 /\ q + 1 \in Nat
    BY <1>1, <1>3
  <2>2. (c * (q + 1) + 0) % c = 0
    BY <2>1, ModOf
  <2> QED BY <1>3, <2>1, <2>2 DEF r
<1> QED BY <1>2, <1>3
-----------------------------------------------------------------------------
(* A tile that was not started is at the beginning of its job, a started   *)
(* one is not configured, and a job ends at its last step.                 *)
JobOrder ==
  /\ rearm => phase = "config" /\ given = 0
  /\ HeadIs("LAUNCH") => phase = "launched" /\ ~start
  /\ start => rearm \/ (phase # "config" /\ queue = <<>>)
  /\ ~start => phase = "config" \/ HeadIs("LAUNCH")
  /\ ~start => times = 0 /\ raddr = lower /\ taken = 0 /\ rd_cur = 0 /\ ~used
  /\ times <= total
  /\ sent_complete => start
  /\ ~(Modules \subseteq done)

(* The flag of the constant queue and the consumption of the step.         *)
ConstsAgree ==
  /\ consume_pending = used
  /\ wr_cur > 0 => rd_cur < wr_cur

JobInv == ControlInv /\ JobOrder /\ ConstsAgree /\ ConstInOrder

(* Between jobs only the FU's prologue sets a flag, and only that of the   *)
(* address the job will start at.                                          *)
PrologueOrder ==
  ~rearm =>
    /\ HeadIs("PROLOGUE_FU") \/ (\E a \in Addr : prologue[a] # 0) => prologued
    /\ HeadIs("LOWER_BOUND") => ~prologued
    /\ ~start => ops = due /\ done \subseteq {r \in {"element"} : InPrologue}
-----------------------------------------------------------------------------
LEMMA Starts == Init => JobInv /\ PrologueOrder /\ FuOncePerStep
<1> SUFFICES ASSUME Init PROVE JobInv /\ PrologueOrder /\ FuOncePerStep
  OBVIOUS
<1>0. 0 \in Addr /\ MemSize \in Nat /\ queue \in Seq(Packet)
  BY TileControlAssumption DEF Init, Addr
<1>1. TypeOK /\ QueueDrains
  BY <1>0 DEF Init, TypeOK, QueueDrains, rearm, HeadIs
<1>2. AddressSequence /\ JobOrder /\ ConstsAgree /\ ConstInOrder
  BY <1>1 DEF Init, AddressSequence, JobOrder, ConstsAgree, ConstInOrder, TypeOK, rearm, HeadIs,
              Modules
<1>3. PrologueOrder /\ FuOncePerStep
  BY <1>1 DEF Init, PrologueOrder, FuOncePerStep, rearm, HeadIs, send_ctrl_val, InPrologue, Addr,
              TypeOK
<1> QED BY <1>1, <1>2, <1>3 DEF JobInv, ControlInv
-----------------------------------------------------------------------------
(* What arrives in a cycle: a packet finds the queue empty behind it, and  *)
(* no REARM in execution.                                                  *)
LEMMA Arrival ==
  ASSUME JobInv, NEW p \in Arrivals
  PROVE  /\ p = NoPacket \/ p \in Packet
         /\ Accepts(p) <=> p # NoPacket
         /\ Accepts(p) => Sendable(p) /\ ~rearm
<1>1. rearm_pending <=> rearm
  BY DEF JobInv, ControlInv, QueueDrains
<1>2. ASSUME NEW q \in Packet PROVE q.cmd # "none"
  BY <1>2 DEF Packet
<1> QED BY <1>1, <1>2 DEF Arrivals, Accepts, NoPacket, rdy

LEMMA QueueAfter ==
  ASSUME JobInv, NEW p \in Arrivals, feed_pkt(p)
  PROVE  /\ queue' = IF Accepts(p) /\ p.cmd # "CONST" THEN <<p>> ELSE <<>>
         /\ queue' \in Seq(Packet) /\ Len(queue') <= 1
         /\ \A c : HeadIs(c)' <=> Accepts(p) /\ p.cmd # "CONST" /\ p.cmd = c
<1>1. queue = <<>> \/ Tail(queue) = <<>>
  BY DEF JobInv, ControlInv, QueueDrains, TypeOK
<1>2. queue' = IF Accepts(p) /\ p.cmd # "CONST" THEN <<p>> ELSE <<>>
  <2>1. Append(<<>>, p) = <<p>>
    OBVIOUS
  <2> QED BY <1>1, <2>1, Zenon DEF feed_pkt
<1>3. Accepts(p) => p \in Packet
  BY Arrival
<1>4. queue' \in Seq(Packet) /\ Len(queue') <= 1
  BY <1>2, <1>3
<1>5. ASSUME NEW c PROVE HeadIs(c)' <=> Accepts(p) /\ p.cmd # "CONST" /\ p.cmd = c
  BY <1>2 DEF HeadIs
<1> QED BY <1>2, <1>4, <1>5

(* What the head of the queue is, by its command.                          *)
LEMMA HeadTyped ==
  ASSUME TypeOK
  PROVE  /\ HeadIs("LOWER_BOUND") => queue[1].n \in Addr
         /\ HeadIs("COUNT_PER_ITER") => queue[1].n \in Counts
         /\ HeadIs("TOTAL_COUNT") => queue[1].n \in Totals
         /\ HeadIs("PROLOGUE_FU") => queue[1].addr \in Addr /\ queue[1].n \in Prologues
<1>1. queue # <<>> => queue[1] \in Packet
  BY DEF TypeOK
<1> QED BY <1>1 DEF HeadIs, Packet

(* A step proceeds, and the FU acts, only while one is offered.            *)
LEMMA StepSignals ==
  ASSUME NEW ready \in Ready, NEW uses \in Uses, NEW push \in Pushes(ready)
  PROVE  /\ uses \in BOOLEAN /\ push \in Return \cup {"none"}
         /\ proceed(ready) \in BOOLEAN /\ fires(ready) \in BOOLEAN
         /\ uses => send_ctrl_val
         /\ push # "none" => fires(ready) /\ Len(returns) < 2
         /\ fires(ready) \/ proceed(ready) => send_ctrl_val
         /\ send_ctrl_rdy(ready) => send_ctrl_val \/ rearm \/ Modules \ {"element"} \subseteq done
  BY DEF Ready, Uses, Pushes, fires, proceed, recv_opt_val, send_ctrl_rdy, Modules
-----------------------------------------------------------------------------
(* The queue of the FU's messages after a cycle.                           *)
LEMMA ReturnsAfter ==
  ASSUME JobInv, NEW p \in Arrivals, NEW ready \in Ready, NEW ctl_rdy \in Taking,
         NEW uses \in Uses, NEW push \in Pushes(ready),
         Cycle(p, ready, uses, push, ctl_rdy)
  PROVE  returns' \in Seq(Return) /\ Len(returns') <= 2
<1> DEFINE rest == IF SendsReturn /\ ctl_rdy THEN Tail(returns) ELSE returns
<1>1. returns \in Seq(Return) /\ Len(returns) <= 2
  BY DEF JobInv, ControlInv, TypeOK
<1>2. rest \in Seq(Return) /\ Len(rest) <= Len(returns) /\ Len(rest) \in Nat
  BY <1>1 DEF SendsReturn
<1>3. push = "none" \/ (push \in Return /\ Len(returns) < 2)
  BY StepSignals
<1>4. returns' = IF rearm THEN <<>> ELSE IF push = "none" THEN rest ELSE Append(rest, push)
  BY DEF Cycle, element_queue
<1> HIDE DEF rest
<1>5. CASE rearm
  BY <1>4, <1>5
<1>6. CASE ~rearm /\ push = "none"
  BY <1>1, <1>2, <1>4, <1>6
<1>7. CASE ~rearm /\ push # "none"
  BY <1>1, <1>2, <1>3, <1>4, <1>7
<1> QED BY <1>5, <1>6, <1>7

LEMMA TypeSteps ==
  ASSUME JobInv, NEW p \in Arrivals, NEW ready \in Ready, NEW ctl_rdy \in Taking,
         NEW uses \in Uses, NEW push \in Pushes(ready),
         Cycle(p, ready, uses, push, ctl_rdy)
  PROVE  (TypeOK /\ QueueDrains)'
<1> USE DEF Cycle
<1>0. TypeOK /\ MemSize \in Nat \ {0} /\ Addr \subseteq Nat /\ {lower, raddr} \subseteq Nat
  BY TileControlAssumption DEF JobInv, ControlInv, TypeOK, Addr
<1>1. queue' \in Seq(Packet) /\ QueueDrains'
  <2>1. rearm' <=> rearm_pending'
    BY QueueAfter, Arrival DEF order_rearm, rearm, JobInv, ControlInv, QueueDrains
  <2> QED BY <2>1, QueueAfter DEF QueueDrains
<1>2. {rearm_pending', hold_data', start', sent_complete', consume_pending', prologued', used',
        ret'} \subseteq BOOLEAN
  BY <1>0, Zenon DEF order_rearm, hold_inputs, start_iterate_ctrl, issue_complete, const_queue,
                     History, TypeOK
<1>3. count' \in Counts /\ total' \in Totals /\ lower' \in Addr
  BY <1>0, HeadTyped DEF update_bounds, TypeOK
<1>4. raddr' \in Addr
  <2>1. (raddr + 1) % MemSize \in Addr
    BY <1>0, DivMod DEF Addr
  <2> QED BY <1>0, <2>1, HeadTyped DEF update_raddr_and_fu_prologue, NextAddr, TypeOK
<1>5. prologue' \in [Addr -> Nat]
  <2>1. prologue \in [Addr -> Nat] /\ Prologues \subseteq Nat
    BY <1>0, TileControlAssumption DEF TypeOK
  <2>2. \/ prologue' = prologue
        \/ prologue' = [a \in Addr |-> 0]
        \/ prologue' = [a \in Addr |->
                 IF proceed(ready) /\ a = raddr /\ prologue[a] > 0 THEN prologue[a] - 1
                 ELSE IF HeadIs("PROLOGUE_FU") /\ queue[1].addr = a THEN queue[1].n
                 ELSE prologue[a]]
    BY DEF update_raddr_and_fu_prologue
  <2>3. HeadIs("PROLOGUE_FU") => queue[1].n \in Nat
    BY <1>0, <2>1, HeadTyped
  <2> QED BY <2>1, <2>2, <2>3
<1>6. done' \subseteq Modules
  BY <1>0 DEF already_done, Ready, TypeOK
<1>7. wr_cur' \in 0 .. MemSize /\ rd_cur' \in Addr
  <2>1. wr_cur \in 0 .. MemSize /\ rd_cur \in Addr
    BY <1>0 DEF TypeOK
  <2>2. wr_cur' \in {0, wr_cur} \/ (wr_cur < MemSize /\ wr_cur' = wr_cur + 1)
    BY DEF const_queue, Accepts, rdy
  <2>3. \/ rd_cur' \in {0, rd_cur} \/ (rd_cur + 1 < wr_cur /\ rd_cur' = rd_cur + 1)
        \/ rd_cur' = (rd_cur + 1) % MemSize
    BY DEF const_queue, NextConst
  <2>4. (rd_cur + 1) % MemSize \in Addr
    BY <1>0, <2>1, DivMod DEF Addr
  <2> QED BY <1>0, <2>1, <2>2, <2>3, <2>4 DEF Addr
<1>8. returns' \in Seq(Return) /\ Len(returns') <= 2
  BY ReturnsAfter
<1>9. phase' \in {"config", "launched", "complete"}
  BY <1>0 DEF History, TypeOK
<1>10. {times', given', taken', due', ops'} \subseteq Nat
  <2>1. {times, given, taken, due, ops} \subseteq Nat
    BY <1>0 DEF TypeOK
  <2>2. times' \in {0, times, times + 1}
    BY Zenon DEF update_raddr_and_fu_prologue
  <2>3. /\ given' \in {0, given + 0, given + 1} /\ taken' \in {0, taken + 0, taken + 1}
        /\ due' \in {0, due + 0, due + 1} /\ ops' \in {0, ops + 0, ops + 1}
    BY Zenon DEF History
  <2> QED BY <2>1, <2>2, <2>3
<1>11. told' \in Seq({"value", "bare"})
  <2>1. told \in Seq({"value", "bare"})
    BY <1>0 DEF TypeOK
  <2>2. \/ told' = <<>> \/ told' = told
        \/ told' = Append(told, "bare") \/ told' = Append(told, "value")
    BY DEF History
  <2> DEFINE S == {"value", "bare"}
  <2>3. told \in Seq(S) /\ "bare" \in S /\ "value" \in S
    BY <2>1
  <2> HIDE DEF S
  <2>4. <<>> \in Seq(S) /\ Append(told, "bare") \in Seq(S) /\ Append(told, "value") \in Seq(S)
    BY <2>3
  <2>5. told' \in Seq(S)
    BY <2>2, <2>3, <2>4, Zenon
  <2> QED BY <2>5 DEF S
<1> QED BY <1>1, <1>2, <1>3, <1>4, <1>5, <1>6, <1>7, <1>8, <1>9, <1>10, <1>11 DEF TypeOK
-----------------------------------------------------------------------------
(* What one cycle does to the job, by the phase it is in.                  *)
LEMMA OrderSteps ==
  ASSUME JobInv, NEW p \in Arrivals, NEW ready \in Ready, NEW ctl_rdy \in Taking,
         NEW uses \in Uses, NEW push \in Pushes(ready),
         Cycle(p, ready, uses, push, ctl_rdy)
  PROVE  JobOrder'
<1> USE DEF Cycle
<1>0. TypeOK /\ JobOrder /\ (Accepts(p) => Sendable(p) /\ ~rearm)
  BY Arrival DEF JobInv, ControlInv
<1>1. rearm' => phase' = "config" /\ given' = 0
  BY QueueAfter DEF History, rearm
<1>2. HeadIs("LAUNCH")' => phase' = "launched" /\ ~start'
  <2> SUFFICES ASSUME HeadIs("LAUNCH")' PROVE phase' = "launched" /\ ~start'
    OBVIOUS
  <2>1. Accepts(p) /\ p.cmd = "LAUNCH"
    BY QueueAfter
  <2>2. phase = "config" /\ ~rearm
    BY <1>0, <2>1 DEF Sendable
  <2>3. ~start /\ ~HeadIs("LAUNCH")
    BY <1>0, <2>2 DEF JobOrder
  <2>4. phase' = "launched"
    BY <2>1, <2>3 DEF History, Completes, SendsComplete, SendsReturn
  <2> QED BY <2>2, <2>3, <2>4 DEF start_iterate_ctrl
<1>3. start' => rearm' \/ (phase' # "config" /\ queue' = <<>>)
  <2> SUFFICES ASSUME start', ~rearm' PROVE phase' # "config" /\ queue' = <<>>
    OBVIOUS
  <2>1. ~rearm /\ phase # "config"
    BY <1>0 DEF start_iterate_ctrl, JobOrder
  <2>2. Accepts(p) => p.cmd = "REARM"
    BY <1>0, <2>1 DEF Sendable
  <2>3. ~Accepts(p)
    BY <2>2, QueueAfter DEF rearm
  <2> QED BY <2>1, <2>3, QueueAfter DEF History
<1>4. ~start' => phase' = "config" \/ HeadIs("LAUNCH")'
  <2> SUFFICES ASSUME ~start' PROVE phase' = "config" \/ HeadIs("LAUNCH")'
    OBVIOUS
  <2>1. phase = "config" /\ (~start \/ rearm)
    BY <1>0 DEF start_iterate_ctrl, JobOrder
  <2> QED BY <2>1, QueueAfter DEF History, Completes, SendsComplete, SendsReturn
<1>5. ~start' => times' = 0 /\ raddr' = lower' /\ taken' = 0 /\ rd_cur' = 0 /\ ~used'
  <2>1. CASE rearm
    <3>1. lower' = lower
      BY <2>1 DEF update_bounds, rearm, HeadIs
    <3>2. times' = 0 /\ raddr' = lower
      BY <2>1 DEF update_raddr_and_fu_prologue, rearm, HeadIs
    <3>3. rd_cur' = 0
      BY <2>1 DEF const_queue
    <3>4. taken' = 0 /\ ~used'
      BY <2>1 DEF History
    <3> QED BY <3>1, <3>2, <3>3, <3>4
  <2>2. CASE ~rearm
    <3> SUFFICES ASSUME ~start'
                 PROVE  times' = 0 /\ raddr' = lower' /\ taken' = 0 /\ rd_cur' = 0 /\ ~used'
      OBVIOUS
    <3>1. ~start
      BY <2>2 DEF start_iterate_ctrl
    <3>2. ~proceed(ready) /\ ~uses /\ times = 0 /\ raddr = lower /\ taken = 0 /\ rd_cur = 0 /\ ~used
      BY <1>0, <3>1, StepSignals DEF send_ctrl_val, JobOrder
    <3>3. times' = 0 /\ raddr' = lower'
      BY <2>2, <3>2 DEF update_raddr_and_fu_prologue, update_bounds
    <3>4. rd_cur' = 0
      BY <2>2, <3>2 DEF const_queue, Retires
    <3>5. taken' = taken + 0 /\ ~used'
      BY <2>2, <3>2, Zenon DEF History
    <3> QED BY <3>2, <3>3, <3>4, <3>5
  <2> QED BY <2>1, <2>2
<1>6. start /\ ~rearm => total' = total /\ lower' = lower /\ count' = count /\ queue = <<>>
  BY <1>0 DEF update_bounds, JobOrder, HeadIs
<1>7. times' <= total'
  <2>1. total \in Nat /\ total' \in Nat /\ times \in Nat /\ times <= total
    BY <1>0, TypeSteps, TileControlAssumption DEF TypeOK, JobOrder
  <2>2. CASE ~start'
    BY <1>5, <2>1, <2>2
  <2>3. CASE start' /\ start
    <3>1. total' = total /\ ~rearm
      BY <1>6, <2>3 DEF start_iterate_ctrl
    <3>2. times' = times \/ (times' = times + 1 /\ times # total)
      <4>1. proceed(ready) => times # total
        BY StepSignals, <1>0, TileControlAssumption DEF send_ctrl_val, AllStepsDone, TypeOK
      <4> QED BY <3>1, <4>1 DEF update_raddr_and_fu_prologue
    <3> QED BY <2>1, <3>1, <3>2
  <2>4. CASE start' /\ ~start
    <3>1. times' = times /\ times = 0
      BY <1>0, <2>4, StepSignals
      DEF update_raddr_and_fu_prologue, send_ctrl_val, JobOrder, start_iterate_ctrl
    <3> QED BY <2>1, <3>1
  <2> QED BY <2>2, <2>3, <2>4
<1>8. sent_complete' => start'
  BY <1>0 DEF issue_complete, Completes, SendsComplete, SendsReturn, JobOrder, start_iterate_ctrl
<1>9. ~(Modules \subseteq done')
  BY <1>0 DEF already_done, send_ctrl_rdy, JobOrder, Modules
<1> QED BY <1>1, <1>2, <1>3, <1>4, <1>5, <1>7, <1>8, <1>9 DEF JobOrder

(* The ctrl address follows the number of completed steps.                 *)
LEMMA AddressSteps ==
  ASSUME JobInv, NEW p \in Arrivals, NEW ready \in Ready, NEW ctl_rdy \in Taking,
         NEW uses \in Uses, NEW push \in Pushes(ready),
         Cycle(p, ready, uses, push, ctl_rdy)
  PROVE  AddressSequence'
<1> USE DEF Cycle
<1>0. JobOrder /\ TypeOK /\ AddressSequence
  BY DEF JobInv, ControlInv
<1>1. JobOrder'
  BY OrderSteps
<1> SUFFICES ASSUME start', lower' + count' <= MemSize
             PROVE  raddr' = lower' + (times' % count')
  BY <1>1 DEF AddressSequence, JobOrder
<1>2. /\ lower \in Nat /\ times \in Nat /\ MemSize \in Nat \ {0}
      /\ count \in Nat /\ count > 0 /\ lower' \in Nat /\ count' \in Nat /\ count' > 0
  <2>1. TypeOK'
    BY TypeSteps
  <2>2. MemSize \in Nat \ {0} /\ Addr \subseteq Nat /\ Counts \subseteq Nat \ {0}
    BY TileControlAssumption DEF Addr
  <2>3. lower \in Nat /\ times \in Nat /\ count \in Nat \ {0}
    BY <1>0, <2>2 DEF TypeOK
  <2>4. lower' \in Nat /\ count' \in Nat \ {0}
    BY <2>1, <2>2 DEF TypeOK
  <2> QED BY <2>2, <2>3, <2>4
<1>3. CASE start
  <2>1. ~rearm /\ queue = <<>> /\ lower' = lower /\ count' = count
    BY <1>0, <1>3 DEF start_iterate_ctrl, JobOrder, update_bounds, HeadIs
  <2>2. raddr = lower + (times % count)
    BY <1>0, <1>3, <2>1 DEF AddressSequence
  <2>3. CASE ~proceed(ready)
    BY <2>1, <2>2, <2>3 DEF update_raddr_and_fu_prologue, HeadIs
  <2>4. CASE proceed(ready)
    <3>1. times' = times + 1 /\ raddr' = NextAddr
      BY <2>1, <2>4 DEF update_raddr_and_fu_prologue, HeadIs
    <3>2. times % count \in 0 .. (count - 1)
      BY <1>2, DivMod
    <3>3. (times + 1) % count = IF (times % count) + 1 < count THEN (times % count) + 1 ELSE 0
      BY <1>2, ModNext
    <3> DEFINE k == times % count
    <3> HIDE DEF k
    <3>4. k \in 0 .. (count - 1) /\ raddr = lower + k /\ raddr + 1 <= MemSize
      BY <1>2, <2>1, <2>2, <3>2 DEF k
    <3>5. CASE k + 1 < count
      <4>1. raddr + 1 < MemSize /\ raddr + 1 \in Nat
        BY <1>2, <2>1, <3>4, <3>5
      <4>2. (raddr + 1) % MemSize = raddr + 1
        BY <1>2, <4>1
      <4>3. raddr # lower + count - 1
        BY <1>2, <3>4, <3>5
      <4>4. raddr' = raddr + 1
        BY <3>1, <4>2, <4>3 DEF NextAddr
      <4> QED BY <1>2, <2>1, <3>1, <3>3, <3>4, <3>5, <4>4 DEF k
    <3>6. CASE ~(k + 1 < count)
      <4>1. raddr = lower + count - 1
        BY <1>2, <3>4, <3>6
      <4> QED BY <1>2, <2>1, <3>1, <3>3, <3>6, <4>1 DEF k, NextAddr
    <3> QED BY <3>5, <3>6
  <2> QED BY <2>3, <2>4
<1>4. CASE ~start
  <2>1. HeadIs("LAUNCH") /\ ~rearm
    BY <1>4 DEF start_iterate_ctrl
  <2>2. ~proceed(ready) /\ times = 0 /\ raddr = lower
    BY <1>0, <1>4, StepSignals DEF send_ctrl_val, JobOrder
  <2>3. times' = 0 /\ raddr' = lower /\ lower' = lower
    BY <2>1, <2>2 DEF update_raddr_and_fu_prologue, update_bounds, HeadIs
  <2>4. 0 % count' = 0
    <3>1. \A c \in Nat : c > 0 => 0 % c = 0
      OBVIOUS
    <3> QED BY <1>2, <3>1
  <2>5. times' % count' = 0
    BY <2>3, <2>4
  <2>6. lower' + 0 = lower'
    <3>1. \A n \in Nat : n + 0 = n
      OBVIOUS
    <3> QED BY <1>2, <3>1
  <2> QED BY <2>3, <2>5, <2>6
<1> QED BY <1>3, <1>4
-----------------------------------------------------------------------------
(* The cursor moves once per consuming step, and the pending flag holds    *)
(* what the cycle of the consumption could not do yet.                     *)
LEMMA ConstSteps ==
  ASSUME JobInv, NEW p \in Arrivals, NEW ready \in Ready, NEW ctl_rdy \in Taking,
         NEW uses \in Uses, NEW push \in Pushes(ready),
         Cycle(p, ready, uses, push, ctl_rdy)
  PROVE  (ConstsAgree /\ ConstInOrder)'
<1> USE DEF Cycle
<1>0. /\ TypeOK /\ JobOrder /\ ConstsAgree /\ ConstInOrder
      /\ (rearm_pending <=> rearm) /\ (rearm_pending' <=> rearm')
  BY TypeSteps DEF JobInv, ControlInv, QueueDrains
<1>1. wr_cur \in Nat /\ rd_cur \in Nat /\ taken \in Nat /\ given \in Nat
  BY <1>0, TileControlAssumption DEF TypeOK, Addr
<1>2. CASE rearm
  <2>1. wr_cur' = 0 /\ rd_cur' = 0 /\ consume_pending' = FALSE
    BY <1>2 DEF const_queue
  <2>2. used' = FALSE /\ taken' = 0
    BY <1>2 DEF History
  <2>3. given' = 0
    BY <1>0, <1>2, Arrival DEF History, JobOrder
  <2>4. ~(wr_cur' > 0)
    BY <2>1
  <2> QED BY <2>1, <2>2, <2>3, <2>4, Zenon DEF ConstsAgree, ConstInOrder
<1>3. CASE ~rearm /\ Accepts(p) /\ p.cmd = "REARM"
  <2>1. rearm_pending' /\ wr_cur' = wr_cur
    BY <1>3 DEF order_rearm, const_queue
  <2>2. used' = consume_pending'
    BY <1>0, <1>3 DEF History, const_queue, ConstsAgree
  <2>4. wr_cur > 0 => rd_cur' < wr_cur
    BY <1>0, <1>1, <1>3 DEF const_queue, NextConst, ConstsAgree
  <2> QED BY <2>1, <2>2, <2>4 DEF ConstsAgree, ConstInOrder
<1>4. CASE ~rearm /\ Accepts(p) /\ p.cmd = "CONST"
  <2>1. ~start
    BY <1>0, <1>4, Arrival DEF Sendable, JobOrder
  <2>2. taken = 0 /\ rd_cur = 0 /\ ~used /\ ~uses /\ ~proceed(ready)
    BY <1>0, <2>1, StepSignals DEF JobOrder, send_ctrl_val
  <2>3. wr_cur' = wr_cur + 1 /\ rd_cur' = 0 /\ consume_pending' = FALSE
    BY <1>0, <1>4, <2>2 DEF const_queue, Retires, ConstsAgree
  <2>4. given' = given + 1
    BY <1>4, Zenon DEF History
  <2>5. taken' = 0 + 0 /\ used' = FALSE
    BY <1>4, <2>2, Zenon DEF History
  <2>6. 0 % wr_cur' = 0
    BY <1>1, <2>3
  <2>7. wr_cur = given
    BY <1>0, <1>4 DEF ConstInOrder
  <2>8. wr_cur' > 0 /\ rd_cur' < wr_cur' /\ wr_cur' = given' /\ rd_cur' = taken' % wr_cur'
    BY <1>1, <2>3, <2>4, <2>5, <2>6, <2>7
  <2> QED BY <2>3, <2>5, <2>8, Zenon DEF ConstsAgree, ConstInOrder
<1>5. CASE ~rearm /\ (Accepts(p) => p.cmd \notin {"REARM", "CONST"})
  <2>1. wr_cur' = wr_cur /\ given' = given + 0
    BY <1>5, Zenon DEF const_queue, History
  <2>2. used' = consume_pending'
    BY <1>0, <1>5 DEF History, const_queue, ConstsAgree
  <2>3. rd_cur' = IF Retires(uses, ready) THEN NextConst ELSE rd_cur
    BY <1>5 DEF const_queue
  <2>4. taken' = taken + (IF Retires(uses, ready) THEN 1 ELSE 0)
    BY <1>0, <1>5, Zenon DEF History, ConstsAgree, Retires
  <2>5. wr_cur > 0 => rd_cur' < wr_cur /\ rd_cur' = taken' % wr_cur
    <3> SUFFICES ASSUME wr_cur > 0 PROVE rd_cur' < wr_cur /\ rd_cur' = taken' % wr_cur
      OBVIOUS
    <3>1. rd_cur < wr_cur /\ rd_cur = taken % wr_cur
      BY <1>0, <1>5 DEF ConstsAgree, ConstInOrder
    <3>2. (taken + 1) % wr_cur = NextConst /\ NextConst < wr_cur
      <4>1. NextConst = IF rd_cur + 1 < wr_cur THEN rd_cur + 1 ELSE 0
        BY <1>1 DEF NextConst
      <4>2. (taken + 1) % wr_cur = IF rd_cur + 1 < wr_cur THEN rd_cur + 1 ELSE 0
        BY <1>1, <3>1, ModNext
      <4> QED BY <1>1, <4>1, <4>2
    <3>3. CASE Retires(uses, ready)
      BY <1>1, <2>3, <2>4, <3>2, <3>3
    <3>4. CASE ~Retires(uses, ready)
      BY <1>1, <2>3, <2>4, <3>1, <3>4
    <3> QED BY <3>3, <3>4
  <2>6. wr_cur = given
    BY <1>0, <1>5 DEF ConstInOrder
  <2> QED BY <1>1, <2>1, <2>2, <2>5, <2>6 DEF ConstsAgree, ConstInOrder
<1> QED BY <1>2, <1>3, <1>4, <1>5
-----------------------------------------------------------------------------
LEMMA JobSteps == JobInv /\ [Next]_vars => JobInv'
<1> SUFFICES ASSUME JobInv, [Next]_vars PROVE JobInv'
  OBVIOUS
<1>1. CASE Next
  <2> PICK p \in Arrivals, ready \in Ready, ctl_rdy \in Taking :
        \E uses \in Uses, push \in Pushes(ready) : Cycle(p, ready, uses, push, ctl_rdy)
    BY <1>1 DEF Next
  <2> PICK uses \in Uses, push \in Pushes(ready) : Cycle(p, ready, uses, push, ctl_rdy)
    OBVIOUS
  <2> QED BY TypeSteps, OrderSteps, AddressSteps, ConstSteps DEF JobInv, ControlInv
<1>2. CASE UNCHANGED vars
  BY <1>2 DEF vars, job, run, consts, JobInv, ControlInv, TypeOK, QueueDrains, AddressSequence,
              JobOrder, ConstsAgree, ConstInOrder, rearm, HeadIs
<1> QED BY <1>1, <1>2

(* The packet queue never backs up, a job stops at its last step, and the  *)
(* ctrl address follows the number of completed steps around the window.   *)
THEOREM ControlExact == Spec => []ControlInv
<1>1. JobInv => ControlInv
  BY DEF JobInv
<1> QED BY <1>1, Starts, JobSteps, PTL DEF Spec

(* Consuming steps read the constants of their job in order, none skipped  *)
(* and none lost to the REARM before them.                                 *)
THEOREM ConstantsInOrder == Spec => []ConstInOrder
<1>1. JobInv => ConstInOrder
  BY DEF JobInv
<1> QED BY <1>1, Starts, JobSteps, PTL DEF Spec

(* The value of a RET is in the queue of the FU's messages.                *)
HasValue(s) == \E i \in 1 .. Len(s) : s[i] = "value"

LEMMA HasValueFacts ==
  /\ ~HasValue(<<>>)
  /\ \A s \in Seq(Return), x \in Return :
       HasValue(Append(s, x)) <=> HasValue(s) \/ x = "value"
  /\ \A s \in Seq(Return) :
       s # <<>> => (HasValue(s) <=> Head(s) = "value" \/ HasValue(Tail(s)))
<1>1. ~HasValue(<<>>)
  BY DEF HasValue
<1>2. ASSUME NEW s \in Seq(Return), NEW x \in Return
      PROVE  HasValue(Append(s, x)) <=> HasValue(s) \/ x = "value"
  <2>1. /\ Len(s) \in Nat /\ Len(Append(s, x)) = Len(s) + 1
        /\ Append(s, x)[Len(s) + 1] = x
        /\ \A i \in 1 .. Len(s) : Append(s, x)[i] = s[i]
    OBVIOUS
  <2>2. \A i \in 1 .. Len(s) + 1 : i \in 1 .. Len(s) \/ i = Len(s) + 1
    BY <2>1
  <2>3. Len(s) + 1 \in 1 .. Len(s) + 1 /\ 1 .. Len(s) \subseteq 1 .. Len(s) + 1
    BY <2>1
  <2>4. HasValue(Append(s, x)) => HasValue(s) \/ x = "value"
    BY <2>1, <2>2 DEF HasValue
  <2>5. HasValue(s) \/ x = "value" => HasValue(Append(s, x))
    BY <2>1, <2>3 DEF HasValue
  <2> QED BY <2>4, <2>5
<1>3. ASSUME NEW s \in Seq(Return), s # <<>>
      PROVE  HasValue(s) <=> Head(s) = "value" \/ HasValue(Tail(s))
  <2>1. /\ Len(s) \in Nat /\ Len(s) >= 1 /\ Len(Tail(s)) = Len(s) - 1 /\ Head(s) = s[1]
        /\ \A i \in 1 .. Len(s) - 1 : Tail(s)[i] = s[i + 1]
    BY <1>3
  <2>2. ASSUME NEW i \in 1 .. Len(s), s[i] = "value"
        PROVE  Head(s) = "value" \/ HasValue(Tail(s))
    <3>1. i = 1 \/ (i - 1 \in 1 .. Len(s) - 1 /\ (i - 1) + 1 = i)
      BY <2>1
    <3>2. i - 1 \in 1 .. Len(s) - 1 => Tail(s)[i - 1] = s[(i - 1) + 1]
      BY <2>1
    <3> QED BY <2>1, <2>2, <3>1, <3>2 DEF HasValue
  <2>3. ASSUME NEW i \in 1 .. Len(Tail(s)), Tail(s)[i] = "value"
        PROVE  HasValue(s)
    <3>1. i + 1 \in 1 .. Len(s) /\ s[i + 1] = "value"
      BY <2>1, <2>3
    <3> QED BY <3>1 DEF HasValue
  <2>4. Head(s) = "value" => HasValue(s)
    <3>1. 1 \in 1 .. Len(s)
      BY <2>1
    <3> QED BY <2>1, <3>1 DEF HasValue
  <2> QED BY <2>2, <2>3, <2>4 DEF HasValue
<1> QED BY <1>1, <1>2, <1>3

(* Which COMPLETE a job is to end with.  The value of the first RET is in  *)
(* the queue until the controller has it.                                  *)
CompleteOrder ==
  /\ sent_complete <=> told # <<>>
  /\ ~start => ~ret /\ returns = <<>>
  /\ HasValue(returns) => ret
  /\ ret => sent_complete \/ HasValue(returns)
  /\ told # <<>> => /\ told = <<IF ret THEN "value" ELSE "bare">>
                    /\ ret \/ (times = total /\ returns = <<>>)
  /\ ~rearm => (phase = "complete" <=> sent_complete)

LEMMA CompleteStarts == Init => CompleteOrder
  BY HasValueFacts DEF Init, CompleteOrder

(* A cycle of a started job that is not rearmed: what it leaves alone.     *)
LEMMA RunningCycle ==
  ASSUME JobInv, NEW p \in Arrivals, NEW ready \in Ready, NEW ctl_rdy \in Taking,
         NEW uses \in Uses, NEW push \in Pushes(ready),
         Cycle(p, ready, uses, push, ctl_rdy), ~rearm, start
  PROVE  /\ start' /\ total' = total /\ ~HeadIs("LAUNCH")
         /\ ~send_ctrl_val => push = "none" /\ times' = times
         /\ Completes(ctl_rdy) => phase' = "complete" \/ rearm'
         /\ ~Completes(ctl_rdy) => phase' = phase \/ rearm'
<1> USE DEF Cycle
<1>1. TypeOK /\ queue = <<>> /\ phase # "config"
  BY DEF JobInv, ControlInv, JobOrder
<1>2. start' /\ total' = total /\ ~HeadIs("LAUNCH")
  BY <1>1 DEF start_iterate_ctrl, update_bounds, HeadIs
<1>3. ~send_ctrl_val => push = "none" /\ times' = times
  BY <1>1, StepSignals DEF update_raddr_and_fu_prologue, HeadIs
<1>4. Accepts(p) => p.cmd = "REARM"
  BY <1>1, Arrival DEF Sendable
<1>5. Accepts(p) => rearm'
  BY <1>4, QueueAfter DEF rearm
<1>6. ~Accepts(p) => phase' = IF Completes(ctl_rdy) THEN "complete" ELSE phase
  BY DEF History
<1> QED BY <1>2, <1>3, <1>5, <1>6

LEMMA CompleteSteps ==
  ASSUME JobInv, CompleteOrder,
         NEW p \in Arrivals, NEW ready \in Ready, NEW ctl_rdy \in Taking,
         NEW uses \in Uses, NEW push \in Pushes(ready),
         Cycle(p, ready, uses, push, ctl_rdy)
  PROVE  CompleteOrder'
<1> USE DEF Cycle
<1>0. TypeOK /\ JobOrder
  BY DEF JobInv, ControlInv
<1>1. CASE rearm
  <2>1. sent_complete' = FALSE /\ returns' = <<>> /\ ret' = FALSE /\ told' = <<>>
    BY <1>1 DEF issue_complete, element_queue, History
  <2>2. ~Completes(ctl_rdy) /\ ~Accepts(p) /\ phase = "config"
    BY <1>0, <1>1, Arrival DEF Completes, SendsComplete, SendsReturn, JobOrder
  <2>3. phase' = "config"
    BY <2>2 DEF History
  <2> QED BY <2>1, <2>3, HasValueFacts DEF CompleteOrder
<1>2. CASE ~rearm /\ ~start
  <2>1. ~Completes(ctl_rdy) /\ ~SendsReturn /\ push = "none"
    BY <1>2, StepSignals DEF Completes, SendsComplete, SendsReturn, send_ctrl_val
  <2>2. ~sent_complete /\ told = <<>> /\ ~ret /\ returns = <<>> /\ phase # "complete"
    BY <1>0, <1>2 DEF CompleteOrder, JobOrder
  <2>3. sent_complete' = FALSE /\ returns' = <<>> /\ ret' = FALSE /\ told' = <<>>
    BY <1>2, <2>1, <2>2 DEF issue_complete, element_queue, History
  <2>4. phase' # "complete"
    BY <2>1, <2>2 DEF History
  <2> QED BY <2>3, <2>4, HasValueFacts DEF CompleteOrder
<1>3. CASE ~rearm /\ start /\ sent_complete
  <2>1. ~Completes(ctl_rdy) /\ ~SendsReturn /\ ~send_ctrl_val
    BY <1>3 DEF Completes, SendsComplete, SendsReturn, send_ctrl_val
  <2>2. /\ start' /\ total' = total /\ push = "none" /\ times' = times
        /\ ~HeadIs("LAUNCH") /\ (phase' = phase \/ rearm')
    BY <1>3, <2>1, RunningCycle
  <2>3. sent_complete' /\ returns' = returns
    BY <1>3, <2>1, <2>2 DEF issue_complete, element_queue
  <2>4. (ret' <=> ret) /\ told' = told
    BY <1>3, <2>1, <2>2 DEF History
  <2> QED BY <1>3, <2>2, <2>3, <2>4 DEF CompleteOrder
<1>4. CASE ~rearm /\ start /\ ~sent_complete /\ Completes(ctl_rdy)
  <2>1. told = <<>> /\ start' /\ total' = total /\ (phase' = "complete" \/ rearm')
    BY <1>4, RunningCycle DEF CompleteOrder
  <2>2. sent_complete' = TRUE
    BY <1>4 DEF issue_complete
  <2>3. told' = Append(<<>>, IF SendsComplete THEN "bare" ELSE "value")
    BY <1>4, <2>1 DEF History
  <2>4. CASE SendsComplete
    <3>1. ~send_ctrl_val /\ ~SendsReturn /\ returns = <<>> /\ times = total /\ ~ret
      BY <1>4, <2>4, HasValueFacts
      DEF SendsComplete, SendsReturn, AllStepsDone, send_ctrl_val, CompleteOrder
    <3>2. push = "none" /\ times' = times
      BY <1>4, <3>1, RunningCycle
    <3>3. returns' = <<>> /\ ~ret'
      BY <1>4, <3>1, <3>2 DEF element_queue, History
    <3>4. told' = <<"bare">> /\ told' # <<>>
      BY <2>3, <2>4
    <3> QED BY <2>1, <2>2, <3>1, <3>2, <3>3, <3>4, HasValueFacts DEF CompleteOrder
  <2>5. CASE ~SendsComplete
    <3>1. returns # <<>> /\ Head(returns) = "value" /\ returns \in Seq(Return)
      BY <1>0, <1>4, <2>5 DEF Completes, SendsReturn, TypeOK
    <3>2. ret
      BY <3>1, HasValueFacts DEF CompleteOrder
    <3>3. ret'
      BY <1>4, <3>2 DEF History
    <3>4. told' = <<"value">> /\ told' # <<>>
      BY <2>3, <2>5
    <3> QED BY <2>1, <2>2, <3>3, <3>4 DEF CompleteOrder
  <2> QED BY <2>4, <2>5
<1>5. CASE ~rearm /\ start /\ ~sent_complete /\ ~Completes(ctl_rdy)
  <2>1. /\ told = <<>> /\ start' /\ (phase' = phase \/ rearm') /\ phase # "complete"
        /\ ~HeadIs("LAUNCH")
    BY <1>5, RunningCycle DEF CompleteOrder
  <2>2. sent_complete' = FALSE
    BY <1>5 DEF issue_complete
  <2>3. told' = <<>> /\ (ret' <=> ret \/ push = "value")
    BY <1>5, <2>1 DEF History
  <2>4. HasValue(returns') <=> ret'
    <3> DEFINE rest == IF SendsReturn /\ ctl_rdy THEN Tail(returns) ELSE returns
    <3>1. returns \in Seq(Return) /\ (HasValue(returns) <=> ret)
      BY <1>0, <1>5 DEF CompleteOrder, TypeOK
    <3>2. rest \in Seq(Return) /\ (HasValue(rest) <=> HasValue(returns))
      <4>1. CASE SendsReturn /\ ctl_rdy
        <5>1. returns # <<>> /\ Head(returns) # "value"
          BY <1>5, <4>1 DEF Completes, SendsReturn
        <5> QED BY <3>1, <4>1, <5>1, HasValueFacts
      <4> QED BY <3>1, <4>1
    <3>3. returns' = IF push = "none" THEN rest ELSE Append(rest, push)
      BY <1>5 DEF element_queue
    <3>4. push = "none" \/ push \in Return
      BY StepSignals
    <3> HIDE DEF rest
    <3>5. push = "none" => push # "value"
      OBVIOUS
    <3> QED BY <2>3, <3>1, <3>2, <3>3, <3>4, <3>5, HasValueFacts
  <2> QED BY <2>1, <2>2, <2>3, <2>4 DEF CompleteOrder
<1> QED BY <1>1, <1>2, <1>3, <1>4, <1>5

(* The controller is told once that a job is complete: by the first RET    *)
(* the job performed, or, without one, after exactly total steps and       *)
(* behind everything the FU returned.                                      *)
THEOREM CompletesOnce == Spec => []CompleteOnce
<1>1. JobInv /\ CompleteOrder /\ [Next]_vars => CompleteOrder'
  <2> SUFFICES ASSUME JobInv, CompleteOrder, [Next]_vars PROVE CompleteOrder'
    OBVIOUS
  <2>1. CASE Next
    <3> PICK p \in Arrivals, ready \in Ready, ctl_rdy \in Taking :
          \E uses \in Uses, push \in Pushes(ready) : Cycle(p, ready, uses, push, ctl_rdy)
      BY <2>1 DEF Next
    <3> PICK uses \in Uses, push \in Pushes(ready) : Cycle(p, ready, uses, push, ctl_rdy)
      OBVIOUS
    <3> QED BY CompleteSteps
  <2>2. CASE UNCHANGED vars
    BY <2>2 DEF vars, job, run, CompleteOrder, HasValue, rearm, HeadIs
  <2> QED BY <2>1, <2>2
<1>2. CompleteOrder => CompleteOnce
  BY DEF CompleteOrder, CompleteOnce
<1> QED BY <1>1, <1>2, Starts, CompleteStarts, JobSteps, PTL DEF Spec
-----------------------------------------------------------------------------
(* A tile that was not started and gets no REARM: what its flags can say.  *)
LEMMA IdleFlags ==
  ASSUME JobInv, PrologueOrder, NEW p \in Arrivals, NEW ready \in Ready, NEW ctl_rdy \in Taking,
         NEW uses \in Uses, NEW push \in Pushes(ready),
         Cycle(p, ready, uses, push, ctl_rdy), ~rearm, ~start
  PROVE  ops' = due' /\ done' \subseteq {r \in {"element"} : InPrologue'}
<1> USE DEF Cycle
<1>0. TypeOK
  BY DEF JobInv, ControlInv
<1>1. ~send_ctrl_val /\ ~fires(ready) /\ ~proceed(ready)
  BY StepSignals DEF send_ctrl_val
<1>2. ops' = due'
  <2>1. ops' = ops + 0 /\ due' = due + 0
    BY <1>1, Zenon DEF History
  <2> QED BY <2>1, <1>0 DEF PrologueOrder, TypeOK
<1>3. done \cup ready \subseteq {r \in {"element"} : InPrologue}
  BY <1>1 DEF PrologueOrder, Ready, recv_opt_val, Modules
<1>4. done' \subseteq done \cup ready
  BY DEF already_done
<1>5. InPrologue => InPrologue'
  <2> SUFFICES ASSUME InPrologue PROVE InPrologue'
    OBVIOUS
  <2>1. raddr \in Addr /\ prologue[raddr] # 0 /\ prologue \in [Addr -> Nat]
    BY <1>0 DEF TypeOK, InPrologue
  <2>2. ~HeadIs("LOWER_BOUND")
    BY <2>1 DEF PrologueOrder
  <2>3. raddr' = raddr
    BY <1>1, <2>2 DEF update_raddr_and_fu_prologue
  <2>4. prologue'[raddr] # 0
    BY <1>0, <1>1, <2>1, <2>2, HeadTyped, TileControlAssumption DEF update_raddr_and_fu_prologue
  <2> QED BY <2>3, <2>4 DEF InPrologue
<1> QED BY <1>2, <1>3, <1>4, <1>5

(* A cycle of a started job.                                               *)
LEMMA RunningOps ==
  ASSUME JobInv, FuOncePerStep, NEW p \in Arrivals, NEW ready \in Ready, NEW ctl_rdy \in Taking,
         NEW uses \in Uses, NEW push \in Pushes(ready),
         Cycle(p, ready, uses, push, ctl_rdy), ~rearm, start, ~rearm'
  PROVE  FuOncePerStep'
<1> USE DEF Cycle
<1>0. TypeOK /\ JobOrder /\ queue = <<>> /\ start' /\ total > 0 /\ ops \in Nat /\ due \in Nat
  <2>1. TypeOK /\ JobOrder
    BY DEF JobInv, ControlInv
  <2>2. total > 0 /\ ops \in Nat /\ due \in Nat
    BY <2>1, TileControlAssumption DEF TypeOK
  <2>3. queue = <<>>
    BY <2>1 DEF JobOrder
  <2>4. start'
    BY DEF start_iterate_ctrl
  <2> QED BY <2>1, <2>2, <2>3, <2>4
<1>1. /\ total' = total
      /\ times' = IF proceed(ready) THEN times + 1 ELSE times
      /\ raddr' = IF proceed(ready) THEN NextAddr ELSE raddr
      /\ ~proceed(ready) => prologue' = prologue
  BY <1>0 DEF update_bounds, update_raddr_and_fu_prologue, HeadIs, TypeOK
<1>2. /\ ops' = ops + (IF fires(ready) THEN 1 ELSE 0)
      /\ due' = due + (IF proceed(ready) /\ ~InPrologue THEN 1 ELSE 0)
  BY Zenon DEF History
<1>3. CASE ~send_ctrl_val
  <2>1. ~proceed(ready) /\ ~fires(ready)
    BY <1>3, StepSignals
  <2>2. /\ ops' = ops /\ due' = due /\ (InPrologue' <=> InPrologue)
    BY <1>0, <1>1, <1>2, <2>1 DEF InPrologue
  <2>3. ~InPrologue => done' = done
    <3>1. ~InPrologue => ready = {}
      BY <1>3 DEF Ready, recv_opt_val
    <3> QED BY <1>0, <3>1 DEF already_done, send_ctrl_rdy, JobOrder
  <2>4. ops = due + (IF "element" \in done /\ ~InPrologue THEN 1 ELSE 0)
    BY DEF FuOncePerStep
  <2> QED BY <1>0, <2>2, <2>3, <2>4 DEF FuOncePerStep
<1>4. CASE send_ctrl_val /\ ~proceed(ready)
  <2>1. ~send_ctrl_rdy(ready) /\ done' = done \cup ready
    BY <1>4 DEF proceed, already_done
  <2>3. InPrologue' <=> InPrologue
    BY <1>0, <1>1, <1>4 DEF InPrologue
  <2>4. fires(ready) <=> "element" \in ready /\ "element" \notin done /\ ~InPrologue
    BY <1>4 DEF fires, recv_opt_val
  <2>5. ops = due + (IF "element" \in done /\ ~InPrologue THEN 1 ELSE 0)
    BY <1>4 DEF FuOncePerStep
  <2>6. ops' = due' + (IF "element" \in done' /\ ~InPrologue THEN 1 ELSE 0)
    BY <1>0, <1>2, <1>4, <2>1, <2>4, <2>5
  <2> QED BY <1>0, <2>3, <2>6 DEF FuOncePerStep
<1>5. CASE proceed(ready)
  <2>1. done' = {} /\ "element" \in ready \cup done /\ send_ctrl_val
    BY <1>5 DEF proceed, already_done, send_ctrl_rdy, Modules
  <2>2. fires(ready) <=> "element" \notin done /\ ~InPrologue
    BY <2>1 DEF fires, recv_opt_val
  <2>3. ops = due + (IF "element" \in done /\ ~InPrologue THEN 1 ELSE 0)
    BY <2>1 DEF FuOncePerStep
  <2>4. ops' = due'
    BY <1>0, <1>2, <1>5, <2>2, <2>3
  <2>5. ops' = due' + 0
    BY <1>0, <1>2, <2>4
  <2> QED BY <2>1, <2>5 DEF FuOncePerStep
<1> QED BY <1>3, <1>4, <1>5, StepSignals

LEMMA PrologueSteps ==
  ASSUME ~AnyOrder, JobInv, PrologueOrder, FuOncePerStep,
         NEW p \in Arrivals, NEW ready \in Ready, NEW ctl_rdy \in Taking,
         NEW uses \in Uses, NEW push \in Pushes(ready),
         Cycle(p, ready, uses, push, ctl_rdy)
  PROVE  (PrologueOrder /\ FuOncePerStep)'
<1> USE DEF Cycle
<1>0. TypeOK /\ JobOrder /\ TypeOK'
  BY TypeSteps DEF JobInv, ControlInv
<1>1. CASE rearm
  <2>1. ops' = 0 /\ due' = 0 /\ done' = {}
    BY <1>1 DEF History, already_done
  <2>2. \A a \in Addr : prologue'[a] = 0
    BY <1>1 DEF update_raddr_and_fu_prologue, rearm, HeadIs
  <2>3. ~HeadIs("PROLOGUE_FU")' /\ ~HeadIs("LOWER_BOUND")'
    BY <1>1, QueueAfter, Arrival
  <2> QED BY <2>1, <2>2, <2>3 DEF PrologueOrder, FuOncePerStep
<1>2. CASE ~rearm /\ ~rearm'
  <2>1. prologued' = (prologued \/ (Accepts(p) /\ p.cmd = "PROLOGUE_FU"))
    BY <1>2, QueueAfter DEF History, rearm
  <2>2. HeadIs("PROLOGUE_FU")' => prologued'
    BY <2>1, QueueAfter
  <2>3. ASSUME NEW a \in Addr, prologue'[a] # 0 PROVE prologued'
    <3>1. prologue[a] # 0 \/ HeadIs("PROLOGUE_FU")
      <4> SUFFICES ASSUME prologue[a] = 0, ~HeadIs("PROLOGUE_FU") PROVE prologue'[a] = 0
        BY <2>3
      <4>1. ~(prologue[a] > 0)
        OBVIOUS
      <4>2. \/ prologue' = prologue
            \/ prologue' = [b \in Addr |->
                 IF proceed(ready) /\ b = raddr /\ prologue[b] > 0 THEN prologue[b] - 1
                 ELSE IF HeadIs("PROLOGUE_FU") /\ queue[1].addr = b THEN queue[1].n
                 ELSE prologue[b]]
        BY <1>2, Zenon DEF update_raddr_and_fu_prologue
      <4> QED BY <4>1, <4>2, Zenon
    <3> QED BY <1>2, <2>1, <3>1 DEF PrologueOrder
  <2>4. HeadIs("LOWER_BOUND")' => ~prologued'
    <3> SUFFICES ASSUME HeadIs("LOWER_BOUND")' PROVE ~prologued'
      OBVIOUS
    <3>1. Accepts(p) /\ p.cmd = "LOWER_BOUND"
      BY QueueAfter
    <3>2. ~prologued
      BY <3>1, Arrival DEF Sendable
    <3> QED BY <2>1, <3>1, <3>2
  <2>5. CASE ~start
    <3>1. ops' = due' /\ done' \subseteq {r \in {"element"} : InPrologue'}
      BY <1>2, <2>5, IdleFlags
    <3>2. ops' = due' + 0
      BY <1>0, <3>1 DEF TypeOK
    <3> QED BY <2>2, <2>3, <2>4, <3>1, <3>2 DEF PrologueOrder, FuOncePerStep
  <2>6. CASE start
    <3>1. start'
      BY <1>2, <2>6 DEF start_iterate_ctrl
    <3> QED BY <1>2, <2>2, <2>3, <2>4, <2>6, <3>1, RunningOps DEF PrologueOrder
  <2> QED BY <2>5, <2>6
<1>3. CASE rearm'
  BY <1>3 DEF PrologueOrder, FuOncePerStep
<1> QED BY <1>1, <1>2, <1>3

(* In every step outside its prologue the FU acts exactly once, whatever   *)
(* the order in which FU and crossbars finish, if the start address of a   *)
(* job is configured before the prologues (the finding is what happens     *)
(* otherwise).                                                             *)
THEOREM FuActsOnce ==
  ASSUME ~AnyOrder
  PROVE  Spec => []FuOncePerStep
<1>1. JobInv /\ PrologueOrder /\ FuOncePerStep /\ [Next]_vars
        => (JobInv /\ PrologueOrder /\ FuOncePerStep)'
  <2> SUFFICES ASSUME JobInv, PrologueOrder, FuOncePerStep, [Next]_vars
               PROVE  (PrologueOrder /\ FuOncePerStep)'
    BY JobSteps
  <2>1. CASE Next
    <3> PICK p \in Arrivals, ready \in Ready, ctl_rdy \in Taking :
          \E uses \in Uses, push \in Pushes(ready) : Cycle(p, ready, uses, push, ctl_rdy)
      BY <2>1 DEF Next
    <3> PICK uses \in Uses, push \in Pushes(ready) :
          Cycle(p, ready, uses, push, ctl_rdy)
      OBVIOUS
    <3> QED BY PrologueSteps
  <2>2. CASE UNCHANGED vars
    BY <2>2 DEF vars, job, run, PrologueOrder, FuOncePerStep, rearm, HeadIs, InPrologue,
                send_ctrl_val, AllStepsDone
  <2> QED BY <2>1, <2>2
<1> QED BY <1>1, Starts, PTL DEF Spec
=============================================================================
