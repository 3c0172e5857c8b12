---------------------------- MODULE TileControl ----------------------------
(***************************************************************************)
(* How a tile runs a job: the ctrl memory (mem/ctrl/CtrlMemDynamicRTL.py)  *)
(* with its packet queue and sequencer, the constant queue                 *)
(* (mem/const/ConstQueueDynamicRTL.py), and the glue of tile/TileRTL.py    *)
(* that feeds packets to both, orders REARM against what follows it, and   *)
(* starts and collects the three sub-modules that share every step: the    *)
(* FU ("element"), the routing crossbar and the FU crossbar.               *)
(*                                                                         *)
(* Control words are abstract: a sub-module takes any number of cycles to  *)
(* do its part of a step, the FU may take a constant and may return a      *)
(* message to the controller: the COMPLETE of a RET or RET_VOID, or one of *)
(* its other messages, which go on to other units.  All configured words   *)
(* are real operations (OPT_START would stop the sequencer).  One step is  *)
(* one clock edge.                                                         *)
(***************************************************************************)
EXTENDS Naturals, Sequences

CONSTANTS
  MemSize,     (* ctrl_mem_size, also const_mem_size, a power of two       *)
  Counts,      (* values of CMD_CONFIG_COUNT_PER_ITER                      *)
  Totals,      (* values of CMD_CONFIG_TOTAL_CTRL_COUNT                    *)
  Prologues,   (* values of CMD_CONFIG_PROLOGUE_FU                         *)
  AnyOrder     (* the controller may send CMD_CONFIG_CTRL_LOWER_BOUND after*)
               (* a CMD_CONFIG_PROLOGUE_FU of the same job                 *)

Addr == 0 .. (MemSize - 1)

ASSUME TileControlAssumption ==
  /\ MemSize \in Nat \ {0}
  /\ Counts \subseteq 1 .. MemSize
  /\ Totals \subseteq Nat \ {0}
  /\ Prologues \subseteq Nat \ {0}
  /\ AnyOrder \in BOOLEAN

Modules == {"element", "routing", "fu"}

Packet ==
  [cmd : {"REARM", "LAUNCH", "CONST"}] \cup
  [cmd : {"LOWER_BOUND"}, n : Addr] \cup
  [cmd : {"COUNT_PER_ITER"}, n : Counts] \cup
  [cmd : {"TOTAL_COUNT"}, n : Totals] \cup
  [cmd : {"PROLOGUE_FU"}, addr : Addr, n : Prologues]

NoPacket == [cmd |-> "none"]

(* What the FU sends to the ctrl memory: the CMD_COMPLETE of a RET, which  *)
(* carries the value returned, or anything else.                           *)
Return == {"value", "other"}

VARIABLES
  queue,          (* recv_pkt_from_controller_queue                        *)
  rearm_pending,  (* a REARM is accepted and not yet executed              *)
  hold_data,      (* the data inports are closed                           *)
  lower, count, total,        (* ctrl_count_lower_bound, ctrl_count_per_iter_val, *)
                              (* total_ctrl_steps_val                      *)
  raddr,          (* the ctrl address in execution                         *)
  times,          (* steps done                                            *)
  prologue,       (* prologue_count_reg_fu                                 *)
  start,          (* start_iterate_ctrl                                    *)
  sent_complete,
  done,           (* sub-modules that did their part of the step           *)
  wr_cur, rd_cur, consume_pending,      (* the constant queue              *)
  returns         (* recv_from_element_queue                               *)

VARIABLES         (* history: what the controller and the job have done    *)
  phase,          (* "config", "launched" or "complete"                    *)
  prologued,      (* a PROLOGUE_FU was sent since the last REARM           *)
  given,          (* constants sent since the last REARM                   *)
  used,           (* the step in progress has taken a constant             *)
  taken,          (* completed steps that took a constant                  *)
  due, ops,       (* completed steps outside the FU prologue, and FU       *)
                  (* operations performed                                  *)
  ret,            (* the job has performed a RET                           *)
  told            (* the COMPLETEs the controller has taken of this job:   *)
                  (* "value" from a RET, "bare" from the ctrl memory       *)

job == <<lower, count, total, raddr, times, prologue>>
run == <<start, sent_complete, done, returns>>
consts == <<wr_cur, rd_cur, consume_pending>>
vars == <<queue, rearm_pending, hold_data, job, run, consts,
          phase, prologued, given, used, taken, due, ops, ret, told>>
-----------------------------------------------------------------------------
(* Combinational signals. *)

HeadIs(c) == queue # <<>> /\ queue[1].cmd = c

rearm == HeadIs("REARM")

AllStepsDone == total > 0 /\ times = total

send_ctrl_val == start /\ ~sent_complete /\ ~AllStepsDone /\ ~rearm

InPrologue == prologue[raddr] # 0

recv_opt_val(m) == send_ctrl_val /\ m \notin done

(* The sub-modules that may report the end of their part in this cycle.    *)
(* An FU in its prologue reports it at once, with or without a step.       *)
Ready ==
  {r \in SUBSET Modules :
     /\ \A m \in r : recv_opt_val(m) \/ (m = "element" /\ InPrologue)
     /\ InPrologue => "element" \in r}

send_ctrl_rdy(ready) == Modules \subseteq ready \cup done
proceed(ready) == send_ctrl_val /\ send_ctrl_rdy(ready)

(* The FU performs its operation.                                          *)
fires(ready) == "element" \in ready /\ recv_opt_val("element") /\ ~InPrologue
-----------------------------------------------------------------------------
(* Packets from the controller: feed_pkt, order_rearm and hold_inputs.     *)

(* The order in which a controller programs a job: everything it           *)
(* configures comes before the launch, a launch follows a REARM unless it  *)
(* is the first, and (unless AnyOrder) the start address is set before the *)
(* prologues.                                                              *)
Sendable(p) ==
  \/ p.cmd = "REARM"
  \/ phase = "config" /\ (p.cmd = "LOWER_BOUND" /\ prologued => AnyOrder)

(* recv_from_controller_pkt.rdy                                            *)
rdy(p) ==
  /\ ~rearm_pending
  /\ IF p.cmd = "CONST" THEN wr_cur < MemSize ELSE Len(queue) < 2

Accepts(p) == p.cmd # "none" /\ rdy(p)

(* The ctrl memory takes the head of its queue in every cycle: all the     *)
(* commands that reach it have send.rdy = 1.                               *)
feed_pkt(p) ==
  LET rest == IF queue = <<>> THEN <<>> ELSE Tail(queue)
  IN  queue' = IF Accepts(p) /\ p.cmd # "CONST" THEN Append(rest, p) ELSE rest

order_rearm(p) ==
  rearm_pending' = IF rearm THEN FALSE
                   ELSE rearm_pending \/ (Accepts(p) /\ p.cmd = "REARM")

hold_inputs(p) ==
  hold_data' = IF rearm THEN TRUE
               ELSE hold_data /\ ~(Accepts(p) /\ p.cmd = "LAUNCH")
-----------------------------------------------------------------------------
(* The sequencer. *)

NextAddr == IF raddr = lower + count - 1 THEN lower ELSE (raddr + 1) % MemSize

Bug_raddr_and_fu_prologue(ready) ==   \* the bound is seen one step late
  CASE rearm ->
         /\ times' = 0
         /\ raddr' = lower
         /\ prologue' = [a \in Addr |-> 0]
    [] HeadIs("LOWER_BOUND") ->
         /\ raddr' = queue[1].n
         /\ UNCHANGED <<times, prologue>>
    [] OTHER ->
         /\ times' = IF proceed(ready) THEN times + 1 ELSE times
         /\ raddr' = IF ~proceed(ready) THEN raddr
                     ELSE IF raddr = lower + count THEN lower
                     ELSE (raddr + 1) % MemSize
         /\ prologue' =
              [a \in Addr |->
                 IF proceed(ready) /\ a = raddr /\ prologue[a] > 0 THEN prologue[a] - 1
                 ELSE IF HeadIs("PROLOGUE_FU") /\ queue[1].addr = a THEN queue[1].n
                 ELSE prologue[a]]

update_raddr_and_fu_prologue(ready) ==
  CASE rearm ->
         /\ times' = 0
         /\ raddr' = lower
         /\ prologue' = [a \in Addr |-> 0]
    [] HeadIs("LOWER_BOUND") ->        \* whatever completes in this cycle
         /\ raddr' = queue[1].n
         /\ UNCHANGED <<times, prologue>>
    [] OTHER ->
         /\ times' = IF proceed(ready) THEN times + 1 ELSE times
         /\ raddr' = IF proceed(ready) THEN NextAddr ELSE raddr
         /\ prologue' =
              [a \in Addr |->
                 IF proceed(ready) /\ a = raddr /\ prologue[a] > 0 THEN prologue[a] - 1
                 ELSE IF HeadIs("PROLOGUE_FU") /\ queue[1].addr = a THEN queue[1].n
                 ELSE prologue[a]]

update_bounds ==
  /\ lower' = IF HeadIs("LOWER_BOUND") THEN queue[1].n ELSE lower
  /\ count' = IF HeadIs("COUNT_PER_ITER") THEN queue[1].n ELSE count
  /\ total' = IF HeadIs("TOTAL_COUNT") THEN queue[1].n ELSE total

start_iterate_ctrl == start' = (~rearm /\ (start \/ HeadIs("LAUNCH")))

Bug_already_done(ready) ==     \* REARM leaves the flags of the old step
  done' = IF send_ctrl_rdy(ready) THEN {} ELSE done \cup ready

Bug_already_done_now(ready) ==     \* the flags only say who is ready now
  done' = IF send_ctrl_rdy(ready) \/ rearm THEN {} ELSE ready

already_done(ready) ==
  done' = IF send_ctrl_rdy(ready) \/ rearm THEN {} ELSE done \cup ready
-----------------------------------------------------------------------------
(* Towards the controller: messages of the FU first, then COMPLETE. *)

SendsReturn == start /\ ~rearm /\ ~sent_complete /\ returns # <<>>

Bug_SendsComplete == start /\ ~rearm /\ ~sent_complete /\ AllStepsDone

SendsComplete == start /\ ~rearm /\ ~sent_complete /\ AllStepsDone /\ returns = <<>>

(* A COMPLETE of either origin is taken by the controller.                 *)
Completes(ctl_rdy) ==
  /\ ctl_rdy
  /\ SendsComplete \/ (SendsReturn /\ Head(returns) = "value")

(* After it no step is issued and nothing is sent, whatever is left.       *)
issue_complete(ctl_rdy) ==
  sent_complete' =
    (~rearm /\ (Completes(ctl_rdy) \/ (sent_complete /\ ~HeadIs("LAUNCH"))))

element_queue(push, ctl_rdy) ==
  LET rest == IF SendsReturn /\ ctl_rdy THEN Tail(returns) ELSE returns
  IN  returns' = IF rearm THEN <<>>
                 ELSE IF push = "none" THEN rest ELSE Append(rest, push)
-----------------------------------------------------------------------------
(* The constant queue: read cyclically, one constant per consuming step.   *)

(* An empty queue is read too: rdy counts, whatever val says, and wr_cur-1 *)
(* wraps.                                                                  *)
NextConst ==
  IF wr_cur = 0 THEN (rd_cur + 1) % MemSize
  ELSE IF rd_cur + 1 < wr_cur THEN rd_cur + 1 ELSE 0

Retires(uses, ready) == (consume_pending \/ uses) /\ proceed(ready)

Bug_const_queue(p, uses, ready) ==    \* only a consumption in the cycle of
  IF rearm                            \* ctrl_proceed advances the cursor
    THEN wr_cur' = 0 /\ rd_cur' = 0 /\ consume_pending' = FALSE
    ELSE /\ wr_cur' = IF Accepts(p) /\ p.cmd = "CONST" THEN wr_cur + 1 ELSE wr_cur
         /\ rd_cur' = IF uses /\ proceed(ready) THEN NextConst ELSE rd_cur
         /\ consume_pending' = FALSE

const_queue(p, uses, ready) ==
  IF rearm
    THEN wr_cur' = 0 /\ rd_cur' = 0 /\ consume_pending' = FALSE
    ELSE /\ wr_cur' = IF Accepts(p) /\ p.cmd = "CONST" THEN wr_cur + 1 ELSE wr_cur
         /\ rd_cur' = IF Retires(uses, ready) THEN NextConst ELSE rd_cur
         /\ consume_pending' = ((consume_pending \/ uses) /\ ~proceed(ready))
-----------------------------------------------------------------------------
History(p, uses, push, ready, ctl_rdy) ==
  LET again == Accepts(p) /\ p.cmd = "REARM"
      bit(b) == IF b THEN 1 ELSE 0
  IN  /\ phase' = CASE again                           -> "config"
                    [] Accepts(p) /\ p.cmd = "LAUNCH"  -> "launched"
                    [] ~again /\ Completes(ctl_rdy)     -> "complete"
                    [] OTHER                           -> phase
      /\ prologued' = (~again /\ (prologued \/ (Accepts(p) /\ p.cmd = "PROLOGUE_FU")))
      /\ given' = IF again THEN 0 ELSE given + bit(Accepts(p) /\ p.cmd = "CONST")
      /\ used' = (~rearm /\ ~proceed(ready) /\ (used \/ uses))
      /\ taken' = IF rearm THEN 0 ELSE taken + bit((used \/ uses) /\ proceed(ready))
      /\ due' = IF rearm THEN 0 ELSE due + bit(proceed(ready) /\ ~InPrologue)
      /\ ops' = IF rearm THEN 0 ELSE ops + bit(fires(ready))
      /\ ret' = (~rearm /\ (ret \/ push = "value"))
      /\ told' = IF rearm THEN <<>>
                 ELSE IF Completes(ctl_rdy)
                   THEN Append(told, IF SendsComplete THEN "bare" ELSE "value")
                 ELSE told

Init ==
  /\ queue = <<>>
  /\ rearm_pending = FALSE
  /\ hold_data = FALSE
  /\ lower = 0
  /\ count \in Counts
  /\ total \in Totals
  /\ raddr = 0
  /\ times = 0
  /\ prologue = [a \in Addr |-> 0]
  /\ start = FALSE
  /\ sent_complete = FALSE
  /\ done = {}
  /\ wr_cur = 0
  /\ rd_cur = 0
  /\ consume_pending = FALSE
  /\ returns = <<>>
  /\ phase = "config"
  /\ prologued = FALSE
  /\ given = 0
  /\ used = FALSE
  /\ taken = 0
  /\ due = 0
  /\ ops = 0
  /\ ret = FALSE
  /\ told = <<>>

(* What may happen in a cycle: the packet accepted, whether the FU is      *)
(* ready for a constant (in the cycle of its operation or, as an INC or a  *)
(* memory access, while it still waits for something else), whether its    *)
(* operation returns a message, whether the controller takes one.          *)
Arrivals == {p \in Packet : Sendable(p) /\ Accepts(p)} \cup {NoPacket}
Uses == {u \in BOOLEAN : u => recv_opt_val("element") /\ ~InPrologue}
Pushes(ready) ==
  {m \in Return \cup {"none"} : m # "none" => fires(ready) /\ Len(returns) < 2}
Taking == {t \in BOOLEAN : t => SendsReturn \/ SendsComplete}

(* One clock edge.                                                         *)
Cycle(p, ready, uses, push, ctl_rdy) ==
  /\ feed_pkt(p)
  /\ order_rearm(p)
  /\ hold_inputs(p)
  /\ update_raddr_and_fu_prologue(ready)
  /\ update_bounds
  /\ start_iterate_ctrl
  /\ already_done(ready)
  /\ issue_complete(ctl_rdy)
  /\ element_queue(push, ctl_rdy)
  /\ const_queue(p, uses, ready)
  /\ History(p, uses, push, ready, ctl_rdy)

Next ==
  \E p \in Arrivals, ready \in Ready, ctl_rdy \in Taking :
    \E uses \in Uses, push \in Pushes(ready) :
      Cycle(p, ready, uses, push, ctl_rdy)

Spec == Init /\ [][Next]_vars

(* The clock runs, every sub-module finishes its part, and the controller  *)
(* takes messages.                                                         *)
Finishes(m) ==
  \E p \in Arrivals, ctl_rdy \in Taking, ready \in {r \in Ready : m \in r} :
    \E uses \in Uses, push \in Pushes(ready) :
      Cycle(p, ready, uses, push, ctl_rdy)

Reports ==
  \E p \in Arrivals, ready \in Ready :
    \E uses \in Uses, push \in Pushes(ready) :
      (SendsReturn \/ SendsComplete) /\ Cycle(p, ready, uses, push, TRUE)

FairSpec ==
  /\ Spec
  /\ WF_vars(Next)
  /\ \A m \in Modules : WF_vars(Finishes(m))
  /\ WF_vars(Reports)
-----------------------------------------------------------------------------
TypeOK ==
  /\ queue \in Seq(Packet)
  /\ {rearm_pending, hold_data, start, sent_complete, consume_pending, prologued, used,
       ret} \subseteq BOOLEAN
  /\ {lower, raddr} \subseteq Addr
  /\ count \in Counts /\ total \in Totals
  /\ prologue \in [Addr -> Nat]
  /\ done \subseteq Modules
  /\ wr_cur \in 0 .. MemSize /\ rd_cur \in Addr
  /\ returns \in Seq(Return) /\ Len(returns) <= 2
  /\ told \in Seq({"value", "bare"})
  /\ phase \in {"config", "launched", "complete"}
  /\ {times, given, taken, due, ops} \subseteq Nat

(* The packet queue never backs up and a REARM leaves it at once: no       *)
(* configuration of the next job can wait behind a job that runs.          *)
QueueDrains == Len(queue) <= 1 /\ (rearm_pending <=> rearm)

(* A job never runs past its end, and the ctrl address follows the number  *)
(* of completed steps around the configured window: what a REARM, a bound  *)
(* or a launch do to raddr, times and the window keeps them in step.       *)
AddressSequence ==
  /\ times <= total \/ phase = "config"
  /\ start /\ lower + count <= MemSize => raddr = lower + (times % count)

ControlInv == TypeOK /\ QueueDrains /\ AddressSequence

(* In every step outside its prologue the FU performs its operation        *)
(* exactly once, whatever the order in which FU and crossbars finish       *)
(* ("allows the ctrl signal proceed till all the sub-modules done their    *)
(* own job (once)", update_opt).  That includes the step a RET leaves      *)
(* unfinished, whose crossbars are stopped by its COMPLETE.                *)
FuOncePerStep ==
  ~rearm => ops = due + (IF start /\ "element" \in done /\ ~InPrologue THEN 1 ELSE 0)

(* The k-th consuming step reads constant k modulo the number of constants *)
(* of this job: none is skipped when the rest of the tile finishes later   *)
(* than the FU, and none is lost to the REARM that precedes it.            *)
ConstInOrder ==
  ~rearm_pending => wr_cur = given /\ (wr_cur > 0 => rd_cur = taken % wr_cur)

(* The controller is told once that a job is complete, although two parts  *)
(* of the tile may say it.  Of a job that performed a RET it gets the      *)
(* RET's COMPLETE, so that the value is never overtaken by the COMPLETE of *)
(* the ctrl memory, and of several RETs only the first one's; of any other *)
(* job it gets the bare one, after exactly total steps and behind          *)
(* everything the FU returned.                                             *)
CompleteOnce ==
  ~rearm =>
    /\ phase = "complete" <=> told # <<>>
    /\ told # <<>> => /\ told = <<IF ret THEN "value" ELSE "bare">>
                      /\ ret \/ (times = total /\ returns = <<>>)

(* A launched job completes, unless it is rearmed.                         *)
JobCompletes == phase = "launched" ~> phase # "launched"
=============================================================================
