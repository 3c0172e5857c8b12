-------------------------- MODULE LoopController --------------------------
(***************************************************************************)
(* The loop controller (controller/LoopControllerRTL.py): counter units    *)
(* (CCUs) that count the outer loops of a nest.  A CCU waits until         *)
(* child_count completions came in, advances its value and sends one       *)
(* command per cycle to each of its targets; at its upper bound it becomes *)
(* COMPLETE instead and notifies its parent CCU in the same cycle.         *)
(*                                                                         *)
(* Every register is written by several branches of one block at a clock   *)
(* edge; all of them read the values before the edge and the last          *)
(* write wins.                                                             *)
(***************************************************************************)
EXTENDS LoopNestShape

CCU == 0 .. (NumCCUs - 1)

VARIABLES
  cfg,           (* per CCU: lower, upper, step, child_count, targets,     *)
                 (* root and parent                                        *)
  value,         (* ccu_current_value                                      *)
  ccu_state,     (* IDLE, RUNNING, DISPATCHING or COMPLETE                 *)
  received,      (* ccu_received_complete_count                            *)
  dispatch_idx   (* ccu_dispatch_idx                                       *)

lc_vars == <<cfg, value, ccu_state, received, dispatch_idx>>

Target == [addr : Addr, remote : BOOLEAN, shadow : BOOLEAN]

CcuReset == [lower |-> 0, upper |-> 0, step |-> 0, child_count |-> 0,
             targets |-> <<>>, root |-> FALSE, parent |-> 0]

LcInit ==
  /\ cfg = [c \in CCU |-> CcuReset]
  /\ value = [c \in CCU |-> 0]
  /\ ccu_state = [c \in CCU |-> "IDLE"]
  /\ received = [c \in CCU |-> 0]
  /\ dispatch_idx = [c \in CCU |-> 0]

Bug_all_loops_complete ==           \* one complete chain is enough
  \E c \in CCU : cfg[c].root /\ ccu_state[c] \in {"IDLE", "COMPLETE"}

all_loops_complete == \A c \in CCU : cfg[c].root => ccu_state[c] \in {"IDLE", "COMPLETE"}
-----------------------------------------------------------------------------
(* Dispatch: the lowest DISPATCHING CCU sends to the target at its index.  *)

Dispatching == {c \in CCU : ccu_state[c] = "DISPATCHING"}
active == CHOOSE c \in Dispatching : \A d \in Dispatching : c <= d

(* A root without targets addresses the reset contents of target 0.        *)
active_target ==
  LET i == dispatch_idx[active] + 1
  IN  IF i <= Len(cfg[active].targets) THEN cfg[active].targets[i]
      ELSE [addr |-> 0, remote |-> FALSE, shadow |-> FALSE]

(* The command on send_to_tile or send_to_remote.                          *)
dispatched ==
  IF active_target.shadow
    THEN [cmd |-> "UPDATE_SHADOW", addr |-> active_target.addr, data |-> value[active]]
    ELSE [cmd |-> "RESET_LEAF", addr |-> active_target.addr, data |-> 0]

(* The index has as many bits as MaxTargets values need.                   *)
next_idx == (dispatch_idx[active] + 1) % MaxTargets

Bug_EndsDispatch(sent) ==           \* the last target is left out
  sent /\ next_idx >= Len(cfg[active].targets) - 1

EndsDispatch(sent) == sent /\ next_idx >= Len(cfg[active].targets)

Children(p) == {c \in CCU : ~cfg[c].root /\ cfg[c].parent = p}

(* The CCUs that the end of a dispatch takes back to their lower bound.    *)
Restarted(sent) == IF EndsDispatch(sent) THEN Children(active) ELSE {}
-----------------------------------------------------------------------------
(* Completions. *)

Bug_Matches(c, a) ==               \* a CCU in any state counts completions
  \E i \in 1 .. Len(cfg[c].targets) :
     LET t == cfg[c].targets[i] IN ~t.remote /\ ~t.shadow /\ t.addr = a

Matches(c, a) ==
  /\ ccu_state[c] = "RUNNING"
  /\ \E i \in 1 .. Len(cfg[c].targets) :
       LET t == cfg[c].targets[i] IN ~t.remote /\ ~t.shadow /\ t.addr = a

can_match(a) == \E c \in CCU : Matches(c, a)
has_running == \E c \in CCU : ccu_state[c] = "RUNNING"

new_count(c) == (received[c] + 1) % CountLimit
new_val(c) == (value[c] + cfg[c].step) % ValueLimit

(* The completion counted now is the last one of the iteration.            *)
Reaches(c) == new_count(c) >= cfg[c].child_count

Bug_Finishes(c) == new_val(c) > cfg[c].upper

Finishes(c) == new_val(c) >= cfg[c].upper

(* The CCUs that count one completion at this edge.  A CCU named twice, by *)
(* two children or by a tile event and a remote one, still counts one: all *)
(* of them write the same count.                                           *)
TileHits(ev) == IF ev.valid THEN {c \in CCU : Matches(c, ev.addr)} ELSE {}
Notified(ev) ==
  {cfg[c].parent : c \in {h \in TileHits(ev) : Reaches(h) /\ Finishes(h) /\ ~cfg[h].root}}
RemoteHits(remote_ev) == IF remote_ev THEN {c \in CCU : ccu_state[c] = "RUNNING"} ELSE {}

Counting(ev, remote_ev) == TileHits(ev) \cup Notified(ev) \cup RemoteHits(remote_ev)
-----------------------------------------------------------------------------
(* update_ccu_ff.  m is the configuration command (or NoConfig), sent says *)
(* that the dispatched command was accepted, ev and remote_ev are the      *)
(* completions consumed.                                                   *)

NoConfig == [cmd |-> "none"]

configure(m) ==
  CASE m.cmd \in {"none", "LAUNCH"} -> UNCHANGED cfg
    [] m.cmd = "LOWER"       -> cfg' = [cfg EXCEPT ![m.ccu].lower = m.n]
    [] m.cmd = "UPPER"       -> cfg' = [cfg EXCEPT ![m.ccu].upper = m.n]
    [] m.cmd = "STEP"        -> cfg' = [cfg EXCEPT ![m.ccu].step = m.n]
    [] m.cmd = "CHILD_COUNT" -> cfg' = [cfg EXCEPT ![m.ccu].child_count = m.n]
    [] m.cmd = "TARGET"      -> cfg' = [cfg EXCEPT ![m.ccu].targets = Append(@, m.target)]
    [] m.cmd = "PARENT"      ->
         cfg' = [cfg EXCEPT ![m.ccu].parent = m.parent, ![m.ccu].root = m.root]

Launched(m) ==
  IF m.cmd = "LAUNCH" THEN {c \in CCU : cfg[c].targets # <<>> \/ cfg[c].root} ELSE {}

update_ccu_ff(m, sent, ev, remote_ev) ==
  LET again == Launched(m) \cup Restarted(sent)
      back == IF EndsDispatch(sent) THEN {active} ELSE {}
      counting == Counting(ev, remote_ev)
      advancing == {c \in counting : Reaches(c)}
  IN  /\ configure(m)
      /\ value' = [c \in CCU |->
           IF c \in advancing THEN new_val(c)
           ELSE IF c \in again THEN cfg[c].lower
           ELSE IF m.cmd = "LOWER" /\ m.ccu = c THEN m.n ELSE value[c]]
      /\ ccu_state' = [c \in CCU |->
           IF c \in advancing THEN IF Finishes(c) THEN "COMPLETE" ELSE "DISPATCHING"
           ELSE IF c \in again \cup back THEN "RUNNING" ELSE ccu_state[c]]
      /\ received' = [c \in CCU |->
           IF c \in counting THEN new_count(c)
           ELSE IF c \in again \cup back THEN 0 ELSE received[c]]
      /\ dispatch_idx' = [c \in CCU |->
           IF c \in {d \in advancing : ~Finishes(d)} \cup again \cup back THEN 0
           ELSE IF sent /\ c = active THEN next_idx ELSE dispatch_idx[c]]
-----------------------------------------------------------------------------
LcTypeOK ==
  /\ \A c \in CCU :
       /\ {cfg[c].lower, cfg[c].upper, cfg[c].step, value[c]} \subseteq 0 .. (ValueLimit - 1)
       /\ {cfg[c].child_count, received[c]} \subseteq 0 .. (CountLimit - 1)
       /\ cfg[c].targets \in Seq(Target) /\ Len(cfg[c].targets) <= MaxTargets
       /\ cfg[c].root \in BOOLEAN /\ cfg[c].parent \in CCU
  /\ ccu_state \in [CCU -> {"IDLE", "RUNNING", "DISPATCHING", "COMPLETE"}]
  /\ dispatch_idx \in [CCU -> 0 .. (MaxTargets - 1)]
=============================================================================
