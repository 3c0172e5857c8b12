------------------------------ MODULE LoopNest ------------------------------
(***************************************************************************)
(* A loop nest at work: the loop controller, the loop counters of the      *)
(* tiles, and what lies between them.  Commands reach a counter, and       *)
(* completions the controller, after any delay; a command that is not      *)
(* taken stalls the dispatch, and a completion that no RUNNING CCU matches *)
(* waits in front of those behind it.  A remote counter belongs to another *)
(* CGRA; its completions come in as LC_CHILD_COMPLETE.                     *)
(*                                                                         *)
(* A nest is the sequence of configuration commands the CPU sends, a       *)
(* launch at its end; the tiles may start before or after it.              *)
(***************************************************************************)
EXTENDS LoopController

CONSTANTS
  Nests,      (* sequences of configuration commands                       *)
  NoShadow

VARIABLES
  nest,       (* the configuration being run                               *)
  pc,         (* commands of it sent so far                                *)
  to_dcu,     (* commands under way to the counter at an address           *)
  from_tile,  (* addresses of completed local leaf loops, in order         *)
  from_remote,                          (* completions of remote leaves    *)
  leaf_current_value, already_done, shadow,
  runs        (* history: completions reported by each leaf                *)

Dcu == INSTANCE LoopCounter

dcu_vars == <<leaf_current_value, already_done, shadow>>
nest_vars == <<nest, pc>>
links == <<to_dcu, from_tile, from_remote>>
loop_vars == <<lc_vars, nest_vars, links, dcu_vars, runs>>
-----------------------------------------------------------------------------
TargetsOf(n, c) == {j \in 1 .. Len(n) : n[j].cmd = "TARGET" /\ n[j].ccu = c}
LeavesIn(n, c) == {n[j].target : j \in {i \in TargetsOf(n, c) : ~n[i].target.shadow}}
LeavesOf(c) == LeavesIn(nest, c)
DeliveriesOf(c) == {nest[j].target.addr : j \in {i \in TargetsOf(nest, c) : nest[i].target.shadow}}
Leaves == UNION {LeavesOf(c) : c \in CCU}

NestInit ==
  /\ LcInit
  /\ Dcu!CounterInit
  /\ nest \in Nests
  /\ pc = 0
  /\ to_dcu = [a \in Addr |-> <<>>]
  /\ from_tile = <<>>
  /\ from_remote = <<>>
  /\ runs = [a \in Addr |-> 0]

(* One cycle of the controller in which a configuration command comes in,  *)
(* the dispatched command is accepted, or completions are at its inputs.   *)
Cycle(config, sent, tile, remote) ==
  LET m == IF config THEN nest[pc + 1] ELSE NoConfig
      ev == IF tile /\ from_tile # <<>>
              THEN [valid |-> can_match(Head(from_tile)), addr |-> Head(from_tile)]
              ELSE [valid |-> FALSE]
      remote_ev == remote /\ has_running
  IN  /\ config => pc < Len(nest)
      /\ sent => Dispatching # {} /\ to_dcu[active_target.addr] = <<>>
      /\ tile => from_tile # <<>>
      /\ remote => from_remote # <<>>
      /\ update_ccu_ff(m, sent, ev, remote_ev)
      /\ pc' = IF config THEN pc + 1 ELSE pc
      /\ to_dcu' = IF sent THEN [to_dcu EXCEPT ![active_target.addr] = <<dispatched>>]
                   ELSE to_dcu
      /\ from_tile' = IF ev.valid THEN Tail(from_tile) ELSE from_tile
      /\ from_remote' = IF remote_ev THEN Tail(from_remote) ELSE from_remote
      /\ UNCHANGED <<nest, dcu_vars, runs>>

LeafCounts(l) == Dcu!Count(l.addr) /\ UNCHANGED <<lc_vars, nest_vars, links, runs>>

LeafCompletes(l) ==
  /\ Dcu!Complete(l.addr)
  /\ IF l.remote
       THEN from_remote' = Append(from_remote, l.addr) /\ UNCHANGED from_tile
       ELSE from_tile' = Append(from_tile, l.addr) /\ UNCHANGED from_remote
  /\ runs' = [runs EXCEPT ![l.addr] = @ + 1]
  /\ UNCHANGED <<lc_vars, nest_vars, to_dcu>>

DcuReceives(a) ==
  /\ to_dcu[a] # <<>>
  /\ Dcu!Receive(Head(to_dcu[a]))
  /\ to_dcu' = [to_dcu EXCEPT ![a] = Tail(@)]
  /\ UNCHANGED <<lc_vars, nest_vars, from_tile, from_remote, runs>>

NestNext ==
  \/ \E config, sent, tile, remote \in BOOLEAN : Cycle(config, sent, tile, remote)
  \/ \E l \in Leaves : LeafCounts(l) \/ LeafCompletes(l)
  \/ \E a \in Addr : DcuReceives(a)

NestSpec == NestInit /\ [][NestNext]_loop_vars

(* The CPU sends its commands, every message arrives, the links take what  *)
(* the controller dispatches and the tiles keep running.                   *)
NestFairness ==
  /\ WF_loop_vars(\E sent, tile, remote \in BOOLEAN : Cycle(TRUE, sent, tile, remote))
  /\ WF_loop_vars(\E config, tile, remote \in BOOLEAN : Cycle(config, TRUE, tile, remote))
  /\ WF_loop_vars(\E config, sent, remote \in BOOLEAN : Cycle(config, sent, TRUE, remote))
  /\ WF_loop_vars(\E config, sent, tile \in BOOLEAN : Cycle(config, sent, tile, TRUE))
  /\ WF_loop_vars(\E l \in Leaves : LeafCounts(l))
  /\ \A a \in Addr : WF_loop_vars(\E l \in {k \in Leaves : k.addr = a} : LeafCompletes(l))
  /\ \A a \in Addr : WF_loop_vars(DcuReceives(a))

NestFairSpec == NestSpec /\ NestFairness
-----------------------------------------------------------------------------
NestLaunched == pc = Len(nest)

ResetPending(a) == to_dcu[a] # <<>> /\ Head(to_dcu[a]).cmd = "RESET_LEAF"

(* The leaf ran the current iteration; the controller has counted it.      *)
Finished(a) == already_done[a] /\ ~ResetPending(a)
Counted(a) ==
  Finished(a) /\ \A i \in 1 .. Len(from_tile \o from_remote) : (from_tile \o from_remote)[i] # a

SubLoops(c) == {d \in CCU : d # c /\ d \in Children(c) /\ LeavesOf(d) # {}}

iteration(c) == (value[c] - cfg[c].lower) \div cfg[c].step
TripCount(c) == (cfg[c].upper - cfg[c].lower + cfg[c].step - 1) \div cfg[c].step

(* A proper nest: what keeps the controller's counts apart.  CPU commands  *)
(* set each register once and end with the launch.  No two targets share   *)
(* an address; the dispatch index can hold the number of targets; a loop   *)
(* has an iteration and its value does not wrap.  A CCU drives leaves, and *)
(* waits for as many completions, or it is a root over such CCUs that does *)
(* not restart them: it has one iteration.  A remote leaf is the business  *)
(* of the only CCU in use, since every RUNNING CCU counts its completions, *)
(* and then there are no local leaves, which could be counted with it.     *)
NestCommand ==
  [cmd : {"LOWER", "UPPER", "STEP"}, ccu : CCU, n : 0 .. (ValueLimit - 1)]
    \cup [cmd : {"CHILD_COUNT"}, ccu : CCU, n : 0 .. (CountLimit - 1)]
    \cup [cmd : {"PARENT"}, ccu : CCU, root : BOOLEAN, parent : CCU]
    \cup [cmd : {"TARGET"}, ccu : CCU, target : Target]
    \cup [cmd : {"LAUNCH"}]

InUse(n) == {n[j].ccu : j \in 1 .. (Len(n) - 1)}
Drivers(n) == {c \in InUse(n) : LeavesIn(n, c) # {}}
Sets(n, c, register, x) ==
  \E j \in 1 .. (Len(n) - 1) : n[j].cmd = register /\ n[j].ccu = c /\ n[j].n = x
Attached(n, c, root, parent) ==
  \E j \in 1 .. (Len(n) - 1) :
    n[j].cmd = "PARENT" /\ n[j].ccu = c /\ n[j].root = root /\ n[j].parent = parent
Under(n, p) == {c \in Drivers(n) : Attached(n, c, FALSE, p)}

ProperLoop(n, c) ==
  /\ Cardinality(TargetsOf(n, c)) < MaxTargets
  /\ \E lower, upper, step \in 0 .. (ValueLimit - 1) :
       /\ Sets(n, c, "LOWER", lower) /\ Sets(n, c, "UPPER", upper) /\ Sets(n, c, "STEP", step)
       /\ step > 0 /\ lower < upper /\ upper + step <= ValueLimit
       /\ \/ /\ c \in Drivers(n)
             /\ Sets(n, c, "CHILD_COUNT", Cardinality(LeavesIn(n, c)))
             /\ \/ \E p \in CCU : Attached(n, c, TRUE, p)
                \/ \E p \in InUse(n) \ Drivers(n) : Attached(n, c, FALSE, p)
          \/ /\ c \notin Drivers(n) /\ lower + step >= upper
             /\ Under(n, c) # {}
             /\ Sets(n, c, "CHILD_COUNT", Cardinality(Under(n, c)))
             /\ \E p \in CCU : Attached(n, c, TRUE, p)

Proper(n) ==
  /\ n \in Seq(NestCommand) /\ Len(n) > 0
  /\ \A j \in 1 .. Len(n) : n[j].cmd = "LAUNCH" <=> j = Len(n)
  /\ \A i, j \in 1 .. (Len(n) - 1) :
       IF n[i].cmd = "TARGET" /\ n[j].cmd = "TARGET"
         THEN n[i].target.addr = n[j].target.addr => i = j
         ELSE n[i].cmd = n[j].cmd /\ n[i].ccu = n[j].ccu => i = j
  /\ \A c \in InUse(n) : ProperLoop(n, c)
  /\ \/ \A c \in Drivers(n) : \A l \in LeavesIn(n, c) : ~l.remote
     \/ /\ \A c \in Drivers(n) : \A l \in LeavesIn(n, c) : l.remote
        /\ \A c, d \in InUse(n) : c = d

(* The registers stay in range, and a finished nest is silent: with every  *)
(* root COMPLETE no completion, reset or dispatch is left that could       *)
(* disturb the next one ("goes COMPLETE without dispatching, to avoid      *)
(* generating stale completion events").                                   *)
NestInv ==
  /\ LcTypeOK
  /\ NestLaunched /\ all_loops_complete =>
       /\ from_tile = <<>> /\ from_remote = <<>>
       /\ Dispatching = {}
       /\ \A l \in Leaves : Finished(l.addr)

(* The barrier is exact: a CCU that waits has counted exactly the leaf     *)
(* loops and the inner CCUs below it that finished this iteration,         *)
(* whatever the order and the delays of completions and resets.            *)
BarrierExact ==
  \A c \in CCU : ccu_state[c] = "RUNNING" /\ (LeavesOf(c) # {} \/ SubLoops(c) # {}) =>
    received[c] = Cardinality({l \in LeavesOf(c) : Counted(l.addr)})
                  + Cardinality({d \in SubLoops(c) : ccu_state[d] = "COMPLETE"})

(* Every leaf runs once per iteration of the CCU that drives it, and a     *)
(* COMPLETE CCU has driven it exactly as often as its bounds say.          *)
IterationsExact ==
  \A c \in CCU : \A l \in LeavesOf(c) :
    /\ ccu_state[c] = "COMPLETE" => runs[l.addr] = TripCount(c)
    /\ ccu_state[c] = "RUNNING" =>
         runs[l.addr] = iteration(c) + (IF Finished(l.addr) THEN 1 ELSE 0)

(* In every iteration but the first, the shadow register of a delivery     *)
(* counter holds the value of its outer loop, or the update that brings    *)
(* it there is under way.                                                  *)
ShadowDelivered ==
  \A c \in CCU : \A a \in DeliveriesOf(c) :
    ccu_state[c] = "RUNNING" /\ value[c] # cfg[c].lower =>
      \/ to_dcu[a] = <<>> /\ shadow[a] = value[c]
      \/ to_dcu[a] # <<>> /\ Head(to_dcu[a]).data = value[c]

(* Every launched nest ends: "Repeat until i=2 >= 2 -> all complete"       *)
(* (LoopControllerRTL_test, the flow of the three-layer nest).             *)
NestCompletes == <>(NestLaunched /\ \A c \in CCU : cfg[c].root => ccu_state[c] = "COMPLETE")
=============================================================================
