------------------------------ MODULE Crossbar ------------------------------
(***************************************************************************)
(* noc/CrossbarRTL.py under the schedule a tile gives it (tile/TileRTL.py, *)
(* update_opt and already_done).  A step offers the crossbar the route of  *)
(* one ctrl address until its part is done (recv_opt.rdy), after which the *)
(* crossbar sits idle till the rest of the tile finishes too.              *)
(*                                                                         *)
(* One message may have to reach several outports, which become ready in   *)
(* different cycles; and for the first few executions of an address the    *)
(* inports configured with a prologue are skipped.                         *)
(***************************************************************************)
EXTENDS Naturals, CrossbarLogic

CONSTANTS
  Addr,        (* ctrl addresses                                           *)
  Data,        (* message payloads                                         *)
  MaxPrologue, (* the largest prologue count                               *)
  Empty        (* an inport with no message                                *)

ASSUME CrossbarAssumption == MaxPrologue \in Nat /\ Empty \notin Data /\ None \notin Data

VARIABLES
  route,       (* crossbar_outport per ctrl address                        *)
  limit,       (* prologue_count_inport                                    *)
  counter,     (* prologue_counter                                         *)
  addr,        (* ctrl_addr_inport                                         *)
  busy,        (* recv_opt.val: a step waits for this crossbar             *)
  compute_done,(* the FU has finished its part of the step                 *)
  recv_data,   (* the message each inport offers, or Empty                 *)
  rdy,         (* the outports whose receivers are ready in this cycle     *)
  send_accepted,
  got,         (* what each outport received in this step (history)        *)
  runs         (* completed executions per address, up to the largest      *)
               (* prologue (history)                                       *)

config == <<route, limit>>
vars == <<config, counter, addr, busy, compute_done, recv_data, rdy,
          send_accepted, got, runs>>

Valid == {i \in In : recv_data[i] # Empty}

Prologue == {i \in In : counter[addr][i] < limit[addr][i]}

dir == route[addr]

Required == send_required(dir, Prologue)
Offered == IF busy THEN offered(dir, Prologue, Valid, send_accepted) ELSE {}
Finishes == busy /\ opt_rdy(dir, Prologue, Valid, rdy, send_accepted, compute_done)
Dequeued ==
  IF busy THEN dequeued(dir, Prologue, Valid, rdy, send_accepted, compute_done) ELSE {}
-----------------------------------------------------------------------------
(* Every completed step counts, for every inport its route uses.           *)
Bug_update_prologue_counter ==       \* counts messages, not steps
  counter' = [counter EXCEPT ![addr] = [i \in In |->
                IF /\ Finishes /\ i \in Valid
                   /\ \E o \in Out : dir[o] = i
                   /\ counter[addr][i] < limit[addr][i]
                  THEN counter[addr][i] + 1 ELSE counter[addr][i]]]

update_prologue_counter ==
  counter' = [counter EXCEPT ![addr] = [i \in In |->
                IF /\ Finishes
                   /\ \E o \in Out : dir[o] = i
                   /\ counter[addr][i] < limit[addr][i]
                  THEN counter[addr][i] + 1 ELSE counter[addr][i]]]

update_send_accepted ==
  send_accepted' =
    IF busy THEN send_accepted_next(dir, Prologue, Valid, rdy, send_accepted, compute_done)
            ELSE {}

(* The inports are queue heads: an offered message stays until dequeued,   *)
(* and the next one may show up at any time.                               *)
update_recv_data ==
  recv_data' \in {h \in [In -> Data \cup {Empty}] :
               \A i \in In : recv_data[i] # Empty /\ i \notin Dequeued => h[i] = recv_data[i]}

Init ==
  /\ route \in [Addr -> Route]
  /\ limit \in [Addr -> [In -> 0 .. MaxPrologue]]
  /\ counter = [a \in Addr |-> [i \in In |-> 0]]
  /\ addr \in Addr
  /\ busy = FALSE
  /\ compute_done = FALSE
  /\ recv_data = [i \in In |-> Empty]
  /\ rdy \in SUBSET Out
  /\ send_accepted = {}
  /\ got = [o \in Out |-> None]
  /\ runs = [a \in Addr |-> 0]

(* A cycle in which the crossbar works on a step.                          *)
Work ==
  /\ busy
  /\ update_prologue_counter
  /\ update_send_accepted
  /\ update_recv_data
  /\ rdy' \in SUBSET Out
  /\ busy' = ~Finishes
  /\ compute_done' \in {compute_done, TRUE}
  /\ got' = [o \in Out |-> IF o \in Offered \cap rdy THEN recv_data[dir[o]] ELSE got[o]]
  /\ runs' = [runs EXCEPT ![addr] =
                IF Finishes /\ @ < MaxPrologue THEN @ + 1 ELSE @]
  /\ UNCHANGED <<config, addr>>

(* The crossbar is done (or the tile idle); the step completes when the    *)
(* rest of the tile is done, and another address is up.                    *)
Wait ==
  /\ ~busy
  /\ update_send_accepted
  /\ update_recv_data
  /\ rdy' \in SUBSET Out
  /\ \/ busy' = FALSE /\ UNCHANGED <<addr, compute_done, got>>
     \/ /\ busy' = TRUE
        /\ addr' \in Addr
        /\ compute_done' = FALSE
        /\ got' = [o \in Out |-> None]
  /\ UNCHANGED <<config, counter, runs>>

(* REARM: no step is offered in this cycle; progress within the step and   *)
(* the prologue are forgotten, and the channels in front are cleared too.  *)
Clear ==
  /\ counter' = [a \in Addr |-> [i \in In |-> 0]]
  /\ send_accepted' = {}
  /\ recv_data' \in [In -> Data \cup {Empty}]
  /\ rdy' \in SUBSET Out
  /\ busy' = FALSE
  /\ compute_done' = FALSE
  /\ got' = [o \in Out |-> None]
  /\ runs' = [a \in Addr |-> 0]
  /\ UNCHANGED <<config, addr>>

Next ==
  \/ Work
  \/ Wait
  \/ Clear

Spec == Init /\ [][Next]_vars

(* The clock ticks; every receiver is ready again and again, not           *)
(* necessarily in the same cycle as another one; every inport gets data.   *)
FairSpec ==
  /\ Spec
  /\ WF_vars(Next)
  /\ \A o \in Out : []<>(o \in rdy)
  /\ \A i \in In : []<>(recv_data[i] # Empty)
-----------------------------------------------------------------------------
TypeOK ==
  /\ route \in [Addr -> Route]
  /\ limit \in [Addr -> [In -> 0 .. MaxPrologue]]
  /\ counter \in [Addr -> [In -> 0 .. MaxPrologue]]
  /\ addr \in Addr
  /\ busy \in BOOLEAN
  /\ compute_done \in BOOLEAN
  /\ recv_data \in [In -> Data \cup {Empty}]
  /\ rdy \subseteq Out
  /\ send_accepted \subseteq Out
  /\ got \in [Out -> Data \cup {None}]
  /\ runs \in [Addr -> 0 .. MaxPrologue]

(* While a step is in progress, send_accepted is exactly the set of        *)
(* outports that received their message, each got the message its inport   *)
(* still offers, and none of them was outside the step's requirements.     *)
MulticastInProgress ==
  busy =>
    /\ send_accepted = {o \in Out : got[o] # None}
    /\ send_accepted \subseteq Required
    /\ \A o \in send_accepted : got[o] = recv_data[dir[o]]

(* An idle crossbar remembers nothing of the last step.                    *)
IdleClean == ~busy => send_accepted = {}

(* Prologue bookkeeping: a used inport is skipped exactly the configured   *)
(* number of executions of the address.                                    *)
Used(a, i) == \E o \in Out : route[a][o] = i

PrologueExact ==
  \A a \in Addr, i \in In :
    counter[a][i] = CASE ~Used(a, i)                         -> 0
                      [] Used(a, i) /\ runs[a] < limit[a][i] -> runs[a]
                      [] OTHER                               -> limit[a][i]

CrossbarInv == TypeOK /\ MulticastInProgress /\ IdleClean /\ PrologueExact

(* Nobody gets a second copy: an outport that already received its message *)
(* in this step is never offered it again, however long the others stall.  *)
NoDuplicate == \A o \in Offered : got[o] = None

(* The step ends all together: when the inputs are consumed, every outport *)
(* of the route outside its prologue has received the message at the head  *)
(* of its inport, or is an FU or register outport whose FU has finished;   *)
(* and inputs are consumed at no other time.                               *)
AllOrNothing ==
  [][ Work =>
        /\ busy' => \A i \in Valid : recv_data'[i] = recv_data[i]
        /\ ~busy' => \A o \in Required :
             \/ got'[o] = recv_data[dir[o]]
             \/ compute_done /\ o \in LocalOut /\ got'[o] = None ]_vars

(* val/rdy discipline towards the receivers: an offer that is not taken is *)
(* repeated with the same message.  Only the end of the step by            *)
(* compute_done withdraws an offer, and only towards the FU.               *)
OfferHeld ==
  [][ \A o \in Offered :
        Work /\ o \notin rdy =>
          \/ o \in Offered' /\ recv_data'[dir[o]] = recv_data[dir[o]]
          \/ compute_done /\ o \in LocalOut ]_vars

(* A step always gets through the crossbar although its receivers may      *)
(* never be ready in the same cycle: send_accepted remembers who is served.*)
StepCompletes == busy ~> ~busy
=============================================================================
