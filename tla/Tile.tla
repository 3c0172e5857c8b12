-------------------------------- MODULE Tile --------------------------------
(***************************************************************************)
(* The data side of a tile (tile/TileRTL.py): an input channel, the        *)
(* routing crossbar, an FU lane with its register bank                     *)
(* (mem/register_cluster/RegisterClusterRTL.py), the FU                    *)
(* (fu/flexible/FlexibleFuRTL.py with NahRTL and the PAS operation of      *)
(* AdderRTL), the FU crossbar, and the link that merges the two crossbars  *)
(* towards a neighbor (noc/LinkOrRTL.py).                                  *)
(*                                                                         *)
(* The crossbars are two instances of CrossbarLogic and the bank is an     *)
(* instance of RegisterBank.  The five parts are wired combinationally:    *)
(* in one cycle a message can pass from the channel through the routing    *)
(* crossbar, the FU and the FU crossbar into a register, and back come the *)
(* ready signals.  One step is one clock edge; out_rdy, the readiness of   *)
(* the neighbor in this cycle, is the only input beside arriving data.     *)
(***************************************************************************)
EXTENDS Naturals, Sequences, RegisterWord

CONSTANT
  Careful      (* the program respects tokens, see Runnable                *)

ASSUME TileAssumption ==
  /\ None \notin Data \cup {"chan", "bank", "alu"}
  /\ Careful \in BOOLEAN

(* Ports.  "lane" is the FU operand and the bank behind it; "tile" the     *)
(* outport to the neighbor; "chan", "bank" and "alu" are the sources.      *)
Outs == {"tile", "lane"}

R == INSTANCE CrossbarLogic WITH
       In <- {"chan", "bank"}, Out <- Outs, LocalOut <- {"lane"}
F == INSTANCE CrossbarLogic WITH
       In <- {"alu"}, Out <- Outs, LocalOut <- {"lane"}

(* A ctrl word and the prologue state at its address: the routes of the    *)
(* two crossbars, the operation, whether fu_in selects the lane, the       *)
(* fields of the bank, and what the prologue still skips.                  *)
Word ==
  [routing : R!Route, fu : F!Route, op : {"NAH", "PAS"}, lane_used : BOOLEAN,
   towards : Towards, rd : Reg,
   from : {"nothing", "routing", "fu"}, wr : Reg,
   skip : SUBSET {"chan", "bank", "alu"}]

(* The words a compiler emits: one driver per outport; a PAS has an        *)
(* operand, from the bank or from the routing crossbar, and a consumer;    *)
(* the bank sends where it is read; a register write has its source routed *)
(* to the lane; prologues of connected parts agree.                        *)
Compiled(w) ==
  /\ w.routing["tile"] = None \/ w.fu["tile"] = None
  /\ w.lane_used <=> w.op = "PAS"
  /\ w.op = "PAS" <=> \E o \in Outs : w.fu[o] = "alu"
  /\ w.op = "PAS" => (w.towards \in {"fu", "both"}
                        <=> w.routing["lane"] = None \/ w.from = "routing")
  /\ (\E o \in Outs : w.routing[o] = "bank") <=> w.towards \in {"xbar", "both"}
  /\ w.from = "routing" => w.routing["lane"] = "chan"
  /\ w.from = "fu" <=> w.fu["lane"] = "alu"
  /\ w.op = "NAH" => (w.towards # "fu" /\ w.towards # "both")
  /\ "bank" \notin w.skip
  /\ "alu" \in w.skip => w.op = "PAS"
  /\ "chan" \in w.skip =>
       /\ \E o \in Outs : w.routing[o] = "chan"
       /\ w.op = "PAS" /\ w.routing["lane"] = "chan" => "alu" \in w.skip

VARIABLES
  word,            (* send_ctrl.msg with the prologue state                *)
  active,          (* send_ctrl.val                                        *)
  done,            (* element_done, routing_crossbar_done, fu_crossbar_done*)
  racc, facc,      (* send_accepted of the routing and of the FU crossbar  *)
  chan,            (* the message at the channel's outlet, or None         *)
  out_rdy,         (* send_data.rdy                                        *)
  regs, token_valid, armed, skid_valid, skid_data, skid_idx,   (* the bank *)
  accepted, consumed, written, cleared,            (* history of the bank  *)
  sent,            (* sent to the neighbor in this step (history)          *)
  stored,          (* written to the bank in this step (history)           *)
  took             (* taken from the channel in this step (history)        *)

bank == <<regs, token_valid, armed, skid_valid, skid_data, skid_idx,
          accepted, consumed, written, cleared>>
step == <<done, racc, facc, sent, stored, took>>
vars == <<word, active, step, chan, out_rdy, bank>>

BankWord == [towards |-> word.towards, rd |-> word.rd,
             writes |-> word.from # "nothing", wr |-> word.wr]

Bank == INSTANCE RegisterBank WITH word <- BankWord
-----------------------------------------------------------------------------
(* The combinational network, in the direction of the data. *)

element_done == "element" \in done

Value(source) == IF source = "bank" THEN regs[word.rd] ELSE chan

RoutingValid ==
  (IF chan # None THEN {"chan"} ELSE {}) \cup
  (IF Bank!send_val("xbar") THEN {"bank"} ELSE {})

RoutingOffers ==
  IF active /\ "routing" \notin done
    THEN R!offered(word.routing, word.skip, RoutingValid, racc) ELSE {}

(* update_msgs_signals: the operand of the lane.  The bank goes first.     *)
routing_write_rdy == word.from # "routing" \/ Bank!outport_wr_rdy

operand_val ==
  Bank!send_val("fu") \/ ("lane" \in RoutingOffers /\ routing_write_rdy)

Bug_operand ==        \* the routing crossbar goes first
  IF "lane" \in RoutingOffers THEN Value(word.routing["lane"]) ELSE regs[word.rd]

operand ==
  IF Bank!send_val("fu") THEN regs[word.rd] ELSE Value(word.routing["lane"])

(* The FU; in its prologue every operation is NAH.                         *)
FuPrologue == "alu" \in word.skip
operation == IF FuPrologue THEN "NAH" ELSE word.op

fu_recv_opt_val == active /\ ~element_done
fu_send_val == fu_recv_opt_val /\ operation = "PAS" /\ operand_val

FuOffers ==
  IF active /\ "fu" \notin done
    THEN F!offered(word.fu, word.skip, IF fu_send_val THEN {"alu"} ELSE {}, facc)
    ELSE {}
-----------------------------------------------------------------------------
(* And back, the ready signals. *)

FuRdy ==
  (IF out_rdy THEN {"tile"} ELSE {}) \cup
  (IF word.from # "fu" \/ Bank!outport_wr_rdy THEN {"lane"} ELSE {})

fu_valid == IF fu_send_val THEN {"alu"} ELSE {}

fu_crossbar_rdy ==
  active /\ "fu" \notin done /\
  F!opt_rdy(word.fu, word.skip, fu_valid, FuRdy, facc, element_done)

(* recv_in.rdy of the FU and recv_opt.rdy of the element.                  *)
Bug_fu_fires == fu_send_val        \* without looking at send_out.rdy

fu_fires == fu_send_val /\ fu_crossbar_rdy /\ "alu" \in F!recv_required(word.fu, word.skip)

element_rdy == FuPrologue \/ (fu_recv_opt_val /\ operation = "NAH") \/ fu_fires

reg_towards_fu == word.towards \in {"fu", "both"}

(* recv_data_from_routing_crossbar.rdy                                     *)
lane_rdy ==
  /\ routing_write_rdy
  /\ operation = "NAH" \/ ~word.lane_used \/ reg_towards_fu \/ fu_fires

RoutingRdy ==
  (IF out_rdy THEN {"tile"} ELSE {}) \cup (IF lane_rdy THEN {"lane"} ELSE {})

routing_rdy ==
  active /\ "routing" \notin done /\
  R!opt_rdy(word.routing, word.skip, RoutingValid, RoutingRdy, racc, element_done)

Dequeues == routing_rdy /\ "chan" \in R!recv_required(word.routing, word.skip)

ready ==
  (IF element_rdy THEN {"element"} ELSE {}) \cup
  (IF routing_rdy THEN {"routing"} ELSE {}) \cup
  (IF fu_crossbar_rdy THEN {"fu"} ELSE {})

proceed == active /\ {"element", "routing", "fu"} \subseteq ready \cup done
-----------------------------------------------------------------------------
(* What crosses the tile's interfaces in this cycle. *)

RoutingSends == RoutingOffers \cap RoutingRdy
FuSends == FuOffers \cap FuRdy

(* The link ors the two drivers.                                           *)
link ==
  IF "tile" \in RoutingSends THEN Value(word.routing["tile"])
  ELSE IF "tile" \in FuSends THEN operand
  ELSE None

(* The selected source of the bank's write: val and rdy from the routing   *)
(* crossbar, val alone from the FU crossbar.                               *)
write_val ==
  \/ word.from = "routing" /\ "lane" \in RoutingSends
  \/ word.from = "fu" /\ "lane" \in FuOffers

write_data ==
  IF word.from = "routing" /\ "lane" \in RoutingOffers
    THEN Value(word.routing["lane"])
  ELSE IF word.from = "fu" /\ "lane" \in FuOffers THEN operand
  ELSE skid_data
-----------------------------------------------------------------------------
Bug_already_done ==    \* the flags only say who is ready now
  done' = IF proceed THEN {} ELSE ready

already_done ==
  done' = IF proceed THEN {} ELSE done \cup ready

Bug_crossbars ==       \* a step forgets who was served when it stalls
  /\ racc' = {}
  /\ facc' = {}

crossbars ==
  /\ racc' = IF active /\ "routing" \notin done
               THEN R!send_accepted_next(word.routing, word.skip, RoutingValid,
                                         RoutingRdy, racc, element_done)
               ELSE {}
  /\ facc' = IF active /\ "fu" \notin done
               THEN F!send_accepted_next(word.fu, word.skip, fu_valid,
                                         FuRdy, facc, element_done)
               ELSE {}

(* The channel keeps its message until it is dequeued; a new one may show  *)
(* up at any time.                                                         *)
channel ==
  chan' \in IF chan # None /\ ~Dequeues THEN {chan} ELSE Data \cup {None}

SentNow   == IF link # None THEN link ELSE sent
StoredNow == IF Bank!wr_accept(write_val) THEN write_data ELSE stored
TookNow   == IF Dequeues THEN chan ELSE took

(* The words that may be started.  A careful program reads a register that *)
(* holds a token or was never written, and overwrites a token only in the  *)
(* step that consumes it.                                                  *)
Runnable(w, tokens, written_once) ==
  Careful =>
       /\ w.towards # "nothing" => w.rd \in tokens \/ w.rd \notin written_once
       /\ w.from # "nothing" =>
            w.wr \notin tokens \/ (w.towards # "nothing" /\ w.rd = w.wr)

CompiledWords == {w \in Word : Compiled(w)}

NoStep == /\ done = {} /\ racc = {} /\ facc = {}
          /\ sent = None /\ stored = None /\ took = None

Init ==
  /\ word \in {w \in CompiledWords : w.towards = "nothing" /\ w.from = "nothing"
                                       /\ w.op = "NAH" /\ w.skip = {}}
  /\ active = FALSE
  /\ NoStep
  /\ chan = None
  /\ out_rdy \in BOOLEAN
  /\ Bank!Init

(* A cycle of a step. *)
Work ==
  /\ active
  /\ already_done
  /\ crossbars
  /\ word' = word
  /\ IF proceed
       THEN /\ active' = FALSE
            /\ sent' = None /\ stored' = None /\ took' = None
       ELSE /\ active' = TRUE
            /\ sent' = SentNow /\ stored' = StoredNow /\ took' = TookNow
  /\ Bank!StepCycle(write_val, write_data, proceed)
  /\ channel
  /\ out_rdy' \in BOOLEAN

(* The ctrl memory offers the next word.  In the code that happens at the  *)
(* edge that completes the step before; as an action of its own it adds a  *)
(* cycle in which only the channel may change.                             *)
Fetch ==
  /\ ~active
  /\ active' = TRUE
  /\ word' \in {w \in CompiledWords : Runnable(w, token_valid, armed)}
  /\ Bank!IdleCycle
  /\ UNCHANGED step
  /\ channel
  /\ out_rdy' \in BOOLEAN

(* REARM clears the step, the channel and the bank's tokens.               *)
Clear ==
  /\ active' = FALSE
  /\ word' = word
  /\ done' = {} /\ racc' = {} /\ facc' = {}
  /\ chan' = None
  /\ sent' = None /\ stored' = None /\ took' = None
  /\ Bank!ClearCycle
  /\ out_rdy' \in BOOLEAN

Next ==
  \/ Work
  \/ Fetch
  \/ Clear

Spec == Init /\ [][Next]_vars

(* The clock runs, a neighbor is ready again and again, data arrives.      *)
FairSpec ==
  /\ Spec
  /\ WF_vars(Work) /\ WF_vars(Fetch)
  /\ []<>out_rdy
  /\ []<>(chan # None)
-----------------------------------------------------------------------------
TypeOK ==
  /\ word \in CompiledWords
  /\ done \subseteq {"element", "routing", "fu"}
  /\ racc \subseteq Outs /\ facc \subseteq Outs
  /\ {chan, sent, stored, took} \subseteq Data \cup {None}
  /\ Bank!TypeOK

(* The done flags and the crossbars' memories tell the same story: a       *)
(* crossbar that is done remembers nothing, an FU that produced a result   *)
(* is done exactly when the FU crossbar has delivered all of it, and       *)
(* nothing is left between steps.                                          *)
FlagsAgree ==
  /\ "routing" \in done => racc = {}
  /\ "fu" \in done => facc = {}
  /\ word.op = "PAS" /\ ~FuPrologue => ("element" \in done <=> "fu" \in done)
  /\ ~active => done = {} /\ racc = {} /\ facc = {}

TileInv == TypeOK /\ FlagsAgree

(* What the ctrl word asks for, as if the step were a single action.       *)
InputOf(s) == IF s = "bank" THEN regs[word.rd] ELSE TookNow

FuInput == IF reg_towards_fu THEN regs[word.rd] ELSE InputOf(word.routing["lane"])

WantedAt(o) ==
  IF word.routing[o] # None /\ word.routing[o] \notin word.skip THEN InputOf(word.routing[o])
  ELSE IF word.fu[o] # None /\ ~FuPrologue THEN FuInput
  ELSE None

WantedInBank ==
  CASE word.from = "routing" /\ word.routing["lane"] \notin word.skip
                                           -> InputOf(word.routing["lane"])
    [] word.from = "fu" /\ ~FuPrologue     -> FuInput
    [] OTHER                               -> None

(* A step is atomic: when it completes, however its parts were spread over *)
(* the cycles, the neighbor got the routed value, the register its write,  *)
(* and the channel gave one message if and only if the word routes it.     *)
StepAtomic ==
  proceed =>
    /\ SentNow = WantedAt("tile")
    /\ StoredNow = WantedInBank
    /\ (TookNow # None) <=> ("chan" \in R!recv_required(word.routing, word.skip))

(* Nothing happens twice in a step: not the transfer to the neighbor,      *)
(* through whichever crossbar, not the register write, not the dequeue.    *)
ExactlyOnce ==
  /\ link # None => sent = None
  /\ Bank!wr_accept(write_val) => stored = None
  /\ Dequeues => took = None
  /\ ~("tile" \in RoutingSends /\ "tile" \in FuSends)

(* "A selected register write must also be accepted by the bank" (comment  *)
(* in update_msgs_signals): a step does not end without its register write.*)
WriteDelivered ==
  proceed /\ word.from # "nothing" => StoredNow = WantedInBank

(* A step of a careful program completes: no cyclic wait between the two   *)
(* crossbars, the FU and the bank.                                         *)
StepCompletes == active ~> ~active
-----------------------------------------------------------------------------
(* What the bank promises on its own (RegisterBank), in the tile.          *)

(* Tokens, skid and step belong together: nothing is parked for a later    *)
(* step.                                                                   *)
BankInv == Bank!BankInv

(* The bank's single write port is never needed twice in a cycle.          *)
SkidRejectsWrites == Bank!SkidRejectsWrites

(* A step that reads the register it writes does not block itself.         *)
OwnWriteNeverBlocked == Bank!OwnWriteNeverBlocked

(* What a step reads does not change under it.                             *)
ReadRepeatable == Bank!ReadRepeatable

(* The bank neither loses, repeats nor reorders a token.                   *)
ImplementsTokens == Bank!ImplementsTokens
=============================================================================
