----------------------------- MODULE TileProofs -----------------------------
(***************************************************************************)
(* Proofs about the data side of a tile, for every register bank, every    *)
(* set of values and every compiled program, careful or not.               *)
(*                                                                         *)
(* The tile's steps are steps of its bank: whatever the crossbars and the  *)
(* FU do, they hand the bank inputs its own specification allows.  So what *)
(* RegisterBankProofs proves of the bank alone holds of the bank in the    *)
(* tile, whose ctrl word is BankWord.                                      *)
(***************************************************************************)
EXTENDS Tile, TLAPS

Alone == INSTANCE RegisterBankProofs WITH word <- BankWord

(* The definitions of the bank, as Tile and as Alone see them.             *)
LEMMA SameInit == Bank!Init => Alone!Init
  BY DEF Bank!Init, Alone!Init, Bank!BankFields, Alone!BankFields, Bank!Towards, Alone!Towards

LEMMA SameTypes == Bank!TypeOK <=> Alone!TypeOK
  BY DEF Bank!TypeOK, Alone!TypeOK, Bank!BankFields, Alone!BankFields, Bank!Towards, Alone!Towards

LEMMA SameStep ==
  ASSUME NEW valid, NEW data, NEW go, Bank!StepCycle(valid, data, go)
  PROVE  Alone!StepCycle(valid, data, go)
  BY DEF Bank!StepCycle, Bank!WritePort, Bank!skid_commit, Bank!skid_target_being_read,
         Bank!reading, Bank!wr_en, Bank!wr_accept, Bank!outport_wr_rdy, Bank!Direct,
         Bank!wr_target_holds_token, Bank!wr_target_being_read, Bank!update_token_valid,
         Bank!token_set_mask, Bank!token_clear_mask, Bank!update_skid, Bank!skid_park,
         Bank!BankFields, Bank!Towards,
         Alone!StepCycle, Alone!WritePort, Alone!skid_commit, Alone!skid_target_being_read,
         Alone!reading, Alone!wr_en, Alone!wr_accept, Alone!outport_wr_rdy, Alone!Direct,
         Alone!wr_target_holds_token, Alone!wr_target_being_read, Alone!update_token_valid,
         Alone!token_set_mask, Alone!token_clear_mask, Alone!update_skid, Alone!skid_park,
         Alone!BankFields, Alone!Towards

LEMMA SameIdle == Bank!IdleCycle => Alone!IdleCycle
  BY DEF Bank!IdleCycle, Bank!WritePort, Bank!skid_commit, Bank!skid_target_being_read,
         Bank!reading, Bank!wr_en, Bank!wr_accept, Bank!outport_wr_rdy, Bank!Direct,
         Bank!wr_target_holds_token, Bank!wr_target_being_read, Bank!update_token_valid,
         Bank!token_set_mask, Bank!token_clear_mask, Bank!update_skid, Bank!skid_park,
         Bank!BankFields, Bank!Towards,
         Alone!IdleCycle, Alone!WritePort, Alone!skid_commit, Alone!skid_target_being_read,
         Alone!reading, Alone!wr_en, Alone!wr_accept, Alone!outport_wr_rdy, Alone!Direct,
         Alone!wr_target_holds_token, Alone!wr_target_being_read, Alone!update_token_valid,
         Alone!token_set_mask, Alone!token_clear_mask, Alone!update_skid, Alone!skid_park,
         Alone!BankFields, Alone!Towards

LEMMA SameClear == Bank!ClearCycle => Alone!ClearCycle
  BY DEF Bank!ClearCycle, Bank!WritePort, Bank!skid_commit, Bank!skid_target_being_read,
         Bank!reading, Bank!wr_en, Bank!wr_accept, Bank!outport_wr_rdy, Bank!Direct,
         Bank!wr_target_holds_token, Bank!wr_target_being_read, Bank!BankFields, Bank!Towards,
         Alone!ClearCycle, Alone!WritePort, Alone!skid_commit, Alone!skid_target_being_read,
         Alone!reading, Alone!wr_en, Alone!wr_accept, Alone!outport_wr_rdy, Alone!Direct,
         Alone!wr_target_holds_token, Alone!wr_target_being_read, Alone!BankFields, Alone!Towards

LEMMA SameInv == Alone!BankInv <=> BankInv
  BY SameTypes
  DEF BankInv, Bank!BankInv, Bank!TokensArmed, Bank!SkidOfThisStep, Bank!reading,
      Alone!BankInv, Alone!TokensArmed, Alone!SkidOfThisStep, Alone!reading
-----------------------------------------------------------------------------
(* What a compiled word consists of.                                       *)
LEMMA WordTyped ==
  ASSUME word \in CompiledWords
  PROVE  /\ Compiled(word)
         /\ word.routing \in [Outs -> {"chan", "bank", None}]
         /\ word.fu \in [Outs -> {"alu", None}]
         /\ word.op \in {"NAH", "PAS"}
         /\ word.towards \in Towards /\ word.rd \in Reg
         /\ word.from \in {"nothing", "routing", "fu"} /\ word.wr \in Reg
         /\ word.skip \subseteq {"chan", "bank", "alu"}
  BY DEF CompiledWords, Word, R!Route, F!Route

(* A crossbar only offers what its inport holds.                           *)
LEMMA OffersHold ==
  ASSUME TypeOK, NEW o \in Outs
  PROVE  /\ o \in RoutingOffers => Value(word.routing[o]) \in Data
         /\ o \in FuOffers => fu_send_val
<1>1. o \in RoutingOffers => Value(word.routing[o]) \in Data
  <2> SUFFICES ASSUME o \in RoutingOffers PROVE Value(word.routing[o]) \in Data
    OBVIOUS
  <2>1. word.routing[o] # None /\ word.routing[o] \in RoutingValid
    BY DEF RoutingOffers, R!offered, R!all_recv_valid, R!send_required, R!recv_required
  <2>2. word.routing[o] \in {"chan", "bank"}
    BY <2>1, WordTyped DEF TypeOK
  <2>3. CASE word.routing[o] = "bank"
    BY <2>3, WordTyped DEF Value, TypeOK, Bank!TypeOK
  <2>4. CASE word.routing[o] = "chan"
    BY <2>1, <2>4 DEF Value, TypeOK, RoutingValid
  <2> QED BY <2>2, <2>3, <2>4
<1>2. o \in FuOffers => fu_send_val
  BY WordTyped DEF FuOffers, F!offered, F!all_recv_valid, F!send_required, F!recv_required, TypeOK
<1> QED BY <1>1, <1>2

LEMMA OperandTyped == TypeOK /\ operand_val => operand \in Data
<1> SUFFICES ASSUME TypeOK, operand_val PROVE operand \in Data
  OBVIOUS
<1>1. CASE Bank!send_val("fu")
  BY <1>1, WordTyped DEF operand, TypeOK, Bank!TypeOK
<1>2. CASE ~Bank!send_val("fu")
  BY <1>2, OffersHold DEF operand, operand_val, Outs
<1> QED BY <1>1, <1>2

(* The bank's inputs are such as its specification expects.                *)
LEMMA BankInputs ==
  ASSUME TypeOK
  PROVE  write_val \in BOOLEAN /\ write_data \in Data /\ proceed \in BOOLEAN
<1>1. write_val \in BOOLEAN /\ proceed \in BOOLEAN
  BY Zenon DEF write_val, proceed
<1>2. write_data \in Data
  BY OffersHold, OperandTyped DEF write_data, fu_send_val, Outs, TypeOK, Bank!TypeOK
<1> QED BY <1>1, <1>2
-----------------------------------------------------------------------------
(* Every step of the tile is a step of its bank.                           *)
LEMMA BankSteps ==
  ASSUME TypeOK, [Next]_vars
  PROVE  [Alone!Next]_(Alone!vars)
<1>1. CASE Work
  <2>1. Bank!StepCycle(write_val, write_data, proceed)
    BY <1>1 DEF Work
  <2> QED BY <2>1, SameStep, BankInputs DEF Alone!Next
<1>2. CASE Fetch
  BY <1>2, SameIdle DEF Fetch, Alone!Next
<1>3. CASE Clear
  BY <1>3, SameClear DEF Clear, Alone!Next
<1>4. CASE UNCHANGED vars
  BY <1>4 DEF vars, bank, Alone!vars, Alone!skid, BankWord
<1> QED BY <1>1, <1>2, <1>3, <1>4 DEF Next

LEMMA SameInvAfter == Alone!BankInv' <=> BankInv'
  BY SameInv, PTL

LEMMA BankInvSteps ==
  ASSUME TypeOK, BankInv, [Next]_vars
  PROVE  BankInv'
<1>1. Alone!BankInv
  BY SameInv
<1>2. [Alone!Next]_(Alone!vars)
  BY BankSteps
<1>3. CASE Alone!Next
  <2>1. ASSUME NEW valid \in BOOLEAN, NEW go \in BOOLEAN, NEW data \in Data,
               Alone!StepCycle(valid, data, go)
        PROVE  Alone!BankInv'
    BY <1>1, <2>1, Alone!StepInv, BankAssumption
  <2>2. Alone!IdleCycle \/ Alone!ClearCycle => Alone!BankInv'
    BY <1>1, Alone!IdleInv, Alone!ClearInv, BankAssumption
  <2> QED BY <1>3, <2>1, <2>2, SameInvAfter DEF Alone!Next
<1>4. CASE UNCHANGED Alone!vars
  <2>1. Alone!BankInv'
    BY <1>1, <1>4
    DEF Alone!vars, Alone!skid, Alone!BankInv, Alone!TypeOK, Alone!TokensArmed,
        Alone!SkidOfThisStep, Alone!reading
  <2> QED BY <2>1, SameInvAfter
<1> QED BY <1>2, <1>3, <1>4

LEMMA TypeSteps ==
  ASSUME TypeOK, BankInv, [Next]_vars
  PROVE  TypeOK'
<1>0. Bank!TypeOK'
  BY BankInvSteps DEF BankInv, Bank!BankInv
<1>1. CASE Work
  <2>1. done' \subseteq {"element", "routing", "fu"}
    BY <1>1 DEF Work, already_done, ready, TypeOK
  <2>2. racc' \subseteq Outs /\ facc' \subseteq Outs
    BY <1>1 DEF Work, crossbars, R!send_accepted_next, F!send_accepted_next, R!offered, F!offered,
                R!send_required, F!send_required, TypeOK
  <2>3. chan' \in Data \cup {None}
    BY <1>1 DEF Work, channel, TypeOK
  <2>4. link \in Data \cup {None}
    <3>1. "tile" \in RoutingSends => Value(word.routing["tile"]) \in Data
      BY OffersHold DEF RoutingSends, Outs
    <3>2. "tile" \in FuSends => operand \in Data
      BY OffersHold, OperandTyped DEF FuSends, Outs, fu_send_val
    <3> QED BY <3>1, <3>2 DEF link
  <2>5. {SentNow, StoredNow, TookNow} \subseteq Data \cup {None}
    BY <2>4, BankInputs DEF SentNow, StoredNow, TookNow, TypeOK
  <2>6. {sent', stored', took'} \subseteq Data \cup {None}
    BY <1>1, <2>5 DEF Work
  <2> QED BY <1>0, <1>1, <2>1, <2>2, <2>3, <2>6 DEF TypeOK, Work
<1>2. CASE Fetch
  BY <1>0, <1>2 DEF Fetch, TypeOK, step, channel
<1>3. CASE Clear
  BY <1>0, <1>3 DEF Clear, TypeOK
<1>4. CASE UNCHANGED vars
  BY <1>0, <1>4 DEF TypeOK, vars, step
<1> QED BY <1>1, <1>2, <1>3, <1>4 DEF Next

LEMMA Starts == Init => TypeOK /\ BankInv
<1> SUFFICES ASSUME Init PROVE TypeOK /\ BankInv
  OBVIOUS
<1>1. BankInv
  BY SameInit, SameInv, Alone!InitInv, BankAssumption DEF Init
<1>2. TypeOK
  BY <1>1 DEF Init, TypeOK, NoStep, CompiledWords, BankInv, Bank!BankInv
<1> QED BY <1>1, <1>2

(* Types, and the bank in the tile keeps its tokens, its skid and the step *)
(* together.                                                               *)
THEOREM BankKept == Spec => [](TypeOK /\ BankInv)
<1>1. TypeOK /\ BankInv /\ [Next]_vars => (TypeOK /\ BankInv)'
  BY TypeSteps, BankInvSteps
<1> QED BY <1>1, Starts, PTL DEF Spec

(* The tile implements the specification of its bank.                      *)
LEMMA DrivesBank == Spec => Alone!Spec
<1>1. Init => Alone!Init
  BY SameInit DEF Init
<1>2. TypeOK /\ [Next]_vars => [Alone!Next]_(Alone!vars)
  BY BankSteps
<1> QED BY <1>1, <1>2, BankKept, PTL DEF Spec, Alone!Spec
(* A write is never accepted while the skid is occupied.                   *)
THEOREM SkidExclusive == Spec => []SkidRejectsWrites
<1>1. Alone!SkidRejectsWrites => SkidRejectsWrites
  BY DEF SkidRejectsWrites, Bank!SkidRejectsWrites, Bank!outport_wr_rdy, Bank!Direct,
         Bank!wr_target_holds_token, Bank!wr_target_being_read, Bank!reading,
         Alone!SkidRejectsWrites, Alone!outport_wr_rdy, Alone!Direct,
         Alone!wr_target_holds_token, Alone!wr_target_being_read, Alone!reading
<1> QED BY <1>1, DrivesBank, Alone!SkidExclusive, BankAssumption, PTL

(* A step that reads and writes one register is never held up by its own   *)
(* write, whichever crossbar it comes through.                             *)
THEOREM NoSelfBlocking == Spec => []OwnWriteNeverBlocked
<1>1. Alone!OwnWriteNeverBlocked => OwnWriteNeverBlocked
  BY DEF OwnWriteNeverBlocked, Bank!OwnWriteNeverBlocked, Bank!outport_wr_rdy, Bank!Direct,
         Bank!wr_target_holds_token, Bank!wr_target_being_read, Bank!reading,
         Alone!OwnWriteNeverBlocked, Alone!outport_wr_rdy, Alone!Direct,
         Alone!wr_target_holds_token, Alone!wr_target_being_read, Alone!reading
<1> QED BY <1>1, DrivesBank, Alone!NoSelfBlocking, BankAssumption, PTL

(* A register being read is stable until its step completes.               *)
THEOREM RepeatableReads == Spec => ReadRepeatable
<1> DEFINE
      AloneStable ==
        (\E valid \in BOOLEAN, data \in Data : Alone!StepCycle(valid, data, FALSE))
          => /\ Alone!reading => regs'[BankWord.rd] = regs[BankWord.rd]
             /\ \A to \in {"fu", "xbar"} : Alone!send_val(to)' = Alone!send_val(to)
      Stable ==
        (\E valid \in BOOLEAN, data \in Data : Bank!StepCycle(valid, data, FALSE))
          => /\ Bank!reading => regs'[BankWord.rd] = regs[BankWord.rd]
             /\ \A to \in {"fu", "xbar"} : Bank!send_val(to)' = Bank!send_val(to)
<1>1. [AloneStable]_(Alone!vars) => [Stable]_(Bank!vars)
  <2>1. Alone!vars = Bank!vars /\ Alone!vars' = Bank!vars'
    BY DEF Alone!vars, Bank!vars, Alone!skid, Bank!skid
  <2>2. AloneStable => Stable
    BY SameStep DEF Bank!reading, Alone!reading, Bank!send_val, Alone!send_val
  <2> QED BY <2>1, <2>2
<1> QED BY <1>1, DrivesBank, Alone!RepeatableReads, BankAssumption, PTL
        DEF ReadRepeatable, Bank!ReadRepeatable, Alone!ReadRepeatable

(* Every register write the bank accepts in the tile is consumed once, and *)
(* a register's in their order.                                            *)
THEOREM Refinement == Spec => ImplementsTokens
<1>1. Alone!Store!Init => Bank!Store!Init
  BY DEF Alone!Store!Init, Bank!Store!Init, Alone!TokensOf, Bank!TokensOf
<1>2. Alone!Store!vars = Bank!Store!vars /\ Alone!Store!vars' = Bank!Store!vars'
  BY DEF Alone!Store!vars, Bank!Store!vars, Alone!TokensOf, Bank!TokensOf
<1>3. ASSUME NEW a, NEW c, Alone!Store!Cycle(a, c)
      PROVE  Bank!Store!Cycle(a, c)
  BY <1>3, Zenon
  DEF Alone!Store!Cycle, Alone!Store!After, Alone!Store!Consumed, Alone!Store!Accepted,
      Alone!TokensOf, Bank!Store!Cycle, Bank!Store!After, Bank!Store!Consumed,
      Bank!Store!Accepted, Bank!TokensOf
<1>4. Alone!Store!Forget => Bank!Store!Forget
  BY DEF Alone!Store!Forget, Bank!Store!Forget, Alone!TokensOf, Bank!TokensOf
<1>5. [Alone!Store!Next]_(Alone!Store!vars) => [Bank!Store!Next]_(Bank!Store!vars)
  BY <1>2, <1>3, <1>4 DEF Alone!Store!Next, Bank!Store!Next
<1> QED BY <1>1, <1>5, DrivesBank, Alone!Refinement, BankAssumption, PTL
        DEF ImplementsTokens, Bank!ImplementsTokens, Alone!ImplementsTokens,
            Bank!Store!Spec, Alone!Store!Spec
-----------------------------------------------------------------------------
(* A step of the tile.  The outports each crossbar has to serve in it, and *)
(* those it has served: in the memory of the crossbar, or all when it is   *)
(* done.                                                                   *)
RoutingRequired == R!send_required(word.routing, word.skip)
FuRequired == F!send_required(word.fu, word.skip)

RoutingServed(o) == o \in RoutingRequired /\ (o \in racc \/ "routing" \in done)
FuServed(o) == o \in FuRequired /\ (o \in facc \/ "fu" \in done)

(* What the ways from and to these outports have in common in any compiled *)
(* word.                                                                   *)
LEMMA Wiring ==
  ASSUME TypeOK
  PROVE  /\ RoutingRequired = {o \in Outs : word.routing[o] # None /\ word.routing[o] \notin word.skip}
         /\ FuRequired = {o \in Outs : word.fu[o] = "alu" /\ ~FuPrologue}
         /\ FuRequired # {} <=> operation = "PAS"
         /\ "tile" \in RoutingRequired => "tile" \notin FuRequired
         /\ word.from = "fu" => word.fu["lane"] = "alu"
         /\ word.from = "routing" => word.routing["lane"] = "chan"
<1>1. Compiled(word) /\ word.fu \in [Outs -> {"alu", None}] /\ None # "alu"
  BY WordTyped, TileAssumption DEF TypeOK
<1>2. RoutingRequired = {o \in Outs : word.routing[o] # None /\ word.routing[o] \notin word.skip}
  BY DEF RoutingRequired, R!send_required
<1>3. FuRequired = {o \in Outs : word.fu[o] = "alu" /\ ~FuPrologue}
  BY <1>1 DEF FuRequired, F!send_required, FuPrologue
<1>4. FuRequired # {} <=> operation = "PAS"
  BY <1>1, <1>3 DEF operation, Compiled, FuPrologue
<1> QED BY <1>1, <1>2, <1>3, <1>4 DEF Compiled

(* What the routing crossbar does in a cycle of a step: it sends the       *)
(* outports not served yet whose receivers are ready, and is done when     *)
(* none is left, except that a lane is let go once the FU is done.         *)
LEMMA RoutingCycle ==
  ASSUME TypeOK, active
  PROVE  /\ RoutingSends \subseteq RoutingRequired \ racc
         /\ RoutingSends # {} => "routing" \notin done
         /\ RoutingOffers # {} /\ "chan" \in R!recv_required(word.routing, word.skip) => chan # None
         /\ routing_rdy => /\ "routing" \notin done
                           /\ RoutingOffers = RoutingRequired \ racc
                           /\ \A o \in RoutingOffers : o \in RoutingRdy \/ (o = "lane" /\ element_done)
         /\ crossbars => racc' = IF "routing" \in done \/ routing_rdy THEN {}
                                 ELSE racc \cup RoutingSends
<1>1. /\ RoutingOffers \subseteq RoutingRequired \ racc
      /\ RoutingOffers # {} => "routing" \notin done
      /\ routing_rdy => "routing" \notin done /\ RoutingOffers = RoutingRequired \ racc
  BY DEF RoutingOffers, R!offered, routing_rdy, R!opt_rdy, RoutingRequired
<1>2. RoutingOffers # {} /\ "chan" \in R!recv_required(word.routing, word.skip) => chan # None
  BY DEF RoutingOffers, R!offered, R!all_recv_valid, RoutingValid
<1>3. routing_rdy => \A o \in RoutingOffers : o \in RoutingRdy \/ (o = "lane" /\ element_done)
  BY <1>1 DEF routing_rdy, R!opt_rdy, R!all_send_accepted, RoutingRequired
<1>4. crossbars => racc' = IF "routing" \in done \/ routing_rdy THEN {} ELSE racc \cup RoutingSends
  BY DEF crossbars, R!send_accepted_next, routing_rdy, RoutingSends, RoutingOffers
<1> QED BY <1>1, <1>2, <1>3, <1>4 DEF RoutingSends

(* The FU crossbar likewise, and the FU is done exactly when it is.        *)
LEMMA FuCycle ==
  ASSUME TypeOK, FlagsAgree, active
  PROVE  /\ FuSends \subseteq FuRequired \ facc /\ FuOffers \subseteq FuRequired \ facc
         /\ FuOffers # {} => "fu" \notin done /\ fu_send_val
         /\ fu_crossbar_rdy => "fu" \notin done /\ FuSends = FuRequired \ facc
         /\ crossbars => facc' = IF "fu" \in done \/ fu_crossbar_rdy THEN {}
                                 ELSE facc \cup FuSends
         /\ operation = "PAS" => (element_rdy <=> fu_crossbar_rdy)
         /\ fu_fires => fu_crossbar_rdy
<1>1. /\ FuOffers \subseteq FuRequired \ facc
      /\ FuOffers # {} => "fu" \notin done /\ F!all_recv_valid(word.fu, word.skip, fu_valid)
      /\ fu_crossbar_rdy => /\ "fu" \notin done /\ FuOffers = FuRequired \ facc
                            /\ F!all_recv_valid(word.fu, word.skip, fu_valid)
  BY DEF FuOffers, F!offered, fu_crossbar_rdy, F!opt_rdy, FuRequired, fu_valid
<1>2. FuRequired # {} /\ F!all_recv_valid(word.fu, word.skip, fu_valid)
        => fu_send_val /\ "alu" \in F!recv_required(word.fu, word.skip)
  BY Wiring DEF F!all_recv_valid, F!recv_required, fu_valid, FuRequired
<1>3. fu_crossbar_rdy => FuSends = FuRequired \ facc
  <2> SUFFICES ASSUME fu_crossbar_rdy, NEW o \in FuRequired \ facc PROVE o \in FuRdy
    BY <1>1 DEF FuSends
  <2>1. o \in FuRdy \/ element_done
    BY DEF fu_crossbar_rdy, F!opt_rdy, F!all_send_accepted, FuRequired
  <2>2. ~element_done
    BY <1>1, Wiring DEF FlagsAgree, element_done, operation
  <2> QED BY <2>1, <2>2
<1>4. crossbars => facc' = IF "fu" \in done \/ fu_crossbar_rdy THEN {} ELSE facc \cup FuSends
  BY DEF crossbars, F!send_accepted_next, fu_crossbar_rdy, FuSends, FuOffers, fu_valid
<1>5. operation = "PAS" => (element_rdy <=> fu_crossbar_rdy)
  BY <1>1, <1>2, Wiring DEF element_rdy, fu_fires, operation
<1> QED BY <1>1, <1>2, <1>3, <1>4, <1>5, Zenon DEF FuSends, fu_fires

LEMMA OnlyInStep ==
  (RoutingOffers # {} \/ FuOffers # {} \/ routing_rdy \/ fu_crossbar_rdy \/ proceed) => active
  BY DEF RoutingOffers, FuOffers, routing_rdy, fu_crossbar_rdy, proceed

LEMMA ServedSteps ==
  ASSUME TypeOK, FlagsAgree, Work, ~proceed
  PROVE  /\ \A o : RoutingServed(o)' <=> RoutingServed(o) \/ o \in RoutingSends
                                           \/ (routing_rdy /\ o \in RoutingRequired)
         /\ \A o : FuServed(o)' <=> FuServed(o) \/ o \in FuSends
<1>1. active /\ word' = word /\ crossbars /\ done' = done \cup ready
  BY DEF Work, already_done
<1>2. RoutingRequired' = RoutingRequired /\ FuRequired' = FuRequired
  BY <1>1 DEF RoutingRequired, FuRequired
<1>3. /\ "routing" \in done' <=> "routing" \in done \/ routing_rdy
      /\ "fu" \in done' <=> "fu" \in done \/ fu_crossbar_rdy
  BY <1>1 DEF ready
<1>4. ASSUME NEW o
      PROVE  RoutingServed(o)' <=> RoutingServed(o) \/ o \in RoutingSends
                                     \/ (routing_rdy /\ o \in RoutingRequired)
  BY <1>1, <1>2, <1>3, RoutingCycle DEF RoutingServed
<1>5. ASSUME NEW o
      PROVE  FuServed(o)' <=> FuServed(o) \/ o \in FuSends
  BY <1>1, <1>2, <1>3, FuCycle DEF FuServed
<1> QED BY <1>4, <1>5

LEMMA FlagsStep ==
  ASSUME TypeOK, FlagsAgree, Work
  PROVE  FlagsAgree'
<1>1. active /\ word' = word /\ crossbars
  BY DEF Work
<1>2. CASE proceed
  <2>1. done' = {} /\ ~active'
    BY <1>2 DEF Work, already_done
  <2>2. "routing" \in done \/ routing_rdy
    BY <1>2 DEF proceed, ready
  <2>3. "fu" \in done \/ fu_crossbar_rdy
    BY <1>2 DEF proceed, ready
  <2>4. racc' = {} /\ facc' = {}
    BY <1>1, <2>2, <2>3, RoutingCycle, FuCycle
  <2> QED BY <2>1, <2>4 DEF FlagsAgree
<1>3. CASE ~proceed
  <2>1. done' = done \cup ready /\ active'
    BY <1>3 DEF Work, already_done
  <2>2. "routing" \in done' => racc' = {}
    BY <1>1, <2>1, RoutingCycle DEF ready
  <2>3. "fu" \in done' => facc' = {}
    BY <1>1, <2>1, FuCycle DEF ready
  <2>4. word'.op = "PAS" /\ ~FuPrologue' => ("element" \in done' <=> "fu" \in done')
    <3>1. FuPrologue' = FuPrologue
      BY <1>1 DEF FuPrologue
    <3> QED BY <1>1, <2>1, <3>1, FuCycle DEF FlagsAgree, ready, operation
  <2> QED BY <2>1, <2>2, <2>3, <2>4 DEF FlagsAgree
<1> QED BY <1>2, <1>3

(* What the history of a step says was done is what the crossbars remember.*)
ServedOnce ==
  /\ sent # None => RoutingServed("tile") \/ FuServed("tile")
  /\ stored # None => \/ word.from = "routing" /\ RoutingServed("lane")
                      \/ word.from = "fu" /\ FuServed("lane")
  /\ took # None => "routing" \in done

LEMMA NothingServed == FlagsAgree /\ ServedOnce /\ ~active => NoStep
  BY DEF FlagsAgree, ServedOnce, RoutingServed, FuServed, NoStep

LEMMA CrossingOnce ==
  ASSUME TypeOK, FlagsAgree, ServedOnce
  PROVE  ExactlyOnce
<1>1. /\ "tile" \in RoutingSends => ~RoutingServed("tile") /\ "tile" \in RoutingRequired
      /\ "lane" \in RoutingSends => ~RoutingServed("lane")
  BY RoutingCycle, OnlyInStep DEF RoutingSends, RoutingServed
<1>2. /\ "tile" \in FuSends => ~FuServed("tile") /\ "tile" \in FuRequired
      /\ "lane" \in FuOffers => ~FuServed("lane")
  BY FuCycle, OnlyInStep DEF FuSends, FuServed
<1>3. link # None => "tile" \in RoutingSends \/ "tile" \in FuSends
  BY DEF link
<1>4. link # None => sent = None
  BY <1>1, <1>2, <1>3, Wiring DEF ServedOnce, RoutingServed, FuServed
<1>5. Bank!wr_accept(write_val) => stored = None
  BY <1>1, <1>2 DEF Bank!wr_accept, write_val, ServedOnce
<1>6. Dequeues => took = None
  BY RoutingCycle, OnlyInStep DEF Dequeues, ServedOnce
<1> QED BY <1>1, <1>2, <1>4, <1>5, <1>6, Wiring DEF ExactlyOnce

LEMMA ServedOnceStep ==
  ASSUME TypeOK, FlagsAgree, ServedOnce, Work
  PROVE  ServedOnce'
<1>1. active /\ word' = word
  BY DEF Work
<1>2. CASE proceed
  BY <1>2 DEF Work, ServedOnce
<1>3. CASE ~proceed
  <2>1. sent' = SentNow /\ stored' = StoredNow /\ took' = TookNow /\ done' = done \cup ready
    BY <1>3 DEF Work, already_done
  <2>2. link # None => "tile" \in RoutingSends \/ "tile" \in FuSends
    BY DEF link
  <2>3. sent' # None => RoutingServed("tile")' \/ FuServed("tile")'
    <3>1. RoutingServed("tile") \/ "tile" \in RoutingSends => RoutingServed("tile")'
      BY <1>3, ServedSteps
    <3>2. FuServed("tile") \/ "tile" \in FuSends => FuServed("tile")'
      BY <1>3, ServedSteps
    <3> QED BY <2>1, <2>2, <3>1, <3>2 DEF SentNow, ServedOnce
  <2>4. Bank!wr_accept(write_val) => \/ word.from = "routing" /\ "lane" \in RoutingSends
                                     \/ word.from = "fu" /\ "lane" \in FuSends
    BY DEF Bank!wr_accept, write_val, FuSends, FuRdy
  <2>5. stored' # None => \/ word.from = "routing" /\ RoutingServed("lane")'
                          \/ word.from = "fu" /\ FuServed("lane")'
    <3>1. RoutingServed("lane") \/ "lane" \in RoutingSends => RoutingServed("lane")'
      BY <1>3, ServedSteps
    <3>2. FuServed("lane") \/ "lane" \in FuSends => FuServed("lane")'
      BY <1>3, ServedSteps
    <3> QED BY <2>1, <2>4, <3>1, <3>2 DEF StoredNow, ServedOnce
  <2>6. took' # None => "routing" \in done'
    BY <2>1 DEF TookNow, Dequeues, ready, ServedOnce
  <2> QED BY <1>1, <2>3, <2>5, <2>6 DEF ServedOnce
<1> QED BY <1>2, <1>3

LEMMA OnceSteps ==
  ASSUME TypeOK, FlagsAgree, ServedOnce, [Next]_vars
  PROVE  (FlagsAgree /\ ServedOnce)'
<1>1. CASE Work
  BY <1>1, FlagsStep, ServedOnceStep
<1>2. CASE Fetch
  <2>1. NoStep'
    BY <1>2, NothingServed DEF Fetch, NoStep, step
  <2> QED BY <2>1 DEF NoStep, FlagsAgree, ServedOnce
<1>3. CASE Clear
  BY <1>3 DEF Clear, FlagsAgree, ServedOnce
<1>4. CASE UNCHANGED vars
  BY <1>4 DEF vars, step, FlagsAgree, ServedOnce, FuPrologue, RoutingServed, FuServed,
              RoutingRequired, FuRequired
<1> QED BY <1>1, <1>2, <1>3, <1>4 DEF Next

LEMMA StartsOnce == Init => FlagsAgree /\ ServedOnce
  BY DEF Init, NoStep, FlagsAgree, ServedOnce

(* The done flags and the memories of the crossbars agree.                 *)
THEOREM FlagsConsistent == Spec => []TileInv
<1>1. TypeOK /\ FlagsAgree /\ ServedOnce /\ [Next]_vars => (FlagsAgree /\ ServedOnce)'
  BY OnceSteps
<1>2. TypeOK /\ FlagsAgree => TileInv
  BY DEF TileInv
<1> QED BY <1>1, <1>2, StartsOnce, BankKept, PTL DEF Spec

(* Nothing crosses an interface of the tile twice in a step, whatever the  *)
(* program does with tokens.                                               *)
THEOREM NothingTwice == Spec => []ExactlyOnce
<1>1. TypeOK /\ FlagsAgree /\ ServedOnce /\ [Next]_vars => (FlagsAgree /\ ServedOnce)'
  BY OnceSteps
<1>2. TypeOK /\ FlagsAgree /\ ServedOnce => ExactlyOnce
  BY CrossingOnce
<1> QED BY <1>1, <1>2, StartsOnce, BankKept, PTL DEF Spec
-----------------------------------------------------------------------------
(* The step of a careful program.  Its bank has what it reads and takes    *)
(* what it writes, until it has taken it.                                  *)
CarefulStep ==
  active =>
    /\ word.towards # "nothing" => word.rd \in token_valid \/ word.rd \notin armed
    /\ word.from # "nothing" /\ ~written => Bank!outport_wr_rdy

(* The message of the channel, also after it was taken, and what comes     *)
(* from a source of the routing crossbar and into the FU.                  *)
Chan == IF took # None THEN took ELSE chan
Input(s) == IF s = "bank" THEN regs[word.rd] ELSE Chan
FuIn == IF reg_towards_fu THEN regs[word.rd] ELSE Input(word.routing["lane"])

ChanRouted == "chan" \in R!recv_required(word.routing, word.skip)

(* Everybody served so far got what the word asks for.                     *)
Delivered ==
  /\ RoutingServed("tile") => sent = Input(word.routing["tile"])
  /\ FuServed("tile") => sent = FuIn
  /\ word.from = "routing" /\ RoutingServed("lane") => stored = Input(word.routing["lane"])
  /\ word.from = "fu" /\ FuServed("lane") => stored = FuIn
  /\ took # None => ChanRouted
  /\ "routing" \in done /\ ChanRouted => took # None
  /\ racc # {} /\ ChanRouted => Chan # None
  /\ \A o \in Outs : FuServed(o) => FuIn # None
  /\ written => stored # None /\ active

LEMMA CarefulSteps ==
  ASSUME Careful, TypeOK, BankInv, CarefulStep, [Next]_vars
  PROVE  CarefulStep'
<1>1. CASE Work /\ ~proceed
  <2>1. Bank!StepCycle(write_val, write_data, FALSE) /\ active /\ word' = word
    BY <1>1, BankInputs DEF Work
  <2>2. BankWord' = BankWord
    BY <2>1 DEF BankWord
  <2>3. ~Bank!skid_commit(FALSE)
    BY DEF BankInv, Bank!BankInv, Bank!SkidOfThisStep, Bank!skid_commit, Bank!skid_target_being_read
  <2>4. Bank!reading => ~(Bank!wr_en(write_val, FALSE) /\ BankWord.wr = BankWord.rd)
    BY DEF Bank!wr_en, Bank!Direct, Bank!wr_target_being_read
  <2>5. Bank!reading => (BankWord.rd \in token_valid' <=> BankWord.rd \in token_valid)
                        /\ (BankWord.rd \in armed' <=> BankWord.rd \in armed)
    BY <2>1, <2>3, <2>4 DEF Bank!StepCycle, Bank!update_token_valid, Bank!token_set_mask,
                            Bank!token_clear_mask
  <2>6. word.towards # "nothing" => word.rd \in token_valid' \/ word.rd \notin armed'
    BY <2>1, <2>5 DEF CarefulStep, Bank!reading, BankWord
  <2>7. ASSUME word.from # "nothing", ~written' PROVE Bank!outport_wr_rdy'
    <3>1. ~written /\ ~Bank!wr_accept(write_val) /\ ~skid_valid
      BY <2>1, <2>7 DEF Bank!StepCycle, BankInv, Bank!BankInv, Bank!SkidOfThisStep
    <3>2. token_valid' = token_valid /\ skid_valid' = skid_valid
      BY <2>1, <2>3, <3>1 DEF Bank!StepCycle, Bank!update_token_valid, Bank!token_set_mask,
              Bank!token_clear_mask, Bank!wr_en, Bank!update_skid, Bank!skid_park, BankInv,
              Bank!BankInv, Bank!TypeOK
    <3>3. Bank!outport_wr_rdy
      BY <2>1, <2>7, <3>1 DEF CarefulStep
    <3> QED BY <2>2, <3>2, <3>3 DEF Bank!outport_wr_rdy, Bank!Direct, Bank!wr_target_holds_token,
               Bank!wr_target_being_read, Bank!reading
  <2> QED BY <2>1, <2>6, <2>7 DEF CarefulStep
<1>2. CASE Fetch
  <2>1. ~skid_valid /\ Bank!IdleCycle
    BY <1>2 DEF Fetch, BankInv, Bank!BankInv, Bank!SkidOfThisStep
  <2>2. token_valid' = token_valid /\ armed' = armed /\ ~skid_valid'
    BY <2>1 DEF Bank!IdleCycle, Bank!update_token_valid, Bank!token_set_mask, Bank!wr_en,
                Bank!wr_accept, Bank!skid_commit, Bank!token_clear_mask, Bank!update_skid,
                Bank!skid_park
  <2>3. Runnable(word', token_valid, armed)
    BY <1>2 DEF Fetch
  <2>4. word'.from # "nothing" => Bank!outport_wr_rdy'
    BY <2>2, <2>3 DEF Runnable, Bank!outport_wr_rdy, Bank!Direct, Bank!wr_target_holds_token,
                      Bank!wr_target_being_read, Bank!reading, BankWord
  <2> QED BY <2>2, <2>3, <2>4 DEF CarefulStep, Runnable
<1>3. CASE (Work /\ proceed) \/ Clear
  BY <1>3 DEF Work, Clear, CarefulStep
<1>4. CASE UNCHANGED vars
  BY <1>4 DEF vars, bank, CarefulStep, Bank!outport_wr_rdy, Bank!Direct,
              Bank!wr_target_holds_token, Bank!wr_target_being_read, Bank!reading, BankWord
<1> QED BY <1>1, <1>2, <1>3, <1>4 DEF Next

(* What a step reads stays as it is until the step completes.              *)
LEMMA InputsStable ==
  ASSUME TypeOK, BankInv, ServedOnce, Work, ~proceed
  PROVE  /\ word.towards # "nothing" => regs'[word.rd] = regs[word.rd]
         /\ Chan # None => Chan' = Chan
<1>1. word.towards # "nothing" => regs'[word.rd] = regs[word.rd]
  <2>1. Bank!StepCycle(write_val, write_data, FALSE) /\ BankWord.rd = word.rd /\ word.rd \in Reg
    BY BankInputs, WordTyped DEF Work, BankWord, TypeOK
  <2>2. ~Bank!skid_commit(FALSE)
    BY DEF BankInv, Bank!BankInv, Bank!SkidOfThisStep, Bank!skid_commit, Bank!skid_target_being_read
  <2>3. Bank!reading => ~(Bank!wr_en(write_val, FALSE) /\ BankWord.wr = BankWord.rd)
    BY DEF Bank!wr_en, Bank!Direct, Bank!wr_target_being_read
  <2>4. Bank!reading <=> word.towards # "nothing"
    BY DEF Bank!reading, BankWord
  <2> QED BY <2>1, <2>2, <2>3, <2>4 DEF Bank!StepCycle, Bank!WritePort, TypeOK, Bank!TypeOK
<1>2. Chan # None => Chan' = Chan
  <2>1. took' = TookNow /\ chan' \in IF chan # None /\ ~Dequeues THEN {chan} ELSE Data \cup {None}
    BY DEF Work, channel
  <2>2. took # None => ~Dequeues
    BY OnlyInStep, RoutingCycle DEF ServedOnce, Dequeues
  <2> QED BY <2>1, <2>2 DEF Chan, TookNow
<1> QED BY <1>1, <1>2

(* A bank that is routed is read.                                          *)
LEMMA BankRead ==
  ASSUME TypeOK
  PROVE  /\ reg_towards_fu => word.towards # "nothing"
         /\ \A o \in Outs : word.routing[o] = "bank" => word.towards # "nothing"
  BY DEF reg_towards_fu, TypeOK, CompiledWords, Compiled

(* What the crossbars and the FU hand on in a cycle.                       *)
LEMMA Crossing ==
  ASSUME TypeOK, FlagsAgree, ServedOnce, CarefulStep, active
  PROVE  /\ \A o \in RoutingOffers : /\ Value(word.routing[o]) = Input(word.routing[o])
                                     /\ Input(word.routing[o]) \in Data
         /\ FuOffers # {} => operand = FuIn /\ FuIn \in Data
<1>1. ASSUME NEW o \in RoutingOffers
      PROVE  Value(word.routing[o]) = Input(word.routing[o]) /\ Input(word.routing[o]) \in Data
  <2>1. o \in Outs /\ "routing" \notin done /\ Value(word.routing[o]) \in Data
    BY OffersHold DEF RoutingOffers, R!offered, R!send_required
  <2>2. took = None
    BY <2>1 DEF ServedOnce
  <2> QED BY <2>1, <2>2 DEF Value, Input, Chan
<1>2. ASSUME FuOffers # {} PROVE operand = FuIn /\ FuIn \in Data
  <2>1. fu_send_val /\ operand_val
    BY <1>2, FuCycle DEF fu_send_val
  <2>2. Bank!send_val("fu") <=> reg_towards_fu
    BY DEF Bank!send_val, reg_towards_fu, CarefulStep, BankWord
  <2>3. operand \in Data
    BY <2>1, OperandTyped
  <2>4. CASE reg_towards_fu
    BY <2>2, <2>3, <2>4 DEF operand, FuIn, BankWord
  <2>5. CASE ~reg_towards_fu
    <3>1. "lane" \in RoutingOffers
      BY <2>1, <2>2, <2>5 DEF operand_val
    <3> QED BY <1>1, <2>2, <2>3, <2>5, <3>1 DEF operand, FuIn
  <2> QED BY <2>4, <2>5
<1> QED BY <1>1, <1>2

(* The outports served at the end of this cycle.                           *)
RoutingServedNow(o) ==
  o \in RoutingRequired /\ (RoutingServed(o) \/ o \in RoutingSends \/ routing_rdy)
FuServedNow(o) == FuServed(o) \/ o \in FuSends

LEMMA ServedInputs ==
  ASSUME TypeOK, ServedOnce, Delivered
  PROVE  /\ \A o \in Outs : RoutingServed(o) => Input(word.routing[o]) # None
         /\ \A o \in Outs : FuServed(o) => FuIn # None
<1>1. ASSUME NEW o \in Outs, RoutingServed(o) PROVE Input(word.routing[o]) # None
  <2>1. word.routing[o] \in {"chan", "bank"} /\ word.rd \in Reg
    BY <1>1, WordTyped, Wiring DEF RoutingServed, TypeOK
  <2>2. word.routing[o] = "bank" => Input(word.routing[o]) \in Data
    BY <2>1 DEF Input, TypeOK, Bank!TypeOK
  <2>3. word.routing[o] = "chan" => ChanRouted
    BY <1>1 DEF ChanRouted, R!recv_required, RoutingServed, RoutingRequired
  <2>4. ChanRouted => Chan # None
    BY <1>1 DEF RoutingServed, Delivered, Chan
  <2>5. word.routing[o] = "chan" => Input(word.routing[o]) = Chan
    BY DEF Input
  <2> QED BY <2>1, <2>2, <2>3, <2>4, <2>5, TileAssumption
<1> QED BY <1>1 DEF Delivered

LEMMA ServedNow ==
  ASSUME Careful, TypeOK, FlagsAgree, ServedOnce, CarefulStep, Delivered, active
  PROVE  /\ RoutingServedNow("tile") => RoutingServed("tile") \/ "tile" \in RoutingSends
         /\ word.from = "routing" /\ RoutingServedNow("lane")
              => RoutingServed("lane") \/ Bank!wr_accept(write_val)
         /\ word.from = "fu" /\ FuServedNow("lane")
              => FuServed("lane") \/ Bank!wr_accept(write_val)
<1>1. ASSUME NEW o, RoutingServedNow(o), ~RoutingServed(o)
      PROVE  o \in RoutingSends \/ (routing_rdy /\ o \in RoutingOffers)
  BY <1>1, RoutingCycle DEF RoutingServedNow, RoutingServed
<1>2. RoutingServedNow("tile") => RoutingServed("tile") \/ "tile" \in RoutingSends
  BY <1>1, RoutingCycle DEF RoutingSends
<1>3. word.from # "nothing" <=> BankWord.writes
  BY DEF BankWord
<1>4. ASSUME word.from = "routing", RoutingServedNow("lane"), ~RoutingServed("lane")
      PROVE  Bank!wr_accept(write_val)
  <2>1. "lane" \in RoutingOffers
    BY <1>1, <1>4 DEF RoutingSends
  <2>2. stored = None
    BY <1>4 DEF ServedOnce
  <2>3. Bank!outport_wr_rdy
    BY <1>4, <2>2 DEF Delivered, CarefulStep
  <2>4. operation = "NAH" \/ ~word.lane_used \/ reg_towards_fu
    <3>1. Compiled(word) /\ word.op \in {"NAH", "PAS"}
      BY WordTyped DEF TypeOK
    <3> QED BY <1>4, <3>1 DEF Compiled, operation, reg_towards_fu
  <2>5. "lane" \in RoutingSends
    BY <2>1, <2>3, <2>4 DEF RoutingSends, RoutingRdy, lane_rdy, routing_write_rdy
  <2> QED BY <1>3, <1>4, <2>3, <2>5 DEF Bank!wr_accept, write_val
<1>5. ASSUME word.from = "fu", FuServedNow("lane"), ~FuServed("lane")
      PROVE  Bank!wr_accept(write_val)
  <2>1. "lane" \in FuOffers /\ "lane" \in FuRdy
    BY <1>5 DEF FuServedNow, FuSends
  <2>2. Bank!outport_wr_rdy
    BY <1>5, <2>1 DEF FuRdy
  <2> QED BY <1>3, <1>5, <2>1, <2>2 DEF Bank!wr_accept, write_val
<1> QED BY <1>2, <1>4, <1>5

(* What the neighbor and the register have got at the end of this cycle.   *)
LEMMA DeliveredNow ==
  ASSUME Careful, TypeOK, FlagsAgree, ServedOnce, CarefulStep, Delivered, active
  PROVE  /\ RoutingServedNow("tile") => SentNow = Input(word.routing["tile"])
         /\ FuServedNow("tile") => SentNow = FuIn
         /\ ~RoutingServedNow("tile") /\ ~FuServedNow("tile") => SentNow = None
         /\ word.from = "routing" /\ RoutingServedNow("lane")
              => StoredNow = Input(word.routing["lane"])
         /\ word.from = "fu" /\ FuServedNow("lane") => StoredNow = FuIn
         /\ word.from = "routing" /\ ~RoutingServedNow("lane") => StoredNow = None
         /\ word.from = "fu" /\ ~FuServedNow("lane") => StoredNow = None
         /\ word.from = "nothing" => StoredNow = None
         /\ ChanRouted /\ (routing_rdy \/ "routing" \in done) => TookNow # None
         /\ TookNow # None => ChanRouted
<1>0. ExactlyOnce
  BY CrossingOnce
<1>1. ASSUME "tile" \in RoutingRequired
      PROVE  /\ RoutingServedNow("tile") => SentNow = Input(word.routing["tile"])
             /\ ~FuServedNow("tile")
             /\ ~RoutingServedNow("tile") => SentNow = None
  <2>1. "tile" \notin FuRequired /\ ~FuServedNow("tile") /\ "tile" \notin FuSends
    BY <1>1, Wiring, FuCycle DEF FuServedNow, FuServed
  <2>2. ASSUME "tile" \in RoutingSends
        PROVE  link = Input(word.routing["tile"]) /\ link # None
    <3>1. link = Value(word.routing["tile"])
      BY <2>1, <2>2 DEF link
    <3>2. "tile" \in RoutingOffers
      BY <2>2 DEF RoutingSends
    <3> QED BY <3>1, <3>2, Crossing, TileAssumption
  <2>3. "tile" \notin RoutingSends => link = None
    BY <2>1 DEF link
  <2>4. RoutingServed("tile") => sent = Input(word.routing["tile"]) /\ sent # None
    BY ServedInputs DEF Delivered, Outs
  <2>5. RoutingServedNow("tile") => SentNow = Input(word.routing["tile"])
    <3>1. "tile" \notin RoutingSends => link = None
      BY <2>3
    <3>2. RoutingServedNow("tile") => RoutingServed("tile") \/ "tile" \in RoutingSends
      BY ServedNow
    <3>3. link # None => sent = None
      BY <1>0 DEF ExactlyOnce
    <3> QED BY <2>2, <2>4, <3>1, <3>2, <3>3 DEF SentNow
  <2>6. ~RoutingServedNow("tile") => SentNow = None
    BY <1>1, <2>1, <2>3 DEF SentNow, ServedOnce, RoutingServedNow, FuServedNow
  <2> QED BY <2>1, <2>5, <2>6
<1>2. ASSUME "tile" \notin RoutingRequired
      PROVE  /\ ~RoutingServedNow("tile")
             /\ FuServedNow("tile") => SentNow = FuIn
             /\ ~FuServedNow("tile") => SentNow = None
  <2>1. ~RoutingServedNow("tile") /\ ~RoutingServed("tile") /\ "tile" \notin RoutingSends
    BY <1>2, RoutingCycle DEF RoutingServedNow, RoutingServed
  <2>2. ASSUME "tile" \in FuSends PROVE link = FuIn /\ link # None
    <3>1. link = operand
      BY <2>1, <2>2 DEF link
    <3>2. FuOffers # {}
      BY <2>2 DEF FuSends
    <3> QED BY <3>1, <3>2, Crossing, TileAssumption
  <2>3. "tile" \notin FuSends => link = None
    BY <2>1 DEF link
  <2>4. FuServed("tile") => sent = FuIn /\ sent # None
    BY ServedInputs DEF Delivered, Outs
  <2>5. FuServedNow("tile") => SentNow = FuIn
    BY <1>0, <2>2, <2>3, <2>4 DEF SentNow, ExactlyOnce, FuServedNow
  <2>6. ~FuServedNow("tile") => SentNow = None
    BY <2>1, <2>3 DEF SentNow, ServedOnce, FuServedNow
  <2> QED BY <2>1, <2>5, <2>6
<1>3. ASSUME word.from = "routing"
      PROVE  /\ RoutingServedNow("lane") => StoredNow = Input(word.routing["lane"])
             /\ ~RoutingServedNow("lane") => StoredNow = None
  <2>1. Bank!wr_accept(write_val) => "lane" \in RoutingSends
    BY <1>3 DEF Bank!wr_accept, write_val
  <2>2. Bank!wr_accept(write_val) => write_data = Input(word.routing["lane"])
    BY <1>3, <2>1, Crossing DEF write_data, RoutingSends
  <2>3. RoutingServed("lane") => stored = Input(word.routing["lane"]) /\ stored # None
    BY <1>3, ServedInputs DEF Delivered, Outs
  <2>4. Bank!wr_accept(write_val) => stored = None
    BY <1>0 DEF ExactlyOnce
  <2>5. RoutingServedNow("lane") => StoredNow = Input(word.routing["lane"])
    BY <1>3, <2>2, <2>3, <2>4, ServedNow DEF StoredNow
  <2>6. "lane" \in RoutingSends => RoutingServedNow("lane")
    BY RoutingCycle DEF RoutingServedNow, RoutingSends
  <2>7. ~RoutingServedNow("lane") => StoredNow = None
    BY <1>3, <2>1, <2>6 DEF StoredNow, ServedOnce, RoutingServedNow, RoutingServed
  <2> QED BY <2>5, <2>7
<1>4. ASSUME word.from = "fu"
      PROVE  /\ FuServedNow("lane") => StoredNow = FuIn
             /\ ~FuServedNow("lane") => StoredNow = None
  <2>1. Bank!wr_accept(write_val) => "lane" \in FuSends
    BY <1>4 DEF Bank!wr_accept, write_val, FuSends, FuRdy
  <2>2. Bank!wr_accept(write_val) => write_data = FuIn
    BY <1>4, <2>1, Crossing DEF write_data, FuSends
  <2>3. FuServed("lane") => stored = FuIn /\ stored # None
    BY <1>4, ServedInputs DEF Delivered, Outs
  <2>4. Bank!wr_accept(write_val) => stored = None
    BY <1>0 DEF ExactlyOnce
  <2>5. FuServedNow("lane") => StoredNow = FuIn
    BY <1>4, <2>2, <2>3, <2>4, ServedNow DEF StoredNow
  <2>6. ~FuServedNow("lane") => StoredNow = None
    BY <1>4, <2>1 DEF StoredNow, ServedOnce, FuServedNow
  <2> QED BY <2>5, <2>6
<1>5. word.from = "nothing" => StoredNow = None
  BY DEF StoredNow, ServedOnce, Bank!wr_accept, BankWord
<1>6. ChanRouted /\ (routing_rdy \/ "routing" \in done) => TookNow # None
  <2>1. ChanRouted /\ routing_rdy => Dequeues /\ chan # None
    BY DEF ChanRouted, Dequeues, routing_rdy, R!opt_rdy, R!all_recv_valid, RoutingValid
  <2>2. "routing" \in done => ~Dequeues
    BY DEF Dequeues, routing_rdy
  <2> QED BY <2>1, <2>2 DEF TookNow, Delivered
<1>7. TookNow # None => ChanRouted
  BY DEF TookNow, Dequeues, ChanRouted, Delivered
<1> QED BY <1>1, <1>2, <1>3, <1>4, <1>5, <1>6, <1>7, Zenon

LEMMA DeliveredWork ==
  ASSUME Careful, TypeOK, BankInv, FlagsAgree, ServedOnce, CarefulStep, Delivered,
         Work, ~proceed
  PROVE  Delivered'
<1>1. /\ active /\ active' = TRUE /\ word' = word /\ crossbars /\ done' = done \cup ready
      /\ sent' = SentNow /\ stored' = StoredNow /\ took' = TookNow
      /\ Bank!StepCycle(write_val, write_data, FALSE)
  BY BankInputs DEF Work, already_done
<1>2. /\ RoutingRequired' = RoutingRequired /\ FuRequired' = FuRequired
      /\ ChanRouted' <=> ChanRouted
      /\ reg_towards_fu' <=> reg_towards_fu
  BY <1>1 DEF RoutingRequired, FuRequired, ChanRouted, reg_towards_fu
<1>3. ASSUME NEW o PROVE RoutingServed(o)' <=> RoutingServedNow(o)
  <2>1. RoutingServed(o)' <=> RoutingServed(o) \/ o \in RoutingSends
                                \/ (routing_rdy /\ o \in RoutingRequired)
    BY ServedSteps
  <2> QED BY <1>1, <2>1, RoutingCycle DEF RoutingServedNow, RoutingServed
<1>4. ASSUME NEW o PROVE FuServed(o)' <=> FuServedNow(o)
  <2>1. FuServed(o)' <=> FuServed(o) \/ o \in FuSends
    BY ServedSteps
  <2> QED BY <2>1 DEF FuServedNow
<1>5. ASSUME NEW s, Input(s) # None, s = "bank" => word.towards # "nothing"
      PROVE  Input(s)' = Input(s)
  BY <1>1, <1>5, InputsStable DEF Input
<1>6. ASSUME NEW o \in Outs, RoutingServedNow(o)
      PROVE  Input(word.routing[o])' = Input(word.routing[o])
  <2>1. o \in RoutingOffers \/ RoutingServed(o)
    BY <1>1, <1>6, RoutingCycle DEF RoutingServedNow, RoutingSends, RoutingServed
  <2>2. Input(word.routing[o]) # None
    BY <1>1, <2>1, Crossing, ServedInputs, TileAssumption
  <2> QED BY <1>1, <1>5, <2>2, BankRead
<1>7. ASSUME NEW o \in Outs, FuServedNow(o)
      PROVE  FuIn # None /\ FuIn' = FuIn
  <2>1. FuIn # None
    <3>1. FuServed(o) => FuIn # None
      BY ServedInputs
    <3>2. o \in FuSends => FuIn # None
      BY <1>1, Crossing, TileAssumption DEF FuSends
    <3> QED BY <1>7, <3>1, <3>2 DEF FuServedNow
  <2>2. CASE reg_towards_fu
    BY <1>1, <1>2, <2>1, <2>2, InputsStable, BankRead DEF FuIn
  <2>3. CASE ~reg_towards_fu
    <3>1. Input(word.routing["lane"])' = Input(word.routing["lane"])
      BY <1>1, <1>5, <2>1, <2>3, BankRead DEF FuIn, Outs
    <3> QED BY <1>1, <1>2, <2>1, <2>3, <3>1 DEF FuIn
  <2> QED BY <2>1, <2>2, <2>3
<1>8. "tile" \in Outs /\ "lane" \in Outs
  BY DEF Outs
<1>9. RoutingServed("tile")' => sent' = Input(word.routing["tile"])'
  BY <1>1, <1>3, <1>6, <1>8, DeliveredNow
<1>10. FuServed("tile")' => sent' = FuIn'
  BY <1>1, <1>4, <1>7, <1>8, DeliveredNow
<1>11. word'.from = "routing" /\ RoutingServed("lane")' => stored' = Input(word.routing["lane"])'
  BY <1>1, <1>3, <1>6, <1>8, DeliveredNow
<1>12. word'.from = "fu" /\ FuServed("lane")' => stored' = FuIn'
  BY <1>1, <1>4, <1>7, <1>8, DeliveredNow
<1>13. took' # None => ChanRouted'
  BY <1>1, <1>2, DeliveredNow
<1>14. "routing" \in done' /\ ChanRouted' => took' # None
  BY <1>1, <1>2, DeliveredNow DEF ready
<1>15. racc' # {} /\ ChanRouted' => Chan' # None
  <2>1. racc' # {} => racc # {} \/ RoutingSends # {}
    BY <1>1, RoutingCycle
  <2>2. RoutingSends # {} /\ ChanRouted => Chan # None
    BY <1>1, RoutingCycle DEF RoutingSends, ChanRouted, Chan
  <2> QED BY <1>2, <2>1, <2>2, InputsStable DEF Delivered
<1>16. \A o \in Outs : FuServed(o)' => FuIn' # None
  BY <1>4, <1>7
<1>17. written' => stored' # None /\ active'
  <2>1. written' => written \/ Bank!wr_accept(write_val)
    BY <1>1 DEF Bank!StepCycle
  <2> QED BY <1>1, <2>1, BankInputs, TileAssumption DEF StoredNow, Delivered
<1> QED BY <1>9, <1>10, <1>11, <1>12, <1>13, <1>14, <1>15, <1>16, <1>17, Zenon DEF Delivered

LEMMA DeliveredSteps ==
  ASSUME Careful, TypeOK, BankInv, FlagsAgree, ServedOnce, CarefulStep, Delivered, [Next]_vars
  PROVE  Delivered'
<1>1. CASE Work /\ ~proceed
  BY <1>1, DeliveredWork
<1>2. CASE Work /\ proceed
  <2>1. ~active' /\ took' = None /\ ~written'
    BY <1>2 DEF Work, Bank!StepCycle
  <2>2. FlagsAgree'
    BY <1>2, FlagsStep
  <2>3. done' = {} /\ racc' = {} /\ facc' = {}
    BY <2>1, <2>2 DEF FlagsAgree
  <2> QED BY <2>1, <2>3 DEF Delivered, RoutingServed, FuServed
<1>3. CASE Fetch
  <2>1. NoStep' /\ ~written'
    BY <1>3, NothingServed DEF Fetch, NoStep, step, Bank!IdleCycle
  <2> QED BY <2>1 DEF NoStep, Delivered, RoutingServed, FuServed
<1>4. CASE Clear
  BY <1>4 DEF Clear, Bank!ClearCycle, Delivered, RoutingServed, FuServed
<1>5. CASE UNCHANGED vars
  BY <1>5 DEF vars, step, bank, Delivered, RoutingServed, FuServed, RoutingRequired, FuRequired,
              Input, FuIn, Chan, ChanRouted, reg_towards_fu
<1> QED BY <1>1, <1>2, <1>3, <1>4, <1>5 DEF Next

(* When a step completes, all it has to serve was served.                  *)
LEMMA CompletesAtomically ==
  ASSUME Careful, TypeOK, FlagsAgree, ServedOnce, CarefulStep, Delivered, proceed
  PROVE  /\ SentNow = WantedAt("tile")
         /\ StoredNow = WantedInBank
         /\ (TookNow # None) <=> ChanRouted
<1>1. /\ active
      /\ "routing" \in done \/ routing_rdy
      /\ "fu" \in done \/ fu_crossbar_rdy
  BY DEF proceed, ready
<1>2. \A o : RoutingServedNow(o) <=> o \in RoutingRequired
  BY <1>1, RoutingCycle DEF RoutingServedNow, RoutingServed
<1>3. \A o : FuServedNow(o) <=> o \in FuRequired
  BY <1>1, FuCycle DEF FuServedNow, FuServed
<1>4. (TookNow # None) <=> ChanRouted
  BY <1>1, DeliveredNow
<1>5. ChanRouted => TookNow = Chan
  <2>1. Dequeues => took = None
    BY CrossingOnce DEF ExactlyOnce
  <2> QED BY <1>4, <2>1 DEF TookNow, Chan
<1>6. /\ word.routing \in [Outs -> {"chan", "bank", None}] /\ Compiled(word)
      /\ word.fu \in [Outs -> {"alu", None}]
      /\ "tile" \in Outs /\ "lane" \in Outs /\ None \notin {"chan", "bank", "alu"}
      /\ word.from \in {"nothing", "routing", "fu"}
  BY WordTyped, TileAssumption DEF TypeOK, Outs
<1>7. ASSUME NEW o \in RoutingRequired PROVE InputOf(word.routing[o]) = Input(word.routing[o])
  <2>1. o \in Outs /\ word.routing[o] \in {"chan", "bank"}
    BY <1>6, Wiring
  <2>2. word.routing[o] = "chan" => ChanRouted
    BY DEF ChanRouted, R!recv_required, RoutingRequired
  <2> QED BY <1>5, <2>1, <2>2 DEF InputOf, Input
<1>8. FuRequired # {} => FuInput = FuIn
  <2> SUFFICES ASSUME FuRequired # {}, ~reg_towards_fu
               PROVE  InputOf(word.routing["lane"]) = Input(word.routing["lane"])
    BY DEF FuInput, FuIn
  <2>1. word.op = "PAS" /\ "alu" \notin word.skip
    BY Wiring DEF operation, FuPrologue
  <2>2. word.routing["lane"] \in {"chan", "bank"}
    BY <1>6, <2>1 DEF Compiled, reg_towards_fu
  <2>3. word.routing["lane"] = "chan" => "lane" \in RoutingRequired
    BY <1>6, <2>1, <2>2, Wiring DEF Compiled
  <2> QED BY <1>7, <2>2, <2>3 DEF InputOf, Input
<1>9. SentNow = WantedAt("tile")
  <2>1. /\ "tile" \in RoutingRequired <=> word.routing["tile"] # None /\ word.routing["tile"] \notin word.skip
        /\ "tile" \in FuRequired <=> word.fu["tile"] # None /\ ~FuPrologue
        /\ "tile" \in RoutingRequired => "tile" \notin FuRequired
    BY <1>6, Wiring
  <2>2. /\ "tile" \in RoutingRequired => SentNow = InputOf(word.routing["tile"])
        /\ "tile" \in FuRequired => SentNow = FuInput
        /\ "tile" \notin RoutingRequired /\ "tile" \notin FuRequired => SentNow = None
    BY <1>1, <1>2, <1>3, <1>7, <1>8, DeliveredNow
  <2> QED BY <2>1, <2>2 DEF WantedAt
<1>10. StoredNow = WantedInBank
  <2>1. word.from = "routing" =>
          ("lane" \in RoutingRequired <=> word.routing["lane"] \notin word.skip)
    BY <1>6, Wiring
  <2>2. word.from = "fu" => ("lane" \in FuRequired <=> ~FuPrologue)
    BY <1>6, Wiring
  <2>3. /\ word.from = "routing" /\ "lane" \in RoutingRequired
             => StoredNow = InputOf(word.routing["lane"])
        /\ word.from = "fu" /\ "lane" \in FuRequired => StoredNow = FuInput
        /\ word.from = "routing" /\ "lane" \notin RoutingRequired => StoredNow = None
        /\ word.from = "fu" /\ "lane" \notin FuRequired => StoredNow = None
        /\ word.from = "nothing" => StoredNow = None
    BY <1>1, <1>2, <1>3, <1>7, <1>8, DeliveredNow
  <2> QED BY <1>6, <2>1, <2>2, <2>3 DEF WantedInBank
<1> QED BY <1>4, <1>9, <1>10

LEMMA StartsDelivered == Init => CarefulStep /\ Delivered
  BY DEF Init, Bank!Init, NoStep, CarefulStep, Delivered, RoutingServed, FuServed

(* A step of a careful program is atomic: however its parts were spread    *)
(* over the cycles, when it completes the neighbor has got what the word   *)
(* routes there, the register its write, and the channel has given one     *)
(* message if and only if the word routes it.                              *)
THEOREM StepsAtomic ==
  ASSUME Careful
  PROVE  Spec => []StepAtomic
<1> DEFINE StepInv == TypeOK /\ BankInv /\ FlagsAgree /\ ServedOnce /\ CarefulStep /\ Delivered
<1>1. Init => StepInv
  BY Starts, StartsOnce, StartsDelivered
<1>2. StepInv /\ [Next]_vars => StepInv'
  BY TypeSteps, BankInvSteps, OnceSteps, CarefulSteps, DeliveredSteps
<1>3. StepInv => StepAtomic
  BY CompletesAtomically DEF StepAtomic, ChanRouted
<1> QED BY <1>1, <1>2, <1>3, PTL DEF Spec
=============================================================================
