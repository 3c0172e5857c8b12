------------------------- MODULE RegisterBankProofs -------------------------
(***************************************************************************)
(* Proofs about the register bank, for every number of registers and every *)
(* set of values.                                                          *)
(***************************************************************************)
EXTENDS RegisterBank, SequenceTheorems, TLAPS

LEMMA InitInv == Init => BankInv
  BY DEF Init, BankInv, TypeOK, TokensArmed, SkidOfThisStep, BankFields

(* What a cycle does to the bank whatever happens to the ctrl word.        *)
LEMMA PortTyped ==
  ASSUME TypeOK, NEW valid \in BOOLEAN, NEW proceed \in BOOLEAN, NEW data \in Data,
         WritePort(valid, data, proceed),
         update_token_valid(valid, proceed),
         update_skid(valid, data, proceed)
  PROVE  /\ regs' \in [Reg -> Data]
         /\ token_valid' \subseteq Reg
         /\ armed' \subseteq Reg
         /\ skid_valid' \in BOOLEAN
         /\ skid_data' \in Data
         /\ skid_idx' \in Reg
<1>0. word.wr \in Reg /\ word.rd \in Reg
  BY DEF TypeOK, BankFields
<1>1. regs' \in [Reg -> Data]
  <2>1. CASE skid_commit(proceed)
    BY <1>0, <2>1 DEF TypeOK, WritePort
  <2>2. CASE ~skid_commit(proceed) /\ wr_en(valid, proceed)
    BY <1>0, <2>2 DEF TypeOK, WritePort
  <2>3. CASE ~skid_commit(proceed) /\ ~wr_en(valid, proceed)
    BY <2>3 DEF TypeOK, WritePort
  <2> QED BY <2>1, <2>2, <2>3
<1>2. token_set_mask(valid, proceed) \subseteq Reg
  BY <1>0 DEF token_set_mask, TypeOK
<1>3. token_valid' \subseteq Reg /\ armed' \subseteq Reg
  BY <1>2 DEF TypeOK, update_token_valid
<1>4. skid_valid' \in BOOLEAN /\ skid_data' \in Data /\ skid_idx' \in Reg
  BY <1>0 DEF TypeOK, update_skid
<1> QED BY <1>1, <1>3, <1>4

LEMMA TokensStayArmed ==
  ASSUME TokensArmed, NEW valid, NEW proceed, update_token_valid(valid, proceed)
  PROVE  TokensArmed'
  BY DEF TokensArmed, update_token_valid

(* A parked write is committed when its step completes, and only a step    *)
(* that reads its own target parks one.                                    *)
LEMMA StepInv ==
  ASSUME BankInv, NEW valid \in BOOLEAN, NEW proceed \in BOOLEAN, NEW data \in Data,
         StepCycle(valid, data, proceed)
  PROVE  BankInv'
<1> USE DEF BankInv
<1>1. TypeOK'
  <2>1. /\ WritePort(valid, data, proceed)
        /\ update_token_valid(valid, proceed)
        /\ update_skid(valid, data, proceed)
    BY DEF StepCycle
  <2>2. word' \in BankFields /\ active' \in BOOLEAN /\ written' \in BOOLEAN /\ cleared' \in BOOLEAN
    BY DEF StepCycle, TypeOK, wr_accept, BankFields, outport_wr_rdy, Direct,
           wr_target_holds_token, wr_target_being_read, reading
  <2>3. {accepted', consumed'} \subseteq (Reg \X Data) \cup {None}
    BY DEF StepCycle, TypeOK, BankFields
  <2> QED BY <2>1, <2>2, <2>3, PortTyped DEF TypeOK
<1>2. TokensArmed'
  BY TokensStayArmed DEF StepCycle
<1>3. SkidOfThisStep'
  <2>1. CASE proceed
    <3>1. ~skid_park(valid, proceed)
      BY <2>1 DEF skid_park, wr_en, wr_accept, outport_wr_rdy
    <3>2. skid_valid => skid_commit(proceed)
      BY <2>1 DEF SkidOfThisStep, skid_commit, skid_target_being_read
    <3>3. ~skid_valid'
      BY <3>1, <3>2 DEF StepCycle, update_skid
    <3> QED BY <3>3 DEF SkidOfThisStep
  <2>2. CASE ~proceed
    <3>1. /\ UNCHANGED <<word, active>> /\ active
          /\ written' = (written \/ wr_accept(valid))
      BY <2>2 DEF StepCycle
    <3>2. CASE skid_park(valid, proceed)
      <4>1. skid_valid' /\ skid_idx' = word.wr
        BY <3>2 DEF StepCycle, update_skid
      <4>2. wr_accept(valid) /\ wr_target_being_read
        BY <3>2 DEF skid_park, wr_en, wr_accept, outport_wr_rdy
      <4> QED BY <3>1, <4>1, <4>2
              DEF SkidOfThisStep, wr_target_being_read, reading
    <3>3. CASE ~skid_park(valid, proceed)
      <4>1. skid_valid' = (skid_valid /\ ~skid_commit(proceed)) /\ skid_idx' = skid_idx
        BY <3>3 DEF StepCycle, update_skid
      <4> QED BY <3>1, <4>1 DEF SkidOfThisStep, reading
    <3> QED BY <3>2, <3>3
  <2> QED BY <2>1, <2>2
<1> QED BY <1>1, <1>2, <1>3

LEMMA IdleInv ==
  ASSUME BankInv, IdleCycle
  PROVE  BankInv'
<1> USE DEF BankInv
<1>1. /\ WritePort(FALSE, skid_data, FALSE)
      /\ update_token_valid(FALSE, FALSE)
      /\ update_skid(FALSE, skid_data, FALSE)
      /\ skid_data \in Data
  BY DEF IdleCycle, TypeOK
<1>2. TypeOK'
  BY <1>1, PortTyped DEF IdleCycle, TypeOK
<1>3. TokensArmed'
  BY <1>1, TokensStayArmed
<1>4. ~skid_valid'
  BY <1>1 DEF IdleCycle, SkidOfThisStep, update_skid, skid_park, wr_accept
<1> QED BY <1>2, <1>3, <1>4 DEF SkidOfThisStep

LEMMA ClearInv ==
  ASSUME BankInv, ClearCycle
  PROVE  BankInv'
<1> USE DEF BankInv
<1>1. regs' \in [Reg -> Data]
  BY DEF ClearCycle, WritePort, TypeOK, wr_en, wr_accept
<1> QED BY <1>1 DEF ClearCycle, TypeOK, TokensArmed, SkidOfThisStep

(* Types, tokens only in armed registers, and a skid that never outlives   *)
(* the step that filled it.                                                *)
THEOREM Invariance == Spec => []BankInv
<1>1. Init => BankInv
  BY InitInv
<1>2. BankInv /\ [Next]_vars => BankInv'
  <2> SUFFICES ASSUME BankInv, [Next]_vars PROVE BankInv'
    OBVIOUS
  <2>1. CASE UNCHANGED vars
    BY <2>1 DEF vars, skid, BankInv, TypeOK, TokensArmed, SkidOfThisStep, reading
  <2>2. CASE Next
    BY <2>2, StepInv, IdleInv, ClearInv DEF Next
  <2> QED BY <2>1, <2>2
<1> QED BY <1>1, <1>2, PTL DEF Spec

(* The claim of the comment in access_registers: a write is never accepted *)
(* while the skid is occupied.                                             *)
THEOREM SkidExclusive == Spec => []SkidRejectsWrites
<1>1. BankInv => SkidRejectsWrites
  BY DEF BankInv, SkidOfThisStep, SkidRejectsWrites, outport_wr_rdy, Direct,
         wr_target_being_read, reading
<1> QED BY <1>1, Invariance, PTL

(* A step that reads and writes one register is never held up by its own   *)
(* write.                                                                  *)
THEOREM NoSelfBlocking == Spec => []OwnWriteNeverBlocked
<1>1. BankInv => OwnWriteNeverBlocked
  BY DEF BankInv, SkidOfThisStep, OwnWriteNeverBlocked, outport_wr_rdy
<1> QED BY <1>1, Invariance, PTL

(* A register being read is stable until the step completes.               *)
THEOREM RepeatableReads == Spec => ReadRepeatable
<1>1. BankInv /\ [Next]_vars =>
        [ (\E valid \in BOOLEAN, data \in Data : StepCycle(valid, data, FALSE))
            => /\ reading => regs'[word.rd] = regs[word.rd]
               /\ \A to \in {"fu", "xbar"} : send_val(to)' = send_val(to) ]_vars
  <2> SUFFICES ASSUME BankInv, NEW valid \in BOOLEAN, NEW data \in Data,
                      StepCycle(valid, data, FALSE)
               PROVE  /\ reading => regs'[word.rd] = regs[word.rd]
                      /\ \A to \in {"fu", "xbar"} : send_val(to)' = send_val(to)
    OBVIOUS
  <2>1. word' = word /\ word.rd \in Reg /\ word.wr \in Reg /\ regs \in [Reg -> Data]
    BY DEF StepCycle, BankInv, TypeOK, BankFields
  <2>2. ~skid_commit(FALSE)
    BY DEF skid_commit, BankInv, SkidOfThisStep, skid_target_being_read
  <2>3. reading => ~(wr_en(valid, FALSE) /\ word.wr = word.rd)
    BY DEF wr_en, Direct, wr_target_being_read
  <2>4. reading => regs'[word.rd] = regs[word.rd]
    BY <2>1, <2>2, <2>3 DEF StepCycle, WritePort
  <2>5. reading => (word.rd \in token_valid' <=> word.rd \in token_valid)
                   /\ (word.rd \in armed' <=> word.rd \in armed)
    BY <2>2, <2>3 DEF StepCycle, update_token_valid, token_set_mask, token_clear_mask
  <2>6. ASSUME NEW to \in {"fu", "xbar"} PROVE send_val(to)' = send_val(to)
    BY <2>1, <2>5 DEF send_val, reading
  <2> QED BY <2>4, <2>6
<1> QED BY <1>1, Invariance, PTL DEF Spec, ReadRepeatable
-----------------------------------------------------------------------------
(* Refinement: the token bits, the register file and the skid implement    *)
(* the token queues of TokenStore.                                         *)

(* Sequences of one and two elements.                                      *)
LEMMA Pair ==
  ASSUME NEW x \in Seq(Data), NEW a \in Data, NEW b \in Data,
         Len(x) = 2, x[1] = a, x[2] = b
  PROVE  x = <<a, b>>
<1> DEFINE t == <<a, b>>
<1>1. t \in Seq(Data) /\ Len(t) = 2 /\ t[1] = a /\ t[2] = b
  OBVIOUS
<1> HIDE DEF t
<1>2. \A i \in 1 .. Len(x) : x[i] = t[i]
  BY <1>1
<1>3. x = t
  BY <1>1, <1>2, SeqEqual
<1> QED BY <1>3 DEF t

LEMMA PairByAppend ==
  ASSUME NEW a \in Data, NEW b \in Data
  PROVE  Append(<<a>>, b) = <<a, b>>
<1>1. ASSUME NEW x \in Seq(Data), Len(x) = 1, x[1] = a PROVE Append(x, b) = <<a, b>>
  <2>1. Append(x, b) \in Seq(Data) /\ Len(Append(x, b)) = Len(x) + 1
        /\ Append(x, b)[Len(x) + 1] = b /\ \A i \in 1 .. Len(x) : Append(x, b)[i] = x[i]
    OBVIOUS
  <2>2. Len(x) + 1 = 2 /\ 1 \in 1 .. Len(x)
    BY <1>1
  <2>3. Len(Append(x, b)) = 2 /\ Append(x, b)[1] = a /\ Append(x, b)[2] = b
    BY <1>1, <2>1, <2>2
  <2> QED BY <2>1, <2>3, Pair
<1>2. <<a>> \in Seq(Data) /\ Len(<<a>>) = 1 /\ <<a>>[1] = a
  OBVIOUS
<1> QED BY <1>1, <1>2

LEMMA PairByConcat ==
  ASSUME NEW a \in Data, NEW b \in Data
  PROVE  <<a>> \o <<b>> = <<a, b>>
<1>1. ASSUME NEW x \in Seq(Data), NEW y \in Seq(Data),
             Len(x) = 1, Len(y) = 1, x[1] = a, y[1] = b
      PROVE  x \o y = <<a, b>>
  <2>1. 1 \in 1 .. Len(x) + Len(y) /\ 2 \in 1 .. Len(x) + Len(y)
    BY <1>1
  <2>2. x \o y \in Seq(Data)
    BY ConcatProperties
  <2>3. Len(x \o y) = Len(x) + Len(y)
    BY ConcatProperties
  <2>4. Len(x \o y) = 2
    BY <1>1, <2>3
  <2>5. (x \o y)[1] = a
    <3>1. 1 <= Len(x)
      BY <1>1
    <3>2. (x \o y)[1] = x[1]
      BY <2>1, <3>1, ConcatProperties
    <3> QED BY <1>1, <3>2
  <2>6. (x \o y)[2] = y[2 - Len(x)]
    <3>1. ~(2 <= Len(x))
      BY <1>1
    <3> QED BY <2>1, <3>1, ConcatProperties
  <2>7. 2 - Len(x) = 1
    BY <1>1
  <2> QED BY <1>1, <2>2, <2>4, <2>5, <2>6, <2>7, Pair
<1>2. ASSUME NEW c \in Data PROVE <<c>> \in Seq(Data) /\ Len(<<c>>) = 1 /\ <<c>>[1] = c
  OBVIOUS
<1> QED BY <1>1, <1>2

LEMMA ShortQueues ==
  ASSUME NEW a \in Data, NEW b \in Data
  PROVE  /\ <<>> \o <<>> = <<>> /\ <<>> \o <<a>> = <<a>> /\ <<a>> \o <<>> = <<a>>
         /\ Append(<<>>, a) = <<a>>
         /\ Tail(<<a>>) = <<>> /\ Tail(<<a, b>>) = <<b>>
         /\ Head(<<a>>) = a /\ Head(<<a, b>>) = a
         /\ <<a>> # <<>> /\ <<a, b>> # <<>>
         /\ Len(<<>>) = 0 /\ Len(<<a>>) = 1 /\ Len(<<a, b>>) = 2
<1>1. <<a>> \in Seq(Data)
  OBVIOUS
<1>2. <<>> \o <<>> = <<>> /\ <<>> \o <<a>> = <<a>> /\ <<a>> \o <<>> = <<a>>
  BY <1>1, EmptySeq, ConcatEmptySeq
<1>3. Append(<<>>, a) = <<a>>
  OBVIOUS
<1>4. Tail(<<a>>) = <<>>
  OBVIOUS
<1>5. Tail(<<a, b>>) = <<b>>
  OBVIOUS
<1>6. Head(<<a>>) = a /\ Head(<<a, b>>) = a
  OBVIOUS
<1>7. <<a>> # <<>> /\ <<a, b>> # <<>>
  OBVIOUS
<1>8. Len(<<>>) = 0 /\ Len(<<a>>) = 1 /\ Len(<<a, b>>) = 2
  OBVIOUS
<1> QED BY <1>2, <1>3, <1>4, <1>5, <1>6, <1>7, <1>8

(* The queue of a register, spelled out.                                   *)
LEMMA TokensCases ==
  ASSUME NEW f \in [Reg -> Data], NEW T \in SUBSET Reg, NEW v \in BOOLEAN,
         NEW d \in Data, NEW k \in Reg, NEW r \in Reg
  PROVE  LET q == (IF r \in T THEN <<f[r]>> ELSE <<>>) \o
                  (IF v /\ k = r THEN <<d>> ELSE <<>>)
         IN  /\ r \in T /\ v /\ k = r       => q = <<f[r], d>>
             /\ r \in T /\ ~(v /\ k = r)    => q = <<f[r]>>
             /\ r \notin T /\ v /\ k = r    => q = <<d>>
             /\ r \notin T /\ ~(v /\ k = r) => q = <<>>
             /\ Len(q) <= 2
             /\ Len(q) = 2 => k = r
<1> DEFINE q == (IF r \in T THEN <<f[r]>> ELSE <<>>) \o
                (IF v /\ k = r THEN <<d>> ELSE <<>>)
<1>0. f[r] \in Data
  OBVIOUS
<1>1. CASE r \in T /\ v /\ k = r
  <2>1. q = <<f[r]>> \o <<d>>
    BY <1>1
  <2> QED BY <1>0, <1>1, <2>1, PairByConcat, ShortQueues
<1>2. CASE r \in T /\ ~(v /\ k = r)
  <2>1. q = <<f[r]>> \o <<>>
    BY <1>2
  <2>2. q = <<f[r]>> /\ Len(q) = 1
    BY <1>0, <2>1, ShortQueues
  <2> QED BY <1>2, <2>2
<1>3. CASE r \notin T /\ v /\ k = r
  <2>1. q = <<>> \o <<d>>
    BY <1>3
  <2>2. q = <<d>> /\ Len(q) = 1
    BY <2>1, ShortQueues
  <2> QED BY <1>3, <2>2
<1>4. CASE r \notin T /\ ~(v /\ k = r)
  <2>1. q = <<>> \o <<>>
    BY <1>4
  <2>2. q = <<>> /\ Len(q) = 0
    BY <1>0, <2>1, ShortQueues
  <2> QED BY <1>4, <2>2
<1> QED BY <1>1, <1>2, <1>3, <1>4
LEMMA QueueNow ==
  ASSUME TypeOK, NEW r \in Reg
  PROVE  LET s == skid_valid /\ skid_idx = r
         IN  /\ r \in token_valid /\ s     => TokensOf(r) = <<regs[r], skid_data>>
             /\ r \in token_valid /\ ~s    => TokensOf(r) = <<regs[r]>>
             /\ r \notin token_valid /\ s  => TokensOf(r) = <<skid_data>>
             /\ r \notin token_valid /\ ~s => TokensOf(r) = <<>>
<1>1. /\ regs \in [Reg -> Data] /\ token_valid \in SUBSET Reg /\ skid_valid \in BOOLEAN
      /\ skid_data \in Data /\ skid_idx \in Reg
  BY DEF TypeOK
<1>2. regs[r] \in Data
  BY <1>1
<1>3. ASSUME r \in token_valid, skid_valid, skid_idx = r
      PROVE  TokensOf(r) = <<regs[r], skid_data>>
  <2>1. TokensOf(r) = <<regs[r]>> \o <<skid_data>>
    BY <1>3 DEF TokensOf
  <2> QED BY <1>1, <1>2, <2>1, PairByConcat
<1>4. ASSUME r \in token_valid, ~(skid_valid /\ skid_idx = r)
      PROVE  TokensOf(r) = <<regs[r]>>
  <2>1. TokensOf(r) = <<regs[r]>> \o <<>>
    BY <1>4 DEF TokensOf
  <2> QED BY <1>2, <2>1, ShortQueues
<1>5. ASSUME r \notin token_valid, skid_valid, skid_idx = r
      PROVE  TokensOf(r) = <<skid_data>>
  <2>1. TokensOf(r) = <<>> \o <<skid_data>>
    BY <1>5 DEF TokensOf
  <2> QED BY <1>1, <2>1, ShortQueues
<1>6. ASSUME r \notin token_valid, ~(skid_valid /\ skid_idx = r)
      PROVE  TokensOf(r) = <<>>
  <2>1. TokensOf(r) = <<>> \o <<>>
    BY <1>6 DEF TokensOf
  <2> QED BY <1>2, <2>1, ShortQueues
<1> QED BY <1>3, <1>4, <1>5, <1>6

LEMMA QueueNext ==
  ASSUME TypeOK', NEW r \in Reg
  PROVE  LET s == skid_valid' /\ skid_idx' = r
         IN  /\ r \in token_valid' /\ s     => TokensOf(r)' = <<regs'[r], skid_data'>>
             /\ r \in token_valid' /\ ~s    => TokensOf(r)' = <<regs'[r]>>
             /\ r \notin token_valid' /\ s  => TokensOf(r)' = <<skid_data'>>
             /\ r \notin token_valid' /\ ~s => TokensOf(r)' = <<>>
             /\ Len(TokensOf(r)') <= 2
             /\ Len(TokensOf(r)') = 2 => skid_idx' = r
  BY TokensCases DEF TypeOK, TokensOf

(* The history variables say which register a cycle wrote and consumed.    *)
LEMMA StepHistory ==
  ASSUME BankInv, NEW valid \in BOOLEAN, NEW proceed \in BOOLEAN, NEW data \in Data,
         StepCycle(valid, data, proceed), NEW r \in Reg
  PROVE  /\ Store!Accepted(accepted', r) <=> wr_accept(valid) /\ word.wr = r
         /\ Store!Accepted(accepted', r) => accepted'[2] = data
         /\ Store!Consumed(consumed', r)
              <=> proceed /\ reading /\ word.rd = r /\ r \in token_valid
         /\ Store!Consumed(consumed', r) => consumed'[2] = regs[r]
         /\ accepted' \in (Reg \X Data) \cup {None}
         /\ consumed' \in (Reg \X Data) \cup {None}
<1>1. word.wr \in Reg /\ word.rd \in Reg /\ regs[word.rd] \in Data
  BY DEF BankInv, TypeOK, BankFields
<1>2. accepted' = IF wr_accept(valid) THEN <<word.wr, data>> ELSE None
  BY DEF StepCycle
<1>3. consumed' = IF proceed /\ reading /\ word.rd \in token_valid
                    THEN <<word.rd, regs[word.rd]>> ELSE None
  BY DEF StepCycle, token_clear_mask
<1>4. <<word.wr, data>> # None /\ <<word.rd, regs[word.rd]>> # None
  BY <1>1, BankAssumption
<1> QED BY <1>1, <1>2, <1>3, <1>4 DEF Store!Accepted, Store!Consumed

(* What a cycle of a step does to one register: occupied skid first, then  *)
(* the accepted write, then nothing accepted.                              *)
LEMMA StepEffect ==
  ASSUME BankInv, NEW valid \in BOOLEAN, NEW proceed \in BOOLEAN, NEW data \in Data,
         StepCycle(valid, data, proceed), NEW r \in Reg
  PROVE  LET parked   == skid_valid /\ skid_idx = r
             parked_n == skid_valid' /\ skid_idx' = r
             acc == wr_accept(valid) /\ word.wr = r
             con == proceed /\ reading /\ word.rd = r
         IN  /\ parked => ~acc /\ reading /\ word.rd = r
             /\ parked /\ proceed =>
                  regs'[r] = skid_data /\ r \in token_valid' /\ ~parked_n
             /\ parked /\ ~proceed =>
                  /\ regs'[r] = regs[r] /\ (r \in token_valid' <=> r \in token_valid)
                  /\ parked_n /\ skid_data' = skid_data
             /\ acc /\ ~con =>
                  \/ /\ r \notin token_valid /\ ~(reading /\ word.rd = r)
                     /\ regs'[r] = data /\ r \in token_valid' /\ ~parked_n
                  \/ /\ regs'[r] = regs[r] /\ (r \in token_valid' <=> r \in token_valid)
                     /\ parked_n /\ skid_data' = data
             /\ acc /\ con => regs'[r] = data /\ r \in token_valid' /\ ~parked_n
             /\ ~parked /\ ~acc =>
                  /\ regs'[r] = regs[r] /\ ~parked_n
                  /\ r \in token_valid' <=> r \in token_valid /\ ~con
<1> USE DEF BankInv
<1>0. /\ regs \in [Reg -> Data] /\ word.wr \in Reg /\ word.rd \in Reg /\ skid_idx \in Reg
      /\ skid_valid \in BOOLEAN
      /\ WritePort(valid, data, proceed)
      /\ update_token_valid(valid, proceed)
      /\ update_skid(valid, data, proceed)
  BY DEF TypeOK, BankFields, StepCycle
<1>1. skid_valid => /\ ~wr_accept(valid) /\ reading
                    /\ word.rd = skid_idx /\ word.wr = skid_idx
  BY DEF SkidOfThisStep, wr_accept, outport_wr_rdy, Direct, wr_target_being_read, reading
<1>2. skid_valid => (skid_commit(proceed) <=> proceed)
  BY <1>1 DEF skid_commit, skid_target_being_read
<1>3. CASE skid_valid
  <2>1. ~wr_en(valid, proceed) /\ ~skid_park(valid, proceed) /\ ~wr_accept(valid)
    BY <1>1, <1>3 DEF wr_en, skid_park
  <2>2. CASE proceed
    <3>1. /\ regs' = [regs EXCEPT ![skid_idx] = skid_data]
          /\ token_valid' = (token_valid \ token_clear_mask(proceed)) \cup {skid_idx}
          /\ skid_valid' = FALSE
      BY <1>0, <1>2, <1>3, <2>1, <2>2
         DEF WritePort, update_token_valid, token_set_mask, update_skid
    <3> QED BY <1>0, <1>1, <1>3, <2>1, <2>2, <3>1 DEF token_clear_mask
  <2>3. CASE ~proceed
    <3>1. /\ regs' = regs
          /\ token_valid' = token_valid
          /\ skid_valid' /\ skid_data' = skid_data /\ skid_idx' = skid_idx
      BY <1>0, <1>2, <1>3, <2>1, <2>3
         DEF WritePort, update_token_valid, token_set_mask, token_clear_mask, update_skid
    <3> QED BY <1>0, <1>1, <1>3, <2>1, <2>3, <3>1
  <2> QED BY <2>2, <2>3
<1>4. CASE ~skid_valid /\ wr_en(valid, proceed)
  <2>1. ~skid_commit(proceed) /\ ~skid_park(valid, proceed) /\ wr_accept(valid)
    BY <1>4 DEF skid_commit, skid_park, wr_en
  <2>2. /\ regs' = [regs EXCEPT ![word.wr] = data]
        /\ token_valid' = (token_valid \ token_clear_mask(proceed)) \cup {word.wr}
        /\ skid_valid' = FALSE
    BY <1>0, <1>4, <2>1
       DEF WritePort, update_token_valid, token_set_mask, update_skid
  <2>3. \/ word.wr \notin token_valid /\ ~(reading /\ word.rd = word.wr)
        \/ reading /\ word.rd = word.wr /\ proceed
    BY <1>4 DEF wr_en, Direct, wr_target_holds_token, wr_target_being_read
  <2>4. CASE r = word.wr
    BY <1>0, <1>4, <2>1, <2>2, <2>3, <2>4
  <2>5. CASE r # word.wr
    <3>1. regs'[r] = regs[r]
      BY <1>0, <2>2, <2>5
    <3>2. r \in token_valid' <=> r \in token_valid /\ ~(proceed /\ reading /\ word.rd = r)
      BY <2>2, <2>5 DEF token_clear_mask
    <3> QED BY <1>4, <2>2, <2>5, <3>1, <3>2
  <2> QED BY <2>4, <2>5
<1>5. CASE ~skid_valid /\ ~wr_en(valid, proceed)
  <2>1. ~skid_commit(proceed)
    BY <1>5 DEF skid_commit
  <2>2. /\ regs' = regs
        /\ token_valid' = token_valid \ token_clear_mask(proceed)
    BY <1>0, <1>5, <2>1 DEF WritePort, update_token_valid, token_set_mask
  <2>3. r \in token_valid' <=> r \in token_valid /\ ~(proceed /\ reading /\ word.rd = r)
    BY <2>2 DEF token_clear_mask
  <2>4. CASE wr_accept(valid)
    <3>1. reading /\ word.rd = word.wr /\ ~proceed
      BY <1>5, <2>4 DEF wr_accept, outport_wr_rdy, wr_en, wr_target_being_read
    <3>2. skid_valid' /\ skid_data' = data /\ skid_idx' = word.wr
      BY <1>0, <1>5, <2>4 DEF update_skid, skid_park
    <3> QED BY <1>5, <2>2, <2>3, <2>4, <3>1, <3>2
  <2>5. CASE ~wr_accept(valid)
    <3>1. ~skid_valid'
      BY <1>0, <1>5, <2>5 DEF update_skid, skid_park
    <3> QED BY <1>5, <2>2, <2>3, <2>5, <3>1
  <2> QED BY <2>4, <2>5
<1> QED BY <1>3, <1>4, <1>5
(* The queue of every register moves as the token store says.              *)
LEMMA StepQueue ==
  ASSUME BankInv, BankInv', NEW valid \in BOOLEAN, NEW proceed \in BOOLEAN,
         NEW data \in Data, StepCycle(valid, data, proceed), NEW r \in Reg
  PROVE  /\ TokensOf(r)' = Store!After(accepted', consumed', r)
         /\ Store!Consumed(consumed', r) =>
              TokensOf(r) # <<>> /\ consumed'[2] = Head(TokensOf(r))
<1> DEFINE parked   == skid_valid /\ skid_idx = r
           parked_n == skid_valid' /\ skid_idx' = r
           acc == wr_accept(valid) /\ word.wr = r
           con == proceed /\ reading /\ word.rd = r
           tok == r \in token_valid
           tok_n == r \in token_valid'
           q == TokensOf(r)
           left == IF con /\ tok THEN Tail(q) ELSE q
<1>0. /\ TypeOK /\ TypeOK' /\ regs[r] \in Data /\ regs'[r] \in Data
      /\ skid_data \in Data /\ skid_data' \in Data
  BY DEF BankInv, TypeOK
<1>1. /\ tok /\ parked   => q = <<regs[r], skid_data>>
      /\ tok /\ ~parked  => q = <<regs[r]>>
      /\ ~tok /\ parked  => q = <<skid_data>>
      /\ ~tok /\ ~parked => q = <<>>
  BY <1>0, QueueNow
<1>2. /\ tok_n /\ parked_n   => TokensOf(r)' = <<regs'[r], skid_data'>>
      /\ tok_n /\ ~parked_n  => TokensOf(r)' = <<regs'[r]>>
      /\ ~tok_n /\ parked_n  => TokensOf(r)' = <<skid_data'>>
      /\ ~tok_n /\ ~parked_n => TokensOf(r)' = <<>>
  BY <1>0, QueueNext
<1>3. /\ Store!Consumed(consumed', r) <=> con /\ tok
      /\ Store!Consumed(consumed', r) => consumed'[2] = regs[r]
      /\ Store!Accepted(accepted', r) <=> acc
      /\ Store!Accepted(accepted', r) => accepted'[2] = data
  BY StepHistory
<1>4. Store!After(accepted', consumed', r) = IF acc THEN Append(left, data) ELSE left
  BY <1>3 DEF Store!After
<1>5. /\ parked => ~acc /\ reading /\ word.rd = r
      /\ parked /\ proceed => regs'[r] = skid_data /\ tok_n /\ ~parked_n
      /\ parked /\ ~proceed =>
           regs'[r] = regs[r] /\ (tok_n <=> tok) /\ parked_n /\ skid_data' = skid_data
      /\ acc /\ ~con =>
           \/ /\ ~tok /\ ~(reading /\ word.rd = r)
              /\ regs'[r] = data /\ tok_n /\ ~parked_n
           \/ /\ regs'[r] = regs[r] /\ (tok_n <=> tok)
              /\ parked_n /\ skid_data' = data
      /\ acc /\ con => regs'[r] = data /\ tok_n /\ ~parked_n
      /\ ~parked /\ ~acc =>
           regs'[r] = regs[r] /\ ~parked_n /\ (tok_n <=> tok /\ ~con)
  BY StepEffect
<1>6. con /\ tok => q # <<>> /\ Head(q) = regs[r]
  BY <1>0, <1>1, ShortQueues
<1> HIDE DEF tok, tok_n, parked, parked_n, acc, q
<1>7. CASE parked /\ proceed
  <2>1. TokensOf(r)' = <<skid_data>> /\ con /\ ~acc
    BY <1>2, <1>5, <1>7
  <2>2. Tail(<<regs[r], skid_data>>) = <<skid_data>>
    BY <1>0, ShortQueues
  <2>3. left = <<skid_data>>
    BY <1>1, <1>7, <2>1, <2>2
  <2> QED BY <1>3, <1>4, <1>6, <2>1, <2>3 DEF q
<1>8. CASE parked /\ ~proceed
  <2>1. TokensOf(r)' = q
    BY <1>1, <1>2, <1>5, <1>8
  <2> QED BY <1>3, <1>4, <1>5, <1>8, <2>1 DEF q
<1>9. CASE acc /\ con
  <2>1. TokensOf(r)' = <<data>> /\ ~parked
    BY <1>2, <1>5, <1>9, <1>7
  <2>2. left = <<>>
    BY <1>0, <1>1, <1>9, <2>1, ShortQueues
  <2> QED BY <1>3, <1>4, <1>6, <1>9, <2>1, <2>2, ShortQueues DEF q
<1>10. CASE acc /\ ~con
  <2>1. ~parked /\ left = q
    BY <1>5, <1>10
  <2>2. CASE tok
    <3>1. TokensOf(r)' = <<regs[r], data>> /\ q = <<regs[r]>>
      BY <1>1, <1>2, <1>5, <1>10, <2>1, <2>2
    <3> QED BY <1>0, <1>3, <1>4, <1>10, <2>1, <3>1, PairByAppend DEF q
  <2>3. CASE ~tok
    <3>1. TokensOf(r)' = <<data>> /\ q = <<>>
      BY <1>1, <1>2, <1>5, <1>10, <2>1, <2>3
    <3> QED BY <1>3, <1>4, <1>10, <2>1, <3>1, ShortQueues DEF q
  <2> QED BY <2>2, <2>3
<1>11. CASE ~parked /\ ~acc
  <2>1. CASE con /\ tok
    <3>1. TokensOf(r)' = <<>> /\ q = <<regs[r]>>
      BY <1>1, <1>2, <1>5, <1>11, <2>1
    <3>2. left = <<>>
      BY <1>0, <2>1, <3>1, ShortQueues
    <3> QED BY <1>3, <1>4, <1>6, <1>11, <3>1, <3>2 DEF q
  <2>2. CASE ~(con /\ tok)
    <3>1. TokensOf(r)' = q
      BY <1>1, <1>2, <1>5, <1>11, <2>2
    <3> QED BY <1>3, <1>4, <1>11, <2>2, <3>1 DEF q
  <2> QED BY <2>1, <2>2
<1> QED BY <1>5, <1>7, <1>8, <1>9, <1>10, <1>11
LEMMA ShortAndOnlyOneLong ==
  ASSUME TypeOK'
  PROVE  \A r, s \in Reg :
           /\ Len(TokensOf(r)') <= 2
           /\ Len(TokensOf(r)') = 2 /\ Len(TokensOf(s)') = 2 => r = s
  BY QueueNext

LEMMA StepRefines ==
  ASSUME BankInv, BankInv', NEW valid \in BOOLEAN, NEW proceed \in BOOLEAN,
         NEW data \in Data, StepCycle(valid, data, proceed)
  PROVE  Store!Cycle(accepted', consumed')
<1>1. /\ accepted' \in (Reg \X Data) \cup {None}
      /\ consumed' \in (Reg \X Data) \cup {None}
  BY StepHistory, BankAssumption
<1>2. consumed' # None =>
        /\ TokensOf(consumed'[1]) # <<>>
        /\ consumed'[2] = Head(TokensOf(consumed'[1]))
        /\ consumed'[1] \in Reg
  <2> SUFFICES ASSUME consumed' # None
               PROVE  /\ TokensOf(consumed'[1]) # <<>>
                      /\ consumed'[2] = Head(TokensOf(consumed'[1]))
                      /\ consumed'[1] \in Reg
    OBVIOUS
  <2>1. consumed'[1] \in Reg
    BY <1>1
  <2>2. Store!Consumed(consumed', consumed'[1])
    BY DEF Store!Consumed
  <2> QED BY <2>1, <2>2, StepQueue
<1>3. \A r \in Reg : TokensOf(r)' = Store!After(accepted', consumed', r)
  BY StepQueue
<1>5. cleared' = FALSE
  BY DEF StepCycle
<1>4. TypeOK'
  BY DEF BankInv
<1> QED BY <1>2, <1>3, <1>4, <1>5, ShortAndOnlyOneLong DEF Store!Cycle

(* Without a step nothing is written, and there is no token to park.       *)
LEMMA IdleRefines ==
  ASSUME BankInv, BankInv', IdleCycle
  PROVE  Store!Cycle(None, None)
<1>1. /\ ~skid_valid /\ ~skid_valid' /\ regs' = regs /\ token_valid' = token_valid
      /\ accepted' = None /\ consumed' = None /\ cleared' = FALSE
  BY DEF IdleCycle, BankInv, SkidOfThisStep, WritePort, skid_commit, wr_en, skid_park,
         wr_accept, update_token_valid, token_set_mask, token_clear_mask, update_skid
<1>2. \A r \in Reg : TokensOf(r)' = Store!After(None, None, r)
  BY <1>1 DEF TokensOf, Store!After, Store!Consumed, Store!Accepted
<1>3. TypeOK'
  BY DEF BankInv
<1> QED BY <1>1, <1>2, <1>3, ShortAndOnlyOneLong DEF Store!Cycle

LEMMA ClearRefines ==
  ASSUME BankInv', ClearCycle
  PROVE  Store!Forget
<1>1. /\ token_valid' = {} /\ skid_valid' = FALSE /\ accepted' = None /\ consumed' = None
      /\ cleared' = TRUE
  BY DEF ClearCycle
<1>2. \A r \in Reg : TokensOf(r)' = <<>>
  BY <1>1, QueueNext DEF BankInv
<1> QED BY <1>1, <1>2 DEF Store!Forget

(* The bank implements the token store: each accepted write is consumed    *)
(* exactly once and in order, whatever the interleaving of writes, reads   *)
(* and step completions.                                                   *)
THEOREM Refinement == Spec => ImplementsTokens
<1>1. Init => Store!Init
  <2> SUFFICES ASSUME Init PROVE Store!Init
    OBVIOUS
  <2>1. TypeOK
    BY InitInv DEF BankInv
  <2>2. \A r \in Reg : TokensOf(r) = <<>>
    BY <2>1, QueueNow DEF Init
  <2> QED BY <2>2 DEF Init, Store!Init
<1>2. BankInv /\ BankInv' /\ [Next]_vars => [Store!Next]_(Store!vars)
  <2> SUFFICES ASSUME BankInv, BankInv', [Next]_vars PROVE [Store!Next]_(Store!vars)
    OBVIOUS
  <2>1. CASE UNCHANGED vars
    BY <2>1 DEF vars, skid, Store!vars, TokensOf
  <2>2. ASSUME NEW valid \in BOOLEAN, NEW proceed \in BOOLEAN, NEW data \in Data,
               StepCycle(valid, data, proceed)
        PROVE  Store!Next
    <3>1. /\ accepted' \in (Reg \X Data) \cup {None}
          /\ consumed' \in (Reg \X Data) \cup {None}
      BY <2>2, StepHistory, BankAssumption
    <3> QED BY <2>2, <3>1, StepRefines DEF Store!Next
  <2>3. CASE IdleCycle
    BY <2>3, IdleRefines DEF Store!Next
  <2>4. CASE ClearCycle
    BY <2>4, ClearRefines DEF Store!Next
  <2> QED BY <2>1, <2>2, <2>3, <2>4 DEF Next
<1> QED BY <1>1, <1>2, Invariance, PTL DEF Spec, ImplementsTokens, Store!Spec
=============================================================================
