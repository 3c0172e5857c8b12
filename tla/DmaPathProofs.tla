--------------------------- MODULE DmaPathProofs ---------------------------
(* Theorems about DmaPath, for every program, memory and address range.    *)
EXTENDS DmaPath, SequenceTheorems, TLAPS

(* The queues between the engine and its memories hold nothing, or the one *)
(* request of the state the engine or the arbiter is in.                   *)
Owner == IF spm_rd_ext THEN ext_want ELSE spm_addr

DramReads ==
  IF state = "MVIN_RESP" THEN \E a : dram_rd = <<a>> ELSE dram_rd = <<>>

DramWrites ==
  IF state = "MVOUT_WAIT"
  THEN \/ dram_ack = 0 /\ \E w : dram_wr = <<w>>
       \/ dram_ack = 1 /\ dram_wr = <<>>
  ELSE dram_ack = 0 /\ dram_wr = <<>>

SpmReads ==
  IF spm_rd_busy
  THEN \/ spm_rd = <<Owner>> /\ spm_resp = <<>>
       \/ spm_rd = <<>> /\ \E d : spm_resp = << [addr |-> Owner, data |-> d] >>
  ELSE spm_rd = <<>> /\ spm_resp = <<>>

Parties ==
  /\ spm_rd_busy \in BOOLEAN /\ spm_rd_ext \in BOOLEAN
  /\ state = "MVOUT_RESP" <=> spm_rd_busy /\ ~spm_rd_ext
  /\ ext_want # NoAddr <=> spm_rd_busy /\ spm_rd_ext

IndInv == DramReads /\ DramWrites /\ SpmReads /\ Parties

LEMMA OneElement ==
  /\ Len(<<>>) = 0
  /\ \A x : /\ Append(<<>>, x) = <<x>>
           /\ Head(<<x>>) = x
           /\ Tail(<<x>>) = <<>>
           /\ Len(<<x>>) = 1
           /\ <<x>> # <<>>
<1>1. \A x : Append(<<>>, x) = <<x>>
  OBVIOUS
<1>2. \A x : Head(<<x>>) = x
  OBVIOUS
<1>3. \A x : Tail(<<x>>) = <<>>
  OBVIOUS
<1>4. \A x : Len(<<x>>) = 1
  OBVIOUS
<1>5. \A x : <<x>> # <<>>
  OBVIOUS
<1>6. Len(<<>>) = 0
  OBVIOUS
<1> QED BY <1>1, <1>2, <1>3, <1>4, <1>5, <1>6

LEMMA Implied == IndInv => ReadsOwned
<1> SUFFICES ASSUME IndInv PROVE ReadsOwned
  OBVIOUS
<1>1. Len(dram_rd) = IF state = "MVIN_RESP" THEN 1 ELSE 0
  BY OneElement DEF IndInv, DramReads
<1>2. Len(dram_wr) + dram_ack = IF state = "MVOUT_WAIT" THEN 1 ELSE 0
  <2>1. CASE dram_ack = 0 /\ \E w : dram_wr = <<w>>
    <3>1. state = "MVOUT_WAIT"
      BY <2>1, OneElement DEF IndInv, DramWrites
    <3>2. Len(dram_wr) = 1
      BY <2>1, OneElement
    <3> QED BY <2>1, <3>1, <3>2
  <2>2. CASE dram_wr = <<>>
    <3>1. Len(dram_wr) = 0
      BY <2>2, OneElement
    <3>2. dram_ack = IF state = "MVOUT_WAIT" THEN 1 ELSE 0
      BY <2>2, OneElement DEF IndInv, DramWrites
    <3> QED BY <3>1, <3>2
  <2> QED BY <2>1, <2>2 DEF IndInv, DramWrites
<1>3. Len(spm_rd) + Len(spm_resp) = IF spm_rd_busy THEN 1 ELSE 0
  <2>1. CASE spm_rd_busy /\ spm_rd = <<Owner>> /\ spm_resp = <<>>
    <3>1. Len(spm_rd) = 1 /\ Len(spm_resp) = 0
      BY <2>1, OneElement
    <3> QED BY <2>1, <3>1
  <2>2. CASE spm_rd_busy /\ spm_rd = <<>>
             /\ \E d : spm_resp = << [addr |-> Owner, data |-> d] >>
    <3>1. Len(spm_rd) = 0 /\ Len(spm_resp) = 1
      BY <2>2, OneElement
    <3> QED BY <2>2, <3>1
  <2>3. CASE ~spm_rd_busy /\ spm_rd = <<>> /\ spm_resp = <<>>
    <3>1. Len(spm_rd) = 0 /\ Len(spm_resp) = 0
      BY <2>3, OneElement
    <3> QED BY <2>3, <3>1
  <2> QED BY <2>1, <2>2, <2>3 DEF IndInv, SpmReads
<1>4. /\ spm_rd # <<>> => Head(spm_rd) = Owner
      /\ spm_resp # <<>> => Head(spm_resp).addr = Owner
  BY OneElement DEF IndInv, SpmReads
<1> QED BY <1>1, <1>2, <1>3, <1>4 DEF ReadsOwned, Owner, IndInv, Parties

LEMMA Initially == Init => IndInv
  BY OneElement DEF Init, EngineReset, IndInv, DramReads, DramWrites, SpmReads, Parties, Owner

LEMMA Step == IndInv /\ [Next]_vars => IndInv'
<1> SUFFICES ASSUME IndInv, [Next]_vars PROVE IndInv'
  OBVIOUS
<1> USE DEF IndInv
<1>1. CASE CpuSend \/ Configure \/ CpuRecv
  BY <1>1 DEF CpuSend, Configure, CpuRecv, engineVars, regVars, dramVars, readVars,
     DramReads, DramWrites, SpmReads, Parties, Owner
<1>2. CASE Launch
  BY <1>2 DEF Launch, RecvCommand, Command, dramVars, readVars,
     DramReads, DramWrites, SpmReads, Parties, Owner
<1>3. CASE ReportDone
  BY <1>3 DEF ReportDone, SendDone, regVars, dramVars, readVars,
     DramReads, DramWrites, SpmReads, Parties, Owner
<1>4. CASE DramReadReq
  BY <1>4, OneElement DEF DramReadReq, SendDramRead, NextBeatAddr, readVars,
     DramReads, DramWrites, SpmReads, Parties, Owner
<1>5. CASE DramReadResp
  BY <1>5, OneElement DEF DramReadResp, RecvDramRead, regVars, readVars,
     DramReads, DramWrites, SpmReads, Parties, Owner
<1>6. CASE DramWriteReq
  BY <1>6, OneElement DEF DramWriteReq, SendDramWrite, regVars, readVars,
     DramReads, DramWrites, SpmReads, Parties, Owner
<1>7. CASE DramCommit
  BY <1>7, OneElement DEF DramCommit, engineVars, regVars, readVars,
     DramReads, DramWrites, SpmReads, Parties, Owner
<1>8. CASE DramWriteResp
  BY <1>8, OneElement DEF DramWriteResp, RecvDramWrite, NextBeatAddr, readVars,
     DramReads, DramWrites, SpmReads, Parties, Owner
<1>9. CASE SpmWrite
  BY <1>9 DEF SpmWrite, SendSpmWrite, NextWord, dramVars, readVars,
     DramReads, DramWrites, SpmReads, Parties, Owner
<1>10. CASE SpmReadReq
  BY <1>10, OneElement DEF SpmReadReq, DmaGranted, AcceptRead, SendSpmRead, regVars, dramVars,
     DramReads, DramWrites, SpmReads, Parties, Owner
<1>11. CASE \E a \in ExtAddrs : ExtReadReq(a)
  BY <1>11, OneElement, DmaAssumption DEF ExtReadReq, ExtGranted, AcceptRead, engineVars, regVars,
     dramVars, DramReads, DramWrites, SpmReads, Parties, Owner
<1>12. CASE SpmServe
  BY <1>12, OneElement DEF SpmServe, engineVars, regVars, dramVars,
     DramReads, DramWrites, SpmReads, Parties, Owner
<1>13. CASE SpmReadResp
  BY <1>13, OneElement DEF SpmReadResp, ReleaseRead, RecvSpmRead, NextWord, dramVars,
     DramReads, DramWrites, SpmReads, Parties, Owner
<1>14. CASE ExtReadResp
  BY <1>14, OneElement DEF ExtReadResp, ReleaseRead, engineVars, regVars, dramVars,
     DramReads, DramWrites, SpmReads, Parties, Owner
<1>15. CASE UNCHANGED vars
  BY <1>15 DEF vars, engineVars, regVars, dramVars, readVars,
     DramReads, DramWrites, SpmReads, Parties, Owner
<1> QED BY <1>1, <1>2, <1>3, <1>4, <1>5, <1>6, <1>7, <1>8, <1>9, <1>10, <1>11, <1>12, <1>13,
           <1>14, <1>15 DEF Next, Progress

(* Whatever the programs, the sizes and the delays, nobody receives a word *)
(* another one asked for: the arbiter's single outstanding read is its     *)
(* owner's, and the engine's requests to the external memory are the one   *)
(* it waits for.                                                           *)
THEOREM Ownership == Spec => []ReadsOwned
<1>1. IndInv => ReadsOwned
  BY Implied
<1>2. Init => IndInv
  BY Initially
<1>3. IndInv /\ [Next]_vars => IndInv'
  BY Step
<1> QED BY <1>1, <1>2, <1>3, PTL DEF Spec
-----------------------------------------------------------------------------
(* The path copies blocks.  A transfer has fetched some words, of which    *)
(* the last are in the beat; where the next word and the next beat are     *)
(* follows from their number.                                              *)
(* Words of the transfer that left the memory they come from.              *)
Fetched == job.words - words_left

(* The next beat is k words behind the next word, and in range.            *)
BeatAt(k) ==
  /\ dram_addr \div WordBytes = job.dram + Fetched + k
  /\ dram_addr + WordBytes * (words_left - k) <= DramAddrMod

Filled(n) == \A l \in 0 .. (n - 1) : beat[l] = spm[job.spm + Fetched - n + l]

Loading ==
  /\ state = "MVIN_REQ" => words_left > 0 /\ BeatAt(0)
  /\ state = "MVIN_RESP" =>
       /\ words_left > 0
       /\ Head(dram_rd) \div WordBytes = job.dram + Fetched
       /\ words_left > Lanes => BeatAt(Lanes)
  /\ state = "MVIN_WRITE" =>
       /\ words_left > 0
       /\ \A l \in 0 .. (Lanes - 1) : beat[l] = dram[job.dram + Fetched - word_idx + l]
       /\ words_left > Lanes - word_idx => BeatAt(Lanes - word_idx)

Storing ==
  /\ state \in {"MVOUT_READ", "MVOUT_RESP"} =>
       words_left > 0 /\ BeatAt(0 - word_idx) /\ Filled(word_idx)
  /\ state \in {"MVOUT_WRITE", "MVOUT_WAIT"} =>
       /\ BeatAt(0 - (word_idx + 1))
       /\ words_left = 0 \/ word_idx = Lanes - 1
       /\ state = "MVOUT_WRITE" \/ dram_wr # <<>> =>
            wr_mask = 0 .. word_idx /\ Filled(word_idx + 1)
       /\ dram_wr # <<>> =>
            dram_wr = << [addr |-> dram_addr, data |-> beat, mask |-> wr_mask] >>
  /\ state = "MVOUT_RESP" /\ spm_resp # <<>> => Head(spm_resp).data = spm[spm_addr]

Transfer ==
  /\ job \in Job \cup {NoJob}
  /\ state = "IDLE" <=> job = NoJob
  /\ state \in {"IDLE", "DONE", "MVIN_REQ", "MVIN_RESP", "MVIN_WRITE", "MVOUT_READ", "MVOUT_RESP",
                "MVOUT_WRITE", "MVOUT_WAIT"}
  /\ dram_addr \in Nat /\ spm_addr \in Nat /\ words_left \in 0 .. (BytesMod - 1)
  /\ word_idx \in 0 .. (Lanes - 1)
  /\ beat = [l \in 0 .. (Lanes - 1) |-> beat[l]]
  /\ job # NoJob =>
       /\ tag = job.tag /\ words_left <= job.words
       /\ state \in {"MVIN_REQ", "MVIN_RESP", "MVIN_WRITE"} => job.op = "MVIN"
       /\ state \in {"MVOUT_READ", "MVOUT_RESP", "MVOUT_WRITE", "MVOUT_WAIT"} => job.op = "MVOUT"
       /\ words_left > 0 => /\ spm_addr = job.spm + Fetched
                            /\ spm_addr + words_left <= SpmAddrMod
       /\ state = "DONE" => words_left = 0
       /\ Loading /\ Storing

Rest == cpu_in \o program
Commanded ==
  /\ cpu_in \in Seq(Packet) /\ program \in Seq(Packet) /\ config \in [Registers -> Nat]
  /\ Fits(config, Rest) /\ \A i \in DOMAIN Rest : Rest[i].cmd \notin Registers => Rest[i].job \in Jobs

CopyInv == Memory(dram) /\ Memory(spm) /\ Transfer /\ Commanded

LEMMA Arithmetic ==
  /\ \A x \in Nat, m \in Nat : x < m => x % m = x
  /\ \A x \in Nat, m \in Nat \ {0} : x % m \in 0 .. (m - 1)
  /\ \A x \in Nat : x \div 4 \in Nat /\ (x + 16) \div 4 = x \div 4 + 4 /\ 4 * (x \div 4) <= x
  OBVIOUS

LEMMA Wrap ==
  ASSUME NEW x \in Nat, NEW m \in Nat \ {0}
  PROVE  x % m \in Nat /\ (x < m => x % m = x)
  OBVIOUS

LEMMA Sizes ==
  /\ DramAddrMod \in Nat \ {0} /\ SpmAddrMod \in Nat \ {0} /\ BytesMod \in Nat \ {0}
  /\ HalfMod \in Nat \ {0}
  BY DmaAssumption

Copied == [Copy!CopyNext]_(Copy!copyVars)

LEMMA Quiet ==
  ASSUME UNCHANGED <<dram, spm, job, reports>>, Moved' = Moved
  PROVE  Copied
  BY DEF Copied, Copy!copyVars

(* A transfer and what it is in the middle of, without the CPU.            *)
LEMMA CommandedKept ==
  ASSUME Commanded, UNCHANGED <<program, cpu_in, config>>
  PROVE  Commanded'
  BY DEF Commanded, Rest

LEMMA Underway ==
  ASSUME Transfer, state # "IDLE"
  PROVE  /\ job # NoJob /\ job.words \in Nat /\ job.dram \in Nat /\ job.spm \in Nat /\ job.tag \in Nat
         /\ job.op \in {"MVIN", "MVOUT"}
         /\ words_left \in Nat /\ words_left < BytesMod /\ word_idx \in 0 .. 3
         /\ dram_addr \in Nat /\ spm_addr \in Nat
         /\ Fetched \in Nat /\ Fetched + words_left = job.words
<1>1. job \in Job
  BY DEF Transfer
<1>2. job.words \in Nat /\ job.dram \in Nat /\ job.spm \in Nat /\ job.tag \in Nat /\ job.op \in {"MVIN", "MVOUT"}
  BY <1>1 DEF Job
<1>3. words_left \in Nat /\ words_left < BytesMod /\ words_left <= job.words /\ word_idx \in 0 .. 3
  BY Sizes DEF Transfer, Lanes
<1> QED BY <1>2, <1>3 DEF Transfer, Fetched

LEMMA SpmReadReqCopies ==
  ASSUME CopyInv, IndInv, SpmReadReq
  PROVE  CopyInv' /\ Copied
<1>1. /\ UNCHANGED <<dram, spm, job, reports, program, cpu_in, config, tag, opcode, dram_addr, spm_addr,
                     words_left, beat, word_idx, wr_mask, dram_wr, dram_rd>>
      /\ state = "MVOUT_READ" /\ state' = "MVOUT_RESP" /\ spm_resp' = spm_resp /\ spm_resp = <<>>
  BY DEF SpmReadReq, SendSpmRead, DmaGranted, AcceptRead, regVars, cpuVars, dramVars, history, IndInv, SpmReads
<1>2. Transfer'
  BY <1>1 DEF CopyInv, Transfer, Loading, Storing, Filled, BeatAt, Fetched
<1>3. Moved' = Moved
  BY <1>1 DEF Moved, InBeat
<1> QED BY <1>1, <1>2, <1>3, Quiet, CommandedKept DEF CopyInv, Memory

LEMMA DramReadReqCopies ==
  ASSUME CopyInv, IndInv, DramReadReq
  PROVE  CopyInv' /\ Copied
<1>1. /\ UNCHANGED <<dram, spm, job, reports, program, cpu_in, config, tag, opcode, spm_addr,
                     words_left, beat, word_idx, wr_mask, dram_wr>>
      /\ state = "MVIN_REQ" /\ state' = "MVIN_RESP" /\ dram_rd' = <<dram_addr>>
      /\ dram_addr' = (dram_addr + 16) % DramAddrMod
  BY OneElement DEF DramReadReq, SendDramRead, NextBeatAddr, cpuVars, history, IndInv, DramReads,
                    BeatBytes, Lanes, WordBytes
<1>2. Head(dram_rd') = dram_addr
  BY <1>1, OneElement
<1>3. Transfer /\ dram_wr = <<>>
  BY <1>1 DEF CopyInv, IndInv, DramWrites
<1>4. /\ words_left > 0 /\ dram_addr \div 4 = job.dram + Fetched
      /\ dram_addr + 4 * words_left <= DramAddrMod
  <2>1. /\ Fetched \in Nat /\ words_left \in Nat /\ dram_addr \in Nat
        /\ job # NoJob /\ job.dram \in Nat /\ job.op \in {"MVIN", "MVOUT"}
    BY <1>1, <1>3, Underway
  <2>2. words_left > 0 /\ BeatAt(0)
    BY <1>1, <1>3, <2>1 DEF Transfer, Loading
  <2>3. /\ dram_addr \div 4 = job.dram + Fetched + 0
        /\ dram_addr + 4 * (words_left - 0) <= DramAddrMod
    BY <2>2 DEF BeatAt, WordBytes
  <2>4. job.dram + Fetched + 0 = job.dram + Fetched /\ words_left - 0 = words_left
    <3> DEFINE a == job.dram
    <3>1. a \in Nat
      BY <2>1
    <3> HIDE DEF a
    <3>2. a + Fetched + 0 = a + Fetched /\ words_left - 0 = words_left
      BY <2>1, <3>1
    <3> QED BY <3>2 DEF a
  <2> QED BY <2>2, <2>3, <2>4
<1>5. /\ dram_addr' \in Nat
      /\ dram_addr + 16 < DramAddrMod => dram_addr' = dram_addr + 16
  <2>1. dram_addr + 16 \in Nat
    BY <1>1, <1>3, Underway
  <2> QED BY <1>1, <2>1, Wrap, Sizes
<1>6. words_left > 4 => BeatAt(4)'
  <2> SUFFICES ASSUME words_left > 4 PROVE BeatAt(4)'
    OBVIOUS
  <2>1. dram_addr + 16 < DramAddrMod
    BY <1>1, <1>3, <1>4, Underway, Sizes
  <2>2. dram_addr' = dram_addr + 16
    BY <1>5, <2>1
  <2>3. dram_addr' \div 4 = dram_addr \div 4 + 4
    BY <1>1, <1>3, <2>2, Underway, Arithmetic
  <2> QED BY <1>1, <1>3, <1>4, <2>2, <2>3, Underway DEF BeatAt, WordBytes, Fetched
<1>7. Transfer'
  BY <1>1, <1>2, <1>3, <1>4, <1>5, <1>6 DEF Transfer, Loading, Storing, Fetched, Lanes, WordBytes
<1>8. Moved' = Moved
  BY <1>1 DEF Moved, InBeat
<1> QED BY <1>1, <1>7, <1>8, Quiet, CommandedKept DEF CopyInv, Memory

(* Steps of the read port and of the CPU that the transfer does not see.   *)
LEMMA Unseen ==
  ASSUME CopyInv,
         UNCHANGED <<state, dram_addr, spm_addr, tag, words_left, beat, word_idx, wr_mask, dram, dram_rd,
                     dram_wr, spm, job, reports, program, cpu_in, config>>,
         state = "MVOUT_RESP" /\ spm_resp' # <<>> => Head(spm_resp').data = spm[spm_addr]
  PROVE  CopyInv' /\ Copied
<1>1. Transfer'
  BY DEF CopyInv, Transfer, Loading, Storing, Filled, BeatAt, Fetched
<1>2. Moved' = Moved
  BY DEF Moved, InBeat
<1> QED BY <1>1, <1>2, Quiet, CommandedKept DEF CopyInv, Memory

LEMMA UnseenSteps ==
  ASSUME CopyInv, IndInv, CpuRecv \/ SpmServe \/ ExtReadResp \/ (\E a \in ExtAddrs : ExtReadReq(a)) \/ UNCHANGED vars
  PROVE  CopyInv' /\ Copied
<1>1. UNCHANGED <<state, dram_addr, spm_addr, tag, words_left, beat, word_idx, wr_mask, dram, dram_rd,
                  dram_wr, spm, job, reports, program, cpu_in, config>>
  BY DEF CpuRecv, SpmServe, ExtReadResp, ExtReadReq, AcceptRead, ReleaseRead, vars, engineVars, regVars, cpuVars,
     dramVars, readVars, history
<1>2. state = "MVOUT_RESP" /\ spm_resp' # <<>> => Head(spm_resp').data = spm[spm_addr]
  <2>1. CASE CpuRecv \/ (\E a \in ExtAddrs : ExtReadReq(a)) \/ UNCHANGED vars
    <3>1. spm_resp' = spm_resp
      BY <2>1 DEF CpuRecv, ExtReadReq, vars, readVars
    <3> QED BY <3>1, Underway DEF CopyInv, Transfer, Storing
  <2>2. CASE ExtReadResp
    BY <2>2 DEF ExtReadResp, IndInv, Parties
  <2>3. CASE SpmServe
    <3> SUFFICES ASSUME state = "MVOUT_RESP" PROVE Head(spm_resp').data = spm[spm_addr]
      OBVIOUS
    <3>1. spm_rd = <<spm_addr>> /\ spm_resp = <<>>
      BY <2>3, OneElement DEF SpmServe, IndInv, SpmReads, Parties, Owner
    <3>2. Head(spm_rd) = spm_addr
      BY <3>1, OneElement
    <3>3. spm_resp' = << [addr |-> spm_addr, data |-> spm[spm_addr]] >>
      BY <2>3, <3>1, <3>2, OneElement DEF SpmServe
    <3>4. Head(spm_resp') = [addr |-> spm_addr, data |-> spm[spm_addr]]
      BY <3>3, OneElement
    <3> QED BY <3>4
  <2> QED BY <2>1, <2>2, <2>3
<1> QED BY <1>1, <1>2, Unseen

LEMMA ReportDoneCopies ==
  ASSUME CopyInv, IndInv, ReportDone
  PROVE  CopyInv' /\ Copied
<1>1. /\ UNCHANGED <<dram, spm, program, cpu_in, config, tag, opcode, spm_addr, dram_addr,
                     words_left, beat, word_idx, wr_mask, dram_wr>>
      /\ state = "DONE" /\ state' = "IDLE" /\ job' = NoJob /\ reports' = Append(reports, tag)
  BY DEF ReportDone, SendDone, regVars, dramVars
<1>2. Transfer
  BY DEF CopyInv
<1>3. job # NoJob /\ words_left = 0 /\ tag = job.tag /\ job.words \in Nat
  BY <1>1, <1>2, Underway DEF Transfer
<1>4. Moved = job.words /\ Moved' = 0
  BY <1>1, <1>3 DEF Moved, InBeat
<1>5. Transfer'
  BY <1>1, <1>2 DEF Transfer
<1>6. Copy!Report
  BY <1>1, <1>3, <1>4 DEF Copy!Report
<1> QED BY <1>1, <1>5, <1>6, CommandedKept DEF CopyInv, Memory, Copied, Copy!CopyNext

LEMMA DramReadRespCopies ==
  ASSUME CopyInv, IndInv, DramReadResp
  PROVE  CopyInv' /\ Copied
<1>1. /\ UNCHANGED <<dram, spm, job, reports, program, cpu_in, config, tag, opcode, spm_addr, dram_addr,
                     words_left, wr_mask, dram_wr>>
      /\ state = "MVIN_RESP" /\ state' = "MVIN_WRITE" /\ word_idx' = 0
      /\ beat' = DramBeat(Head(dram_rd))
  BY DEF DramReadResp, RecvDramRead, regVars, cpuVars, history
<1>2. Transfer /\ dram_wr = <<>>
  BY <1>1 DEF CopyInv, IndInv, DramWrites
<1>3. /\ words_left > 0 /\ Head(dram_rd) \div 4 = job.dram + Fetched
      /\ words_left > 4 => BeatAt(4)
  BY <1>1, <1>2, Underway DEF Transfer, Loading, WordBytes, Lanes
<1>4. /\ beat' = [l \in 0 .. 3 |-> dram[job.dram + Fetched + l]]
  BY <1>1, <1>3 DEF DramBeat, Lanes, WordBytes
<1>5. /\ beat' = [l \in 0 .. 3 |-> beat'[l]]
      /\ \A l \in 0 .. 3 : beat'[l] = dram[job.dram + Fetched + l]
  BY <1>4
<1>6. Fetched' = Fetched /\ BeatAt(4)' = BeatAt(4)
  BY <1>1 DEF BeatAt, Fetched
<1>7. \A l \in 0 .. 3 : beat'[l] = dram[job.dram + Fetched - word_idx' + l]
  BY <1>1, <1>2, <1>5, Underway
<1>8. Transfer'
  BY <1>1, <1>2, <1>3, <1>5, <1>6, <1>7 DEF Transfer, Loading, Storing, Lanes
<1>9. Moved' = Moved
  BY <1>1 DEF Moved, InBeat
<1> QED BY <1>1, <1>8, <1>9, Quiet, CommandedKept DEF CopyInv, Memory

LEMMA DramWriteReqCopies ==
  ASSUME CopyInv, IndInv, DramWriteReq
  PROVE  CopyInv' /\ Copied
<1>1. /\ UNCHANGED <<dram, spm, job, reports, program, cpu_in, config, tag, opcode, spm_addr, dram_addr,
                     words_left, wr_mask, beat, word_idx>>
      /\ state = "MVOUT_WRITE" /\ state' = "MVOUT_WAIT"
      /\ dram_wr' = << [addr |-> dram_addr, data |-> beat, mask |-> wr_mask] >>
      /\ dram_wr' # <<>>
  BY OneElement DEF DramWriteReq, SendDramWrite, regVars, cpuVars, history, IndInv, DramWrites
<1>2. Transfer'
  BY <1>1 DEF CopyInv, Transfer, Loading, Storing, Filled, BeatAt, Fetched
<1>3. Moved' = Moved
  BY <1>1 DEF Moved, InBeat
<1> QED BY <1>1, <1>2, <1>3, Quiet, CommandedKept DEF CopyInv, Memory

(* A word goes into the scratchpad.                                        *)
LEMMA SpmWriteCopies ==
  ASSUME CopyInv, IndInv, SpmWrite
  PROVE  CopyInv' /\ Copied
<1>1. /\ UNCHANGED <<dram, job, reports, program, cpu_in, config, tag, opcode, dram_addr, beat, wr_mask,
                     dram_rd, dram_wr>>
      /\ state = "MVIN_WRITE" /\ spm' = [spm EXCEPT ![spm_addr] = beat[word_idx]]
      /\ spm_addr' = (spm_addr + 1) % SpmAddrMod /\ words_left' = (words_left - 1) % BytesMod
      /\ \/ words_left = 1 /\ state' = "DONE" /\ word_idx' = word_idx
         \/ words_left # 1 /\ word_idx = 3 /\ state' = "MVIN_REQ" /\ word_idx' = 0
         \/ words_left # 1 /\ word_idx # 3 /\ word_idx' = word_idx + 1 /\ state' = "MVIN_WRITE"
  BY DEF SpmWrite, SendSpmWrite, NextWord, cpuVars, dramVars, history
<1>2. Transfer /\ dram_wr = <<>>
  BY <1>1 DEF CopyInv, IndInv, DramWrites
<1>3. /\ job # NoJob /\ job.op = "MVIN"
      /\ \A l \in 0 .. 3 : beat[l] = dram[job.dram + Fetched - word_idx + l]
      /\ words_left > 4 - word_idx => BeatAt(4 - word_idx)
  BY <1>1, <1>2, Underway DEF Transfer, Loading, Lanes
<1>4. /\ words_left \in Nat /\ words_left > 0 /\ words_left < BytesMod /\ BytesMod \in Nat \ {0}
      /\ job.words \in Nat /\ Fetched \in Nat /\ Fetched + words_left = job.words
      /\ spm_addr \in Nat /\ SpmAddrMod \in Nat \ {0} /\ job.dram \in Nat /\ job.spm \in Nat
      /\ word_idx \in 0 .. 3
  BY <1>1, <1>2, Underway, Sizes DEF Transfer, Loading
<1>5. spm_addr = job.spm + Fetched /\ spm_addr + words_left <= SpmAddrMod
  BY <1>1, <1>2, <1>3, <1>4 DEF Transfer
<1>6. words_left' = words_left - 1 /\ words_left' \in Nat /\ words_left' < BytesMod
  <2>1. words_left - 1 \in Nat /\ words_left - 1 < BytesMod
    BY <1>4
  <2> QED BY <1>1, <1>4, <2>1, Wrap
<1>7. Fetched' = Fetched + 1 /\ words_left' <= job.words
  <2>1. Fetched = job.words - words_left /\ Fetched' = job.words - words_left'
    BY <1>1 DEF Fetched
  <2> QED BY <1>4, <1>6, <2>1
<1>8. spm_addr' \in Nat /\ (words_left > 1 => spm_addr' = spm_addr + 1)
  <2>1. spm_addr + 1 \in Nat /\ (words_left > 1 => spm_addr + 1 < SpmAddrMod)
    BY <1>4, <1>5
  <2> QED BY <1>1, <1>4, <2>1, Wrap
<1>9. words_left' > 0 => spm_addr' = job.spm + Fetched' /\ spm_addr' + words_left' <= SpmAddrMod
  <2> SUFFICES ASSUME words_left' > 0
               PROVE  spm_addr' = job.spm + Fetched' /\ spm_addr' + words_left' <= SpmAddrMod
    OBVIOUS
  <2>1. words_left > 1
    BY <1>4, <1>6
  <2>2. spm_addr' = spm_addr + 1
    BY <1>8, <2>1
  <2> QED BY <1>4, <1>5, <1>6, <1>7, <2>2
<1> DEFINE NextBeatAt(k) ==
      /\ dram_addr' \div WordBytes = job'.dram + Fetched' + k
      /\ dram_addr' + WordBytes * (words_left' - k) <= DramAddrMod
<1>10. dram_addr \in Nat /\ DramAddrMod \in Nat /\ UNCHANGED dram_addr /\ UNCHANGED job
  BY <1>1, <1>2, Sizes, Underway
<1>11. ASSUME NEW k \in Int, BeatAt(k + 1) PROVE NextBeatAt(k)
  BY <1>4, <1>6, <1>7, <1>10, <1>11 DEF BeatAt, WordBytes
<1>12. ASSUME state' = "MVIN_REQ" PROVE words_left' > 0 /\ BeatAt(0)'
  <2>1. word_idx = 3 /\ words_left # 1
    BY <1>1, <1>12
  <2>2. words_left > 4 - word_idx /\ words_left' > 0 /\ 4 - word_idx = 0 + 1
    BY <1>4, <1>6, <2>1
  <2>3. BeatAt(0 + 1)
    BY <1>3, <2>2
  <2>4. NextBeatAt(0)
    BY <1>11, <2>3
  <2> QED BY <2>2, <2>4 DEF BeatAt
<1>13. ASSUME state' = "MVIN_WRITE"
       PROVE  /\ words_left' > 0
              /\ \A l \in 0 .. 3 : beat'[l] = dram'[job.dram + Fetched' - word_idx' + l]
              /\ words_left' > 4 - word_idx' => BeatAt(4 - word_idx)'
  <2>1. word_idx' = word_idx + 1 /\ words_left # 1
    BY <1>1, <1>13
  <2>2. /\ words_left' > 0 /\ 4 - word_idx = (4 - word_idx') + 1 /\ 4 - word_idx' \in Int
        /\ words_left' > 4 - word_idx' => words_left > 4 - word_idx
    BY <1>4, <1>6, <2>1
  <2>3. \A l \in 0 .. 3 : job.dram + Fetched' - word_idx' + l = job.dram + Fetched - word_idx + l
    BY <1>4, <1>7, <2>1
  <2>4. ASSUME words_left' > 4 - word_idx' PROVE NextBeatAt(4 - word_idx')
    <3>1. BeatAt((4 - word_idx') + 1)
      BY <1>3, <2>2, <2>4
    <3>2. 4 - word_idx' \in Int
      BY <2>2
    <3> HIDE DEF NextBeatAt
    <3> QED BY <1>11, <3>1, <3>2
  <2>5. words_left' > 4 - word_idx' => BeatAt(4 - word_idx)'
    BY <2>4 DEF BeatAt
  <2> QED BY <1>1, <1>3, <2>2, <2>3, <2>5
<1>14. word_idx' \in 0 .. 3
  BY <1>1, <1>4
<1>15. Transfer'
  <2>1. state' \in {"DONE", "MVIN_REQ", "MVIN_WRITE"}
    BY <1>1
  <2>2. words_left' = 0 \/ state' # "DONE"
    BY <1>1, <1>4, <1>6
  <2>3. Loading' /\ Storing'
    BY <1>1, <1>12, <1>13, <1>2, <2>1 DEF Loading, Storing, Lanes
  <2>4. /\ tag' = job'.tag /\ job'.op = "MVIN" /\ job' \in Job \cup {NoJob} /\ job' # NoJob
        /\ beat' = [l \in 0 .. (Lanes - 1) |-> beat'[l]]
    BY <1>1, <1>2, <1>3 DEF Transfer
  <2>5. words_left' \in 0 .. (BytesMod - 1) /\ word_idx' \in 0 .. (Lanes - 1)
    BY <1>4, <1>6, <1>14 DEF Lanes
  <2>6. dram_addr' \in Nat /\ spm_addr' \in Nat /\ words_left' <= job'.words
    BY <1>7, <1>8, <1>10
  <2>7. words_left' > 0 => spm_addr' = job'.spm + Fetched' /\ spm_addr' + words_left' <= SpmAddrMod
    BY <1>9, <1>10
  <2> QED BY <2>1, <2>2, <2>3, <2>4, <2>5, <2>6, <2>7 DEF Transfer
<1>16. Moved = Fetched /\ Moved' = Fetched + 1
  <2>1. InBeat = 0 /\ InBeat' = 0
    BY <1>1 DEF InBeat
  <2>2. Moved = Fetched - 0 /\ Moved' = Fetched' - 0
    BY <1>1, <1>3, <2>1 DEF Moved, Fetched
  <2> QED BY <1>4, <1>7, <2>2
<1>17. Moved + 1 <= job.words
  BY <1>4, <1>16
<1>18. spm' = Copy!CopyWords(dram, job.dram, spm, job.spm, Moved, Moved + 1)
  <2>1. \A a \in DOMAIN spm : a \in (job.spm + Moved) .. (job.spm + (Moved + 1) - 1) <=> a = spm_addr
    BY <1>4, <1>5, <1>16 DEF CopyInv, Memory
  <2>2. beat[word_idx] = dram[job.dram + (spm_addr - job.spm)]
    <3>1. job.dram + Fetched - word_idx + word_idx = job.dram + (spm_addr - job.spm)
      BY <1>4, <1>5
    <3> QED BY <1>3, <1>4, <3>1
  <2>3. spm' = [a \in DOMAIN spm |-> IF a = spm_addr THEN beat[word_idx] ELSE spm[a]]
    BY <1>1
  <2> QED BY <2>1, <2>2, <2>3 DEF Copy!CopyWords
<1>19. Copy!Move(1)
  BY <1>1, <1>3, <1>16, <1>17, <1>18 DEF Copy!Move
<1>20. Memory(spm')
  BY <1>1 DEF Memory, CopyInv
<1> QED BY <1>1, <1>15, <1>19, <1>20, CommandedKept DEF CopyInv, Memory, Copied, Copy!CopyNext, Lanes

(* A word of the scratchpad enters the beat.                               *)
LEMMA SpmReadRespCopies ==
  ASSUME CopyInv, IndInv, SpmReadResp
  PROVE  CopyInv' /\ Copied
<1>1. /\ UNCHANGED <<dram, spm, job, reports, program, cpu_in, config, tag, opcode, dram_addr, dram_wr>>
      /\ state = "MVOUT_RESP" /\ beat' = [beat EXCEPT ![word_idx] = Head(spm_resp).data]
      /\ spm_addr' = (spm_addr + 1) % SpmAddrMod /\ words_left' = (words_left - 1) % BytesMod
      /\ \/ /\ words_left = 1 \/ word_idx = 3
            /\ wr_mask' = 0 .. word_idx /\ state' = "MVOUT_WRITE" /\ word_idx' = word_idx
         \/ /\ words_left # 1 /\ word_idx # 3
            /\ state' = "MVOUT_READ" /\ word_idx' = word_idx + 1
      /\ spm_resp # <<>>
  BY DEF SpmReadResp, ReleaseRead, RecvSpmRead, NextWord, cpuVars, dramVars, history
<1>2. Transfer /\ dram_wr = <<>>
  BY <1>1 DEF CopyInv, IndInv, DramWrites
<1>3. /\ job # NoJob /\ job.op = "MVOUT" /\ BeatAt(0 - word_idx) /\ Filled(word_idx)
      /\ Head(spm_resp).data = spm[spm_addr]
  BY <1>1, <1>2, Underway DEF Transfer, Storing, Lanes
<1>4. /\ words_left \in Nat /\ words_left > 0 /\ words_left < BytesMod /\ BytesMod \in Nat \ {0}
      /\ job.words \in Nat /\ Fetched \in Nat /\ Fetched + words_left = job.words
      /\ spm_addr \in Nat /\ SpmAddrMod \in Nat \ {0} /\ job.dram \in Nat /\ job.spm \in Nat
      /\ word_idx \in 0 .. 3
  BY <1>1, <1>2, Underway, Sizes DEF Transfer, Storing
<1>5. spm_addr = job.spm + Fetched /\ spm_addr + words_left <= SpmAddrMod
  BY <1>1, <1>2, <1>3, <1>4 DEF Transfer
<1>6. words_left' = words_left - 1 /\ words_left' \in Nat /\ words_left' < BytesMod
  <2>1. words_left - 1 \in Nat /\ words_left - 1 < BytesMod
    BY <1>4
  <2> QED BY <1>1, <1>4, <2>1, Wrap
<1>7. Fetched' = Fetched + 1 /\ words_left' <= job.words
  <2>1. Fetched = job.words - words_left /\ Fetched' = job.words - words_left'
    BY <1>1 DEF Fetched
  <2> QED BY <1>4, <1>6, <2>1
<1>8. spm_addr' \in Nat /\ (words_left > 1 => spm_addr' = spm_addr + 1)
  <2>1. spm_addr + 1 \in Nat /\ (words_left > 1 => spm_addr + 1 < SpmAddrMod)
    BY <1>4, <1>5
  <2> QED BY <1>1, <1>4, <2>1, Wrap
<1>9. words_left' > 0 => spm_addr' = job.spm + Fetched' /\ spm_addr' + words_left' <= SpmAddrMod
  <2> SUFFICES ASSUME words_left' > 0
               PROVE  spm_addr' = job.spm + Fetched' /\ spm_addr' + words_left' <= SpmAddrMod
    OBVIOUS
  <2>1. words_left > 1
    BY <1>4, <1>6
  <2>2. spm_addr' = spm_addr + 1
    BY <1>8, <2>1
  <2> QED BY <1>4, <1>5, <1>6, <1>7, <2>2
<1> DEFINE n == word_idx + 1
<1>10. dram_addr \in Nat /\ DramAddrMod \in Nat /\ UNCHANGED dram_addr /\ UNCHANGED job
  BY <1>1, <1>2, Sizes, Underway
<1>11. /\ dram_addr' \div WordBytes = job'.dram + Fetched' + (0 - n)
       /\ dram_addr' + WordBytes * (words_left' - (0 - n)) <= DramAddrMod
  BY <1>3, <1>4, <1>6, <1>7, <1>10 DEF BeatAt, WordBytes
<1>12. beat' = [l \in 0 .. 3 |-> IF l = word_idx THEN spm[spm_addr] ELSE beat[l]]
  <2>1. DOMAIN beat = 0 .. 3
    BY <1>2 DEF Transfer, Lanes
  <2> QED BY <1>1, <1>3, <2>1
<1>13. \A l \in 0 .. (n - 1) : beat'[l] = spm'[job'.spm + Fetched' - n + l]
  <2> TAKE l \in 0 .. (n - 1)
  <2>1. l \in 0 .. 3 /\ (l # word_idx => l \in 0 .. (word_idx - 1))
    BY <1>4
  <2>2. job.spm + Fetched' - n + l = job.spm + Fetched - word_idx + l
    BY <1>4, <1>7, <2>1
  <2>3. l = word_idx => job.spm + Fetched - word_idx + l = spm_addr
    BY <1>4, <1>5, <2>1
  <2>4. l # word_idx => beat[l] = spm[job.spm + Fetched - word_idx + l]
    BY <1>3, <2>1 DEF Filled
  <2> QED BY <1>1, <1>12, <2>1, <2>2, <2>3, <2>4
<1>14. ASSUME state' = "MVOUT_READ"
       PROVE  words_left' > 0 /\ BeatAt(0 - word_idx)' /\ Filled(word_idx)' /\ word_idx' \in 0 .. 3
  <2>1. word_idx' = n /\ words_left # 1 /\ word_idx # 3
    BY <1>1, <1>14
  <2>2. words_left' > 0 /\ word_idx' \in 0 .. 3
    BY <1>4, <1>6, <2>1
  <2> QED BY <1>11, <1>13, <2>1, <2>2 DEF BeatAt, Filled
<1>15. ASSUME state' = "MVOUT_WRITE"
       PROVE  /\ BeatAt(0 - (word_idx + 1))' /\ Filled(word_idx + 1)'
              /\ words_left' = 0 \/ word_idx' = Lanes - 1
              /\ wr_mask' = 0 .. word_idx' /\ word_idx' \in 0 .. 3
  <2>1. word_idx' = word_idx /\ wr_mask' = 0 .. word_idx /\ (words_left = 1 \/ word_idx = 3)
    BY <1>1, <1>15
  <2>2. words_left' = 0 \/ word_idx' = Lanes - 1
    BY <1>4, <1>6, <2>1 DEF Lanes
  <2> QED BY <1>4, <1>11, <1>13, <2>1, <2>2 DEF BeatAt, Filled
<1>16. state' \in {"MVOUT_READ", "MVOUT_WRITE"}
  BY <1>1
<1>17. Transfer'
  <2>1. Loading' /\ Storing'
    BY <1>1, <1>2, <1>14, <1>15, <1>16 DEF Loading, Storing
  <2>2. /\ tag' = job'.tag /\ job'.op = "MVOUT" /\ job' \in Job \cup {NoJob} /\ job' # NoJob
    BY <1>1, <1>2, <1>3 DEF Transfer
  <2>3. beat' = [l \in 0 .. (Lanes - 1) |-> beat'[l]]
    BY <1>12 DEF Lanes
  <2>4. words_left' \in 0 .. (BytesMod - 1) /\ word_idx' \in 0 .. (Lanes - 1)
    BY <1>4, <1>6, <1>14, <1>15, <1>16 DEF Lanes
  <2>5. dram_addr' \in Nat /\ spm_addr' \in Nat /\ words_left' <= job'.words
    BY <1>7, <1>8, <1>10
  <2>6. words_left' > 0 => spm_addr' = job'.spm + Fetched' /\ spm_addr' + words_left' <= SpmAddrMod
    BY <1>9, <1>10
  <2> QED BY <1>16, <2>1, <2>2, <2>3, <2>4, <2>5, <2>6 DEF Transfer
<1>18. Moved' = Moved
  <2>1. InBeat = word_idx /\ InBeat' = n
    BY <1>1 DEF InBeat
  <2>2. Moved = Fetched - word_idx /\ Moved' = Fetched' - n
    BY <1>1, <1>3, <2>1 DEF Moved, Fetched
  <2> QED BY <1>4, <1>7, <2>2
<1> QED BY <1>1, <1>17, <1>18, Quiet, CommandedKept DEF CopyInv, Memory

(* A beat goes into the external memory: its words are copied together.    *)
LEMMA DramCommitCopies ==
  ASSUME CopyInv, IndInv, DramCommit
  PROVE  CopyInv' /\ Copied
<1> DEFINE n == word_idx + 1
           base == dram_addr \div WordBytes
<1>1. /\ UNCHANGED <<spm, job, reports, program, cpu_in, config, state, tag, opcode, dram_addr, spm_addr,
                     words_left, beat, word_idx, wr_mask>>
      /\ dram_wr # <<>> /\ state = "MVOUT_WAIT" /\ dram_wr' = <<>>
  BY OneElement DEF DramCommit, engineVars, regVars, cpuVars, history, IndInv, DramWrites
<1>2. Transfer
  BY DEF CopyInv
<1>3. /\ job # NoJob /\ job.op = "MVOUT" /\ BeatAt(0 - n) /\ Filled(n) /\ wr_mask = 0 .. word_idx
      /\ Head(dram_wr) = [addr |-> dram_addr, data |-> beat, mask |-> wr_mask]
  BY <1>1, <1>2, Underway, OneElement DEF Transfer, Storing
<1>4. /\ job.words \in Nat /\ Fetched \in Nat /\ words_left \in Nat /\ Fetched + words_left = job.words
      /\ job.dram \in Nat /\ job.spm \in Nat /\ word_idx \in 0 .. 3
  BY <1>1, <1>2, Underway
<1>5. Transfer'
  BY <1>1, <1>2 DEF Transfer, Loading, Storing, BeatAt, Filled, Fetched
<1>6. Moved = Fetched - n /\ Moved' = Fetched
  <2>1. InBeat = n /\ InBeat' = 0
    BY <1>1 DEF InBeat
  <2>2. Moved = Fetched - n /\ Moved' = Fetched - 0
    BY <1>1, <1>3, <2>1 DEF Moved, Fetched
  <2> QED BY <1>4, <2>2
<1>7. Moved' = Moved + n /\ Moved + n <= job.words /\ n \in 1 .. Lanes
  BY <1>4, <1>6 DEF Lanes
<1>8. dram' = [a \in DOMAIN dram |-> IF a - base \in 0 .. word_idx THEN beat[a - base] ELSE dram[a]]
  <2>1. Head(dram_wr).addr = dram_addr /\ Head(dram_wr).data = beat /\ Head(dram_wr).mask = 0 .. word_idx
    BY <1>3
  <2>2. dram' = [a \in DOMAIN dram |->
                   IF a - Head(dram_wr).addr \div WordBytes \in Head(dram_wr).mask
                   THEN Head(dram_wr).data[a - Head(dram_wr).addr \div WordBytes] ELSE dram[a]]
    BY DEF DramCommit
  <2> QED BY <2>1, <2>2
<1>9. base = job.dram + Fetched - n
  <2>1. dram_addr \div WordBytes = job.dram + Fetched + (0 - n)
    BY <1>3 DEF BeatAt
  <2>2. base = dram_addr \div WordBytes /\ n \in Nat
    BY <1>4
  <2> HIDE DEF base, n
  <2> QED BY <1>4, <2>1, <2>2
<1>10. ASSUME NEW a \in DOMAIN dram
       PROVE  /\ a - base \in 0 .. word_idx <=> a \in (job.dram + Moved) .. (job.dram + (Moved + n) - 1)
              /\ a - base \in 0 .. word_idx => beat[a - base] = spm[job.spm + (a - job.dram)]
  <2>1. a \in Nat
    BY DEF CopyInv, Memory
  <2>2. a - base \in 0 .. word_idx <=> a \in (job.dram + Moved) .. (job.dram + (Moved + n) - 1)
    BY <1>4, <1>6, <1>9, <2>1
  <2>3. ASSUME a - base \in 0 .. word_idx PROVE beat[a - base] = spm[job.spm + (a - job.dram)]
    <3>1. job.spm + Fetched - n + (a - base) = job.spm + (a - job.dram)
      BY <1>4, <1>9, <2>1
    <3>2. a - base \in 0 .. (n - 1)
      BY <1>4, <2>3
    <3> QED BY <1>3, <3>1, <3>2 DEF Filled
  <2> QED BY <2>2, <2>3
<1>11. dram' = Copy!CopyWords(spm, job.spm, dram, job.dram, Moved, Moved + n)
  BY <1>8, <1>10 DEF Copy!CopyWords
<1>12. Copy!Move(n)
  BY <1>1, <1>3, <1>7, <1>11 DEF Copy!Move
<1>13. Memory(dram')
  BY <1>8 DEF Memory, CopyInv
<1> QED BY <1>1, <1>5, <1>7, <1>12, <1>13, CommandedKept DEF CopyInv, Memory, Copied, Copy!CopyNext

LEMMA DramWriteRespCopies ==
  ASSUME CopyInv, IndInv, DramWriteResp
  PROVE  CopyInv' /\ Copied
<1>1. /\ UNCHANGED <<dram, spm, job, reports, program, cpu_in, config, tag, opcode, spm_addr, words_left>>
      /\ state = "MVOUT_WAIT" /\ beat' = EmptyBeat /\ word_idx' = 0
      /\ dram_wr = <<>> /\ dram_wr' = <<>>
      /\ dram_addr' = (dram_addr + 16) % DramAddrMod
      /\ state' = IF words_left = 0 THEN "DONE" ELSE "MVOUT_READ"
  BY DEF DramWriteResp, RecvDramWrite, NextBeatAddr, cpuVars, history, IndInv, DramWrites, BeatBytes, Lanes,
     WordBytes
<1>2. Transfer
  BY DEF CopyInv
<1>3. job # NoJob /\ job.op = "MVOUT" /\ BeatAt(0 - (word_idx + 1)) /\ (words_left = 0 \/ word_idx = 3)
  BY <1>1, <1>2, Underway DEF Transfer, Storing, Lanes
<1>4. /\ job.words \in Nat /\ Fetched \in Nat /\ words_left \in Nat /\ words_left < BytesMod
      /\ job.dram \in Nat /\ word_idx \in 0 .. 3 /\ dram_addr \in Nat /\ DramAddrMod \in Nat \ {0}
  BY <1>1, <1>2, Underway, Sizes
<1>5. /\ dram_addr' \in Nat
      /\ dram_addr + 16 < DramAddrMod => dram_addr' = dram_addr + 16
  <2>1. dram_addr + 16 \in Nat
    BY <1>4
  <2> QED BY <1>1, <1>4, <2>1, Wrap
<1>6. ASSUME words_left > 0 PROVE BeatAt(0)'
  <2>1. word_idx = 3
    BY <1>3, <1>6
  <2>2. dram_addr \div 4 = job.dram + Fetched - 4 /\ dram_addr + 4 * (words_left + 4) <= DramAddrMod
    BY <1>3, <1>4, <2>1 DEF BeatAt, WordBytes
  <2>3. dram_addr' = dram_addr + 16
    BY <1>4, <1>5, <1>6, <2>2
  <2>4. (dram_addr + 16) \div 4 = dram_addr \div 4 + 4
    BY <1>4, Arithmetic
  <2>5. /\ dram_addr' \div 4 = job.dram + Fetched + 0
        /\ dram_addr' + 4 * (words_left - 0) <= DramAddrMod
    BY <1>4, <2>2, <2>3, <2>4
  <2>6. Fetched' = Fetched
    BY <1>1 DEF Fetched
  <2> QED BY <1>1, <2>5, <2>6 DEF BeatAt, WordBytes
<1>7. words_left # 0 => words_left > 0
  BY <1>4
<1>8. Storing' /\ Loading'
  <2>1. ASSUME words_left > 0 PROVE BeatAt(0 - word_idx)' /\ Filled(word_idx)'
    <3>1. 0 - word_idx' = 0 /\ 0 .. (word_idx' - 1) = {}
      BY <1>1
    <3>2. BeatAt(0 - word_idx)'
      BY <1>6, <2>1, <3>1 DEF BeatAt
    <3>3. Filled(word_idx)'
      BY <3>1 DEF Filled
    <3> QED BY <3>2, <3>3
  <2> QED BY <1>1, <1>7, <2>1 DEF Storing, Loading
<1>9. Transfer'
  <2>1. word_idx' \in 0 .. (Lanes - 1) /\ beat' = [l \in 0 .. (Lanes - 1) |-> beat'[l]]
    BY <1>1 DEF EmptyBeat, Lanes
  <2>2. spm_addr' = spm_addr /\ Fetched' = Fetched
    BY <1>1 DEF Fetched
  <2> QED BY <1>1, <1>2, <1>3, <1>5, <1>8, <2>1, <2>2 DEF Transfer
<1>10. Moved' = Moved
  <2>1. InBeat = 0 /\ InBeat' = 0
    BY <1>1 DEF InBeat
  <2> QED BY <1>1, <2>1 DEF Moved
<1> QED BY <1>1, <1>9, <1>10, Quiet, CommandedKept DEF CopyInv, Memory

(* The packets to come, one sent and one taken.                            *)
LEMMA RestSent ==
  ASSUME cpu_in \in Seq(Packet), program \in Seq(Packet), program # <<>>
  PROVE  /\ Append(cpu_in, Head(program)) \in Seq(Packet) /\ Tail(program) \in Seq(Packet)
         /\ Append(cpu_in, Head(program)) \o Tail(program) = Rest
<1> DEFINE h == Head(program)
           s == Append(cpu_in, h)
           t == Tail(program)
<1>1. h \in Packet /\ t \in Seq(Packet) /\ Len(t) = Len(program) - 1
      /\ \A i \in 1 .. Len(t) : t[i] = program[i + 1]
  BY HeadTailProperties
<1>2. Len(program) \in Nat /\ Len(program) > 0 /\ h = program[1]
  BY EmptySeq, LenProperties
<1>3. s \in Seq(Packet) /\ Len(s) = Len(cpu_in) + 1 /\ s[Len(cpu_in) + 1] = h
      /\ \A i \in 1 .. Len(cpu_in) : s[i] = cpu_in[i]
  BY <1>1, AppendProperties
<1>4. Len(cpu_in) \in Nat
  BY LenProperties
<1>5. /\ s \o t \in Seq(Packet) /\ Len(s \o t) = Len(s) + Len(t)
      /\ \A i \in 1 .. Len(s) + Len(t) : (s \o t)[i] = IF i <= Len(s) THEN s[i] ELSE t[i - Len(s)]
  <2> HIDE DEF s, t
  <2> QED BY <1>1, <1>3, ConcatProperties
<1>6. /\ Rest \in Seq(Packet) /\ Len(Rest) = Len(cpu_in) + Len(program)
      /\ \A i \in 1 .. Len(cpu_in) + Len(program) :
           Rest[i] = IF i <= Len(cpu_in) THEN cpu_in[i] ELSE program[i - Len(cpu_in)]
  BY ConcatProperties DEF Rest
<1> HIDE DEF h, s, t
<1>7. ASSUME NEW i \in 1 .. Len(Rest) PROVE (s \o t)[i] = Rest[i]
  <2>1. CASE i <= Len(cpu_in)
    <3>1. i \in 1 .. Len(s) + Len(t) /\ i <= Len(s) /\ i \in 1 .. Len(cpu_in)
      BY <1>1, <1>2, <1>3, <1>4, <1>6, <2>1
    <3>2. (s \o t)[i] = s[i]
      BY <1>5, <3>1
    <3>3. s[i] = cpu_in[i]
      BY <1>3, <3>1
    <3> QED BY <1>6, <2>1, <3>2, <3>3
  <2>2. CASE i = Len(cpu_in) + 1
    <3>1. (s \o t)[i] = h
      BY <1>1, <1>2, <1>3, <1>4, <1>5, <1>6, <2>2
    <3>2. Rest[i] = program[1]
      BY <1>2, <1>4, <1>6, <2>2
    <3> QED BY <1>2, <3>1, <3>2
  <2>3. CASE i > Len(cpu_in) + 1
    <3> DEFINE k == i - (Len(cpu_in) + 1)
    <3>1. k \in 1 .. Len(t) /\ ~(i <= Len(s)) /\ i - Len(s) = k /\ i \in 1 .. Len(s) + Len(t)
      BY <1>1, <1>2, <1>3, <1>4, <1>6, <2>3
    <3>2. (s \o t)[i] = t[k]
      BY <1>5, <3>1
    <3>3. t[k] = program[k + 1]
      BY <1>1, <3>1
    <3>4. Rest[i] = program[i - Len(cpu_in)] /\ i - Len(cpu_in) = k + 1
      BY <1>2, <1>4, <1>6, <2>3
    <3> QED BY <3>2, <3>3, <3>4
  <2>4. i <= Len(cpu_in) \/ i = Len(cpu_in) + 1 \/ i > Len(cpu_in) + 1
    BY <1>4
  <2> QED BY <2>1, <2>2, <2>3, <2>4
<1>8. Len(s \o t) = Len(Rest)
  BY <1>1, <1>2, <1>3, <1>4, <1>5, <1>6
<1>9. s \o t = Rest
  BY <1>5, <1>6, <1>7, <1>8, SeqEqual
<1> QED BY <1>1, <1>3, <1>9 DEF h, s, t

LEMMA RestTaken ==
  ASSUME cpu_in \in Seq(Packet), program \in Seq(Packet), cpu_in # <<>>
  PROVE  /\ Rest \in Seq(Packet) /\ Rest # <<>> /\ Rest[1] = Head(cpu_in) /\ Rest[1] \in Packet
         /\ Tail(cpu_in) \in Seq(Packet) /\ Tail(cpu_in) \o program = Tail(Rest)
<1> DEFINE t == Tail(cpu_in)
<1>1. t \in Seq(Packet) /\ Len(t) = Len(cpu_in) - 1 /\ Head(cpu_in) \in Packet
      /\ \A i \in 1 .. Len(t) : t[i] = cpu_in[i + 1]
  BY HeadTailProperties
<1>2. Len(cpu_in) \in Nat /\ Len(cpu_in) > 0 /\ Len(program) \in Nat /\ Head(cpu_in) = cpu_in[1]
  BY EmptySeq, LenProperties
<1>3. /\ Rest \in Seq(Packet) /\ Len(Rest) = Len(cpu_in) + Len(program)
      /\ \A i \in 1 .. Len(cpu_in) + Len(program) :
           Rest[i] = IF i <= Len(cpu_in) THEN cpu_in[i] ELSE program[i - Len(cpu_in)]
  BY ConcatProperties DEF Rest
<1>4. Rest # <<>> /\ Rest[1] = Head(cpu_in)
  BY <1>2, <1>3, EmptySeq
<1>5. /\ t \o program \in Seq(Packet) /\ Len(t \o program) = Len(t) + Len(program)
      /\ \A i \in 1 .. Len(t) + Len(program) :
           (t \o program)[i] = IF i <= Len(t) THEN t[i] ELSE program[i - Len(t)]
  <2> HIDE DEF t
  <2> QED BY <1>1, ConcatProperties
<1>6. Tail(Rest) \in Seq(Packet) /\ Len(Tail(Rest)) = Len(Rest) - 1
      /\ \A i \in 1 .. Len(Tail(Rest)) : Tail(Rest)[i] = Rest[i + 1]
  BY <1>3, <1>4, HeadTailProperties
<1> HIDE DEF t
<1>7. ASSUME NEW i \in 1 .. Len(Tail(Rest)) PROVE (t \o program)[i] = Tail(Rest)[i]
  <2>1. i \in 1 .. Len(t) + Len(program) /\ i + 1 \in 1 .. Len(cpu_in) + Len(program)
    BY <1>1, <1>2, <1>3, <1>6
  <2>2. Tail(Rest)[i] = IF i + 1 <= Len(cpu_in) THEN cpu_in[i + 1] ELSE program[i + 1 - Len(cpu_in)]
    BY <1>3, <1>6, <2>1
  <2>3. CASE i <= Len(t)
    BY <1>1, <1>2, <1>5, <2>1, <2>2, <2>3
  <2>4. CASE ~(i <= Len(t))
    <3>1. ~(i + 1 <= Len(cpu_in)) /\ i + 1 - Len(cpu_in) = i - Len(t)
      BY <1>1, <1>2, <2>1, <2>4
    <3> QED BY <1>5, <2>1, <2>2, <2>4, <3>1
  <2> QED BY <2>3, <2>4
<1>8. Len(t \o program) = Len(Tail(Rest))
  BY <1>1, <1>2, <1>3, <1>5, <1>6
<1>9. t \o program = Tail(Rest)
  BY <1>5, <1>6, <1>7, <1>8, SeqEqual
<1> QED BY <1>1, <1>3, <1>4, <1>9 DEF t

(* What a register will hold does not depend on whether a packet has been  *)
(* applied to the registers yet.                                           *)
LEMMA SettingsKept ==
  ASSUME NEW before, NEW after, NEW p \in Seq(Packet), p # <<>>, NEW r, NEW i \in DOMAIN Tail(p),
         after[r] = IF p[1].cmd = r THEN p[1].n ELSE before[r]
  PROVE  Setting(before, p, i + 1, r) \subseteq Setting(after, Tail(p), i, r)
<1> DEFINE t == Tail(p)
           early == {j \in 1 .. i : p[j].cmd = r}
           late == {j \in 1 .. (i - 1) : t[j].cmd = r}
<1>1. t \in Seq(Packet) /\ Len(t) = Len(p) - 1 /\ Len(p) \in Nat /\ Len(p) > 0
      /\ \A j \in 1 .. Len(t) : t[j] = p[j + 1]
  BY HeadTailProperties, EmptySeq, LenProperties
<1>2. i \in 1 .. Len(t) /\ i \in Nat
  BY <1>1, LenProperties
<1>3. i + 1 - 1 = i
  BY <1>2
<1>4. /\ Setting(before, p, i + 1, r) =
           IF early = {} THEN {before[r]} ELSE {p[j].n : j \in {k \in early : \A l \in early : l <= k}}
      /\ Setting(after, t, i, r) =
           IF late = {} THEN {after[r]} ELSE {t[j].n : j \in {k \in late : \A l \in late : l <= k}}
  <2> DEFINE sent == {j \in 1 .. ((i + 1) - 1) : p[j].cmd = r}
  <2>1. sent = early
    BY <1>3
  <2>2. Setting(before, p, i + 1, r) =
          IF sent = {} THEN {before[r]} ELSE {p[j].n : j \in {k \in sent : \A l \in sent : l <= k}}
    BY Zenon DEF Setting
  <2> HIDE DEF early, sent
  <2>3. Setting(after, t, i, r) =
          IF late = {} THEN {after[r]} ELSE {t[j].n : j \in {k \in late : \A l \in late : l <= k}}
    BY Zenon DEF Setting
  <2> QED BY <2>1, <2>2, <2>3
<1>5. ASSUME NEW j \in late PROVE j + 1 \in early
  <2>1. j \in 1 .. Len(t) /\ j + 1 \in 1 .. i /\ t[j].cmd = r
    BY <1>1, <1>2
  <2> QED BY <1>1, <2>1
<1>6. ASSUME NEW j \in early, j # 1 PROVE j - 1 \in late /\ t[j - 1] = p[j]
  <2>1. j \in 1 .. i /\ p[j].cmd = r
    OBVIOUS
  <2>2. j - 1 \in 1 .. Len(t) /\ j - 1 \in 1 .. (i - 1) /\ j - 1 + 1 = j
    BY <1>1, <1>2, <1>6, <2>1
  <2>3. t[j - 1] = p[j - 1 + 1]
    BY <1>1, <2>2
  <2> QED BY <2>1, <2>2, <2>3
<1>7. p[1].cmd = r => 1 \in early
  BY <1>2
<1>8. \A j \in early : j \in Nat /\ j >= 1
  BY <1>2
<1> SUFFICES ASSUME NEW x \in Setting(before, p, i + 1, r) PROVE x \in Setting(after, t, i, r)
  OBVIOUS
<1> HIDE DEF t, early, late
<1>9. CASE early = {}
  BY <1>4, <1>5, <1>7, <1>9
<1>10. CASE early # {}
  <2>1. PICK k \in early : (\A l \in early : l <= k) /\ x = p[k].n
    BY <1>4, <1>10
  <2>2. CASE k = 1
    <3>1. late = {}
      <4> SUFFICES ASSUME NEW j \in late PROVE FALSE
        OBVIOUS
      <4>1. j + 1 <= 1 /\ j + 1 \in early
        BY <1>5, <2>1, <2>2
      <4>2. j \in Nat /\ j >= 1
        BY <1>2 DEF late
      <4> QED BY <4>1, <4>2
    <3>2. p[1].cmd = r
      BY <2>2 DEF early
    <3> QED BY <1>4, <2>1, <2>2, <3>1, <3>2
  <2>3. CASE k # 1
    <3>1. k - 1 \in late /\ t[k - 1].n = x
      BY <1>6, <2>1, <2>3
    <3>2. ASSUME NEW l \in late PROVE l <= k - 1
      <4>1. l + 1 <= k /\ k \in Nat
        BY <1>5, <1>8, <2>1
      <4>2. l \in Nat
        BY <1>2 DEF late
      <4> QED BY <4>1, <4>2
    <3> QED BY <1>4, <3>1, <3>2
  <2> QED BY <2>2, <2>3
<1> QED BY <1>9, <1>10

LEMMA FitsKept ==
  ASSUME NEW before, NEW after, NEW p \in Seq(Packet), p # <<>>, Fits(before, p),
         \A r \in Registers : after[r] = IF p[1].cmd = r THEN p[1].n ELSE before[r]
  PROVE  Fits(after, Tail(p))
<1> DEFINE t == Tail(p)
<1>1. t \in Seq(Packet) /\ Len(t) = Len(p) - 1 /\ Len(p) \in Nat /\ Len(p) > 0
      /\ \A j \in 1 .. Len(t) : t[j] = p[j + 1]
  BY HeadTailProperties, EmptySeq, LenProperties
<1> SUFFICES ASSUME NEW i \in DOMAIN t, t[i].cmd \notin Registers PROVE Launches(after, t, i)
  BY DEF Fits
<1>2. i \in 1 .. Len(t)
  BY <1>1, LenProperties
<1>3. i + 1 \in DOMAIN p /\ t[i] = p[i + 1]
  <2>1. DOMAIN p = 1 .. Len(p)
    BY LenProperties
  <2> QED BY <1>1, <1>2, <2>1
<1>4. Launches(before, p, i + 1)
  BY <1>3 DEF Fits
<1>5. \A r \in Registers : Setting(before, p, i + 1, r) \subseteq Setting(after, t, i, r)
  BY SettingsKept
<1>6. {"dram_lo", "dram_hi", "spm", "bytes", "tag"} \subseteq Registers
  BY DEF Registers
<1> HIDE DEF t
<1> QED BY <1>3, <1>4, <1>5, <1>6 DEF Launches

LEMMA TransferUnseen ==
  ASSUME CopyInv,
         UNCHANGED <<state, dram_addr, spm_addr, tag, words_left, beat, word_idx, wr_mask, dram, dram_rd,
                     dram_wr, spm, spm_resp, job, reports>>
  PROVE  Transfer' /\ Memory(dram)' /\ Memory(spm)' /\ Copied
<1>1. Transfer'
  BY DEF CopyInv, Transfer, Loading, Storing, Filled, BeatAt, Fetched
<1>2. Moved' = Moved
  BY DEF Moved, InBeat
<1> QED BY <1>1, <1>2, Quiet DEF CopyInv, Memory

LEMMA CpuSendCopies ==
  ASSUME CopyInv, CpuSend
  PROVE  CopyInv' /\ Copied
<1>1. /\ UNCHANGED <<state, dram_addr, spm_addr, tag, words_left, beat, word_idx, wr_mask, dram, dram_rd,
                     dram_wr, spm, spm_resp, job, reports, config>>
      /\ program # <<>> /\ cpu_in' = Append(cpu_in, Head(program)) /\ program' = Tail(program)
  BY DEF CpuSend, engineVars, regVars, dramVars, readVars, history
<1>2. Transfer' /\ Memory(dram)' /\ Memory(spm)' /\ Copied
  BY <1>1, TransferUnseen
<1>3. cpu_in' \in Seq(Packet) /\ program' \in Seq(Packet) /\ Rest' = Rest
  BY <1>1, RestSent DEF CopyInv, Commanded, Rest
<1>4. Commanded'
  BY <1>1, <1>3 DEF CopyInv, Commanded
<1> QED BY <1>2, <1>4 DEF CopyInv

LEMMA JobsKept ==
  ASSUME Commanded, cpu_in # <<>>, cpu_in' = Tail(cpu_in), UNCHANGED program
  PROVE  /\ cpu_in' \in Seq(Packet) /\ program' \in Seq(Packet) /\ Rest' = Tail(Rest)
         /\ \A i \in DOMAIN Rest' : Rest'[i].cmd \notin Registers => Rest'[i].job \in Jobs
<1>1. cpu_in' \in Seq(Packet) /\ program' \in Seq(Packet) /\ Rest' = Tail(Rest) /\ Rest \in Seq(Packet)
      /\ Rest # <<>>
  BY RestTaken DEF Commanded, Rest
<1>2. Rest' \in Seq(Packet) /\ Len(Rest') = Len(Rest) - 1 /\ \A i \in 1 .. Len(Rest') : Rest'[i] = Rest[i + 1]
  BY <1>1, HeadTailProperties
<1> SUFFICES ASSUME NEW i \in DOMAIN Rest', Rest'[i].cmd \notin Registers PROVE Rest'[i].job \in Jobs
  BY <1>1
<1>3. DOMAIN Rest = 1 .. Len(Rest) /\ DOMAIN Rest' = 1 .. Len(Rest') /\ Len(Rest) \in Nat
  BY <1>1, <1>2, LenProperties
<1>4. i + 1 \in DOMAIN Rest /\ Rest'[i] = Rest[i + 1]
  BY <1>2, <1>3
<1> QED BY <1>4 DEF Commanded

LEMMA ConfigureCopies ==
  ASSUME CopyInv, Configure
  PROVE  CopyInv' /\ Copied
<1>1. /\ UNCHANGED <<state, dram_addr, spm_addr, tag, words_left, beat, word_idx, wr_mask, dram, dram_rd,
                     dram_wr, spm, spm_resp, job, reports, program>>
      /\ cpu_in # <<>> /\ cpu_in' = Tail(cpu_in) /\ Head(cpu_in).cmd \in Registers
      /\ config' = [config EXCEPT ![Head(cpu_in).cmd] = Head(cpu_in).n]
  BY DEF Configure, engineVars, regVars, dramVars, readVars, history
<1>2. Transfer' /\ Memory(dram)' /\ Memory(spm)' /\ Copied
  BY <1>1, TransferUnseen
<1>3. Commanded
  BY DEF CopyInv
<1>4. Rest \in Seq(Packet) /\ Rest # <<>> /\ Rest[1] = Head(cpu_in) /\ Rest[1] \in Packet
  BY <1>1, <1>3, RestTaken DEF Commanded
<1>5. Rest[1].n \in Nat
  <2>1. Rest[1] \in [cmd : Registers, n : Nat]
    <3>1. ASSUME Rest[1] \in [cmd : {"MVIN", "MVOUT"}, job : Job] PROVE FALSE
      <4>1. Rest[1].cmd \in {"MVIN", "MVOUT"} /\ Rest[1].cmd \in Registers
        BY <1>1, <1>4, <3>1
      <4> QED BY <4>1 DEF Registers
    <3> QED BY <1>4, <3>1 DEF Packet
  <2> QED BY <2>1
<1>6. config' \in [Registers -> Nat]
  BY <1>1, <1>3, <1>4, <1>5 DEF Commanded
<1>7. \A r \in Registers : config'[r] = IF Rest[1].cmd = r THEN Rest[1].n ELSE config[r]
  BY <1>1, <1>3, <1>4 DEF Commanded
<1>8. Fits(config', Tail(Rest))
  BY <1>3, <1>4, <1>7, FitsKept DEF Commanded
<1>9. Commanded'
  BY <1>1, <1>3, <1>6, <1>8, JobsKept DEF Commanded
<1> QED BY <1>2, <1>9 DEF CopyInv

(* The controller's command is the job its CPU recorded.                   *)
LEMMA CommandAsked ==
  ASSUME Commanded, cpu_in # <<>>, Head(cpu_in).cmd \in {"MVIN", "MVOUT"}
  PROVE  LET want == [dram_lo |-> config.dram_lo, dram_hi |-> config.dram_hi, spm |-> config.spm,
                      bytes |-> config.bytes, tag |-> config.tag]
         IN  InRange(want) /\ Head(cpu_in) = LaunchPacket(Head(cpu_in).cmd, want)
<1> DEFINE want == [dram_lo |-> config.dram_lo, dram_hi |-> config.dram_hi, spm |-> config.spm,
                    bytes |-> config.bytes, tag |-> config.tag]
<1>1. Rest \in Seq(Packet) /\ Rest # <<>> /\ Rest[1] = Head(cpu_in)
  BY RestTaken DEF Commanded
<1>2. 1 \in DOMAIN Rest /\ Rest[1].cmd \notin Registers
  BY <1>1, EmptySeq, LenProperties DEF Registers
<1>3. Launches(config, Rest, 1)
  BY <1>2 DEF Commanded, Fits
<1>4. \A r : Setting(config, Rest, 1, r) = {config[r]}
  <2>1. 1 .. (1 - 1) = {}
    OBVIOUS
  <2>2. ASSUME NEW r PROVE {j \in 1 .. (1 - 1) : Rest[j].cmd = r} = {}
    BY <2>1
  <2> QED BY <2>2 DEF Setting
<1>5. InRange(want) /\ Rest[1] \in {LaunchPacket(op, want) : op \in {"MVIN", "MVOUT"}}
  BY <1>3, <1>4 DEF Launches
<1>6. PICK op \in {"MVIN", "MVOUT"} : Rest[1] = LaunchPacket(op, want)
  BY <1>5
<1>7. Rest[1].cmd = op
  BY <1>6 DEF LaunchPacket
<1> QED BY <1>1, <1>5, <1>6, <1>7

LEMMA Whole ==
  ASSUME NEW n \in Nat
  PROVE  n \div 4 \in Nat /\ 4 * (n \div 4) <= n /\ n \div 4 <= n /\ (n >= 4 => n \div 4 > 0)
         /\ (n = 0 => n \div 4 = 0)
  OBVIOUS

LEMMA LaunchCopies ==
  ASSUME CopyInv, IndInv, Launch
  PROVE  CopyInv' /\ Copied
<1> DEFINE op == Head(cpu_in).cmd
           at == config.dram_hi * HalfMod + config.dram_lo
           size == config.bytes
<1>1. /\ UNCHANGED <<dram, spm, reports, program, config, dram_wr>>
      /\ cpu_in # <<>> /\ cpu_in' = Tail(cpu_in) /\ op \in {"MVIN", "MVOUT"}
      /\ state = "IDLE" /\ job' = Head(cpu_in).job
      /\ dram_addr' = at /\ spm_addr' = config.spm /\ tag' = config.tag
      /\ words_left' = size \div 4 /\ beat' = EmptyBeat /\ word_idx' = 0
      /\ state' = IF size = 0 THEN "DONE" ELSE IF op = "MVIN" THEN "MVIN_REQ" ELSE "MVOUT_READ"
  BY DEF Launch, RecvCommand, Command, dramVars, WordBytes
<1>2. Transfer /\ Commanded /\ dram_wr = <<>>
  BY <1>1 DEF CopyInv, IndInv, DramWrites
<1>3. job = NoJob
  BY <1>1, <1>2 DEF Transfer
<1> HIDE DEF op
<1>4. /\ job' = [op |-> op, dram |-> at \div 4, spm |-> config.spm, words |-> size \div 4, tag |-> config.tag]
      /\ size = 0 \/ size >= 4
      /\ size < BytesMod /\ at + size <= DramAddrMod /\ config.spm + size \div 4 <= SpmAddrMod
  <2> DEFINE want == [dram_lo |-> config.dram_lo, dram_hi |-> config.dram_hi, spm |-> config.spm,
                      bytes |-> config.bytes, tag |-> config.tag]
  <2>1. InRange(want) /\ Head(cpu_in) = LaunchPacket(op, want)
    BY <1>1, <1>2, CommandAsked DEF op
  <2>2. job' = LaunchPacket(op, want).job
    BY <1>1, <2>1
  <2>3. LaunchPacket(op, want).job =
          [op |-> op, dram |-> at \div 4, spm |-> config.spm, words |-> size \div 4, tag |-> config.tag]
    BY DEF LaunchPacket, WordBytes
  <2> QED BY <2>1, <2>2, <2>3 DEF InRange, WordBytes
<1>5. /\ config.dram_hi \in Nat /\ config.dram_lo \in Nat /\ config.spm \in Nat /\ size \in Nat /\ config.tag \in Nat
  BY <1>2 DEF Commanded, Registers
<1>6. at \in Nat
  BY <1>5, Sizes
<1> HIDE DEF at, size
<1>7. /\ size \div 4 \in Nat /\ 4 * (size \div 4) <= size /\ size \div 4 <= size
      /\ size # 0 => size \div 4 > 0
      /\ size = 0 => size \div 4 = 0
      /\ at \div 4 \in Nat
  BY <1>4, <1>5, <1>6, Whole
<1>8. job' \in Job /\ job' # NoJob
  <2>1. [op |-> op, dram |-> at \div 4, spm |-> config.spm, words |-> size \div 4, tag |-> config.tag] \in Job
    BY <1>1, <1>5, <1>7 DEF Job
  <2>2. job' \in Job
    BY <1>4, <2>1
  <2> QED BY <2>2, DmaAssumption
<1>9. /\ job'.op = op /\ job'.words = size \div 4 /\ job'.spm = config.spm /\ job'.tag = config.tag
      /\ job'.dram = at \div 4
  BY <1>4
<1>10. Fetched' = 0
  BY <1>1, <1>7, <1>9 DEF Fetched
<1>11. BeatAt(0)'
  <2>1. at + 4 * (size \div 4 - 0) <= DramAddrMod
    BY <1>4, <1>5, <1>6, <1>7, Sizes
  <2>2. at \div 4 = job'.dram + 0 + 0
    BY <1>7, <1>9
  <2> QED BY <1>1, <1>10, <2>1, <2>2 DEF BeatAt, WordBytes
<1>12. ASSUME size # 0 PROVE words_left' > 0 /\ BeatAt(0)' /\ BeatAt(0 - word_idx)' /\ Filled(word_idx)'
  <2>1. 0 - word_idx' = 0 /\ 0 .. (word_idx' - 1) = {}
    BY <1>1
  <2>2. BeatAt(0 - word_idx)'
    BY <1>11, <2>1 DEF BeatAt
  <2>3. Filled(word_idx)'
    BY <2>1 DEF Filled
  <2> QED BY <1>1, <1>7, <1>11, <1>12, <2>2, <2>3
<1>13. Loading' /\ Storing'
  BY <1>1, <1>12 DEF Loading, Storing
<1>14. Transfer'
  <2>1. word_idx' \in 0 .. (Lanes - 1) /\ beat' = [l \in 0 .. (Lanes - 1) |-> beat'[l]]
    BY <1>1 DEF EmptyBeat, Lanes
  <2>2. words_left' \in 0 .. (BytesMod - 1)
    BY <1>1, <1>4, <1>5, <1>7, Sizes
  <2>3. words_left' <= job'.words /\ dram_addr' \in Nat /\ spm_addr' \in Nat /\ tag' = job'.tag
    BY <1>1, <1>5, <1>6, <1>7, <1>9
  <2>4. words_left' > 0 => spm_addr' = job'.spm + Fetched' /\ spm_addr' + words_left' <= SpmAddrMod
    BY <1>1, <1>4, <1>5, <1>9, <1>10
  <2>5. /\ state' = "DONE" => words_left' = 0
        /\ state' # "IDLE"
        /\ state' \in {"DONE", "MVIN_REQ", "MVOUT_READ"}
        /\ state' = "MVIN_REQ" => job'.op = "MVIN"
        /\ state' = "MVOUT_READ" => job'.op = "MVOUT"
    BY <1>1, <1>7, <1>9
  <2> QED BY <1>8, <1>13, <2>1, <2>2, <2>3, <2>4, <2>5 DEF Transfer
<1>15. Commanded'
  <2>1. Rest \in Seq(Packet) /\ Rest # <<>> /\ Rest[1] = Head(cpu_in)
    BY <1>1, <1>2, RestTaken DEF Commanded
  <2>2. \A r \in Registers : config[r] = IF Rest[1].cmd = r THEN Rest[1].n ELSE config[r]
    BY <1>1, <2>1 DEF op, Registers
  <2>3. Fits(config, Tail(Rest))
    BY <1>2, <2>1, <2>2, FitsKept DEF Commanded
  <2> QED BY <1>1, <1>2, <2>3, JobsKept DEF Commanded
<1>16. Moved = 0 /\ Moved' = 0
  <2>1. InBeat' = 0
    BY <1>1 DEF InBeat
  <2>2. Moved' = Fetched' - 0
    BY <1>8, <2>1 DEF Moved, Fetched
  <2> QED BY <1>3, <1>10, <2>2 DEF Moved
<1>17. job' \in Jobs
  <2>1. 1 \in DOMAIN Rest /\ Rest[1] = Head(cpu_in)
    BY <1>1, <1>2, RestTaken, EmptySeq, LenProperties DEF Commanded
  <2>2. Rest[1].cmd \notin Registers
    BY <1>1, <2>1 DEF op, Registers
  <2> QED BY <1>1, <1>2, <2>1, <2>2 DEF Commanded
<1>18. Copy!Start(job')
  BY <1>1, <1>3, <1>16 DEF Copy!Start
<1> QED BY <1>1, <1>14, <1>15, <1>17, <1>18 DEF CopyInv, Memory, Copied, Copy!CopyNext

LEMMA CopyInitially == Init => CopyInv /\ Copy!CopyIdle
<1> SUFFICES ASSUME Init PROVE CopyInv /\ Copy!CopyIdle
  OBVIOUS
<1>1. Memory(dram) /\ Memory(spm)
  BY DmaAssumption DEF Init, Memory
<1>2. Transfer
  BY Sizes DEF Init, EngineReset, EmptyBeat, Transfer, Lanes
<1>3. Commanded
  <2>1. program \in Seq(Packet) /\ Fits(NoSettings, program) /\ cpu_in = <<>> /\ program \in Programs
        /\ config = NoSettings
    BY DmaAssumption DEF Init
  <2>2. Rest = program /\ cpu_in \in Seq(Packet)
    BY <2>1, ConcatEmptySeq, EmptySeq DEF Rest
  <2>3. config \in [Registers -> Nat]
    BY <2>1 DEF NoSettings
  <2>4. ASSUME NEW i \in DOMAIN program, program[i].cmd \notin Registers PROVE program[i].job \in Jobs
    BY <2>1, <2>4 DEF Jobs
  <2> QED BY <2>1, <2>2, <2>3, <2>4 DEF Commanded
<1>4. Copy!CopyIdle
  BY DEF Init, Copy!CopyIdle, Moved
<1> QED BY <1>1, <1>2, <1>3, <1>4 DEF CopyInv

LEMMA CopyStep == CopyInv /\ IndInv /\ [Next]_vars => CopyInv' /\ Copied
<1> SUFFICES ASSUME CopyInv, IndInv, [Next]_vars PROVE CopyInv' /\ Copied
  OBVIOUS
<1>1. CASE CpuSend
  BY <1>1, CpuSendCopies
<1>2. CASE Configure
  BY <1>2, ConfigureCopies
<1>3. CASE Launch
  BY <1>3, LaunchCopies
<1>4. CASE ReportDone
  BY <1>4, ReportDoneCopies
<1>5. CASE DramReadReq
  BY <1>5, DramReadReqCopies
<1>6. CASE DramReadResp
  BY <1>6, DramReadRespCopies
<1>7. CASE DramWriteReq
  BY <1>7, DramWriteReqCopies
<1>8. CASE DramCommit
  BY <1>8, DramCommitCopies
<1>9. CASE DramWriteResp
  BY <1>9, DramWriteRespCopies
<1>10. CASE SpmWrite
  BY <1>10, SpmWriteCopies
<1>11. CASE SpmReadReq
  BY <1>11, SpmReadReqCopies
<1>12. CASE SpmReadResp
  BY <1>12, SpmReadRespCopies
<1>13. CASE CpuRecv \/ SpmServe \/ ExtReadResp \/ (\E a \in ExtAddrs : ExtReadReq(a)) \/ UNCHANGED vars
  BY <1>13, UnseenSteps
<1> QED BY <1>1, <1>2, <1>3, <1>4, <1>5, <1>6, <1>7, <1>8, <1>9, <1>10, <1>11, <1>12, <1>13
        DEF Next, Progress

(* Whatever the programs, the sizes, the delays and the external reader,   *)
(* the engine, the arbiter and the controller together implement BlockCopy:*)
(* a transfer copies exactly the block its CPU configured, in order, and   *)
(* its tag is reported after the last word is in place.                    *)
THEOREM BlocksCopied == Spec => CopiesInOrder
<1>1. Init => IndInv /\ CopyInv /\ Copy!CopyIdle
  BY Initially, CopyInitially
<1>2. IndInv /\ CopyInv /\ [Next]_vars => IndInv' /\ CopyInv' /\ [Copy!CopyNext]_(Copy!copyVars)
  BY Step, CopyStep DEF Copied
<1> QED BY <1>1, <1>2, PTL DEF Spec, CopiesInOrder, Copy!CopySpec
=============================================================================
