------------------------------ MODULE DmaPath ------------------------------
(* The DMA engine in its CGRA: the controller decodes the configuration and*)
(* launch packets of the CPU and reports completions to it, an arbiter in  *)
(* IntegratedCgraWithDmaRTL shares the one scratchpad read port between the*)
(* engine and an external reader, and the engine moves the data.  The two  *)
(* memories, the CPU and the external reader are the environment: either   *)
(* memory answers after any delay, the scratchpad in the order of the      *)
(* requests.  A write to the scratchpad takes effect when it is accepted.  *)
EXTENDS DmaEngine, Sequences

CONSTANTS
  Programs,     \* packet sequences a CPU may send, as CpuProgram builds them
  HalfMod,      \* a configured half of a DRAM address is below this
  InitialDram,  \* words of the external memory at the start
  InitialSpm,   \* words of the scratchpad at the start
  ExtAddrs,     \* words the external reader may ask for
  NoAddr,       \* the external reader waits for nothing
  NoJob         \* no job is in progress

QueueSize == 2  \* NormalQueueRTL's default

VARIABLES
  program,      \* packets the CPU has yet to send
  cpu_in,       \* recv_from_cpu_pkt_queue
  cpu_out,      \* send_to_cpu_pkt_queue, the completions in it
  config,       \* the dma_* registers of the controller
  dram, spm,
  dram_rd,      \* addresses read and not answered yet
  dram_wr,      \* writes accepted and not done yet
  dram_ack,     \* writes done and not acknowledged yet
  spm_rd,       \* scratchpad reads accepted and not served
  spm_resp,     \* scratchpad reads served and not consumed
  spm_rd_busy, spm_rd_ext,
  ext_want,     \* the word the external reader waits for
  job,          \* history: what the CPU asked of the transfer in progress
  reports       \* history: tags reported to the CPU

cpuVars == <<program, cpu_in, cpu_out, config>>
dramVars == <<dram, dram_rd, dram_wr, dram_ack>>
readVars == <<spm_rd, spm_resp, spm_rd_busy, spm_rd_ext, ext_want>>
history == <<job, reports>>
vars == <<engineVars, cpuVars, dramVars, spm, readVars, history>>

Registers == {"dram_lo", "dram_hi", "spm", "bytes", "tag"}

(* A launch packet carries nothing but its command; the job in it records  *)
(* the settings its CPU has sent before it.                                *)
SetPacket(r, n) == [cmd |-> r, n |-> n]
LaunchPacket(op, want) ==
  [cmd |-> op,
   job |-> [op |-> op, dram |-> (want.dram_hi * HalfMod + want.dram_lo) \div WordBytes,
            spm |-> want.spm, words |-> want.bytes \div WordBytes, tag |-> want.tag]]

(* What a register holds when packet i of program p takes effect: what was *)
(* sent to it last, or what it held before.                                *)
Setting(before, p, i, r) ==
  LET sent == {j \in 1 .. (i - 1) : p[j].cmd = r}
  IN  IF sent = {} THEN {before[r]} ELSE {p[j].n : j \in {k \in sent : \A l \in sent : l <= k}}

(* A size below a word, and a block that leaves its memory, are not asked  *)
(* for: counts and addresses would wrap around.                            *)
InRange(want) ==
  /\ want.bytes = 0 \/ want.bytes >= WordBytes
  /\ want.bytes < BytesMod
  /\ want.dram_hi * HalfMod + want.dram_lo + want.bytes <= DramAddrMod
  /\ want.spm + want.bytes \div WordBytes <= SpmAddrMod

Launches(before, p, i) ==
  \E lo \in Setting(before, p, i, "dram_lo"), hi \in Setting(before, p, i, "dram_hi"),
     s \in Setting(before, p, i, "spm"), n \in Setting(before, p, i, "bytes"),
     t \in Setting(before, p, i, "tag") :
    LET want == [dram_lo |-> lo, dram_hi |-> hi, spm |-> s, bytes |-> n, tag |-> t]
    IN  InRange(want) /\ p[i] \in {LaunchPacket(op, want) : op \in {"MVIN", "MVOUT"}}

Job == [op : {"MVIN", "MVOUT"}, dram : Nat, spm : Nat, words : Nat, tag : Nat]
Packet == [cmd : Registers, n : Nat] \cup [cmd : {"MVIN", "MVOUT"}, job : Job]

(* A program, given what the registers hold before it.                     *)
Fits(before, p) == \A i \in DOMAIN p : p[i].cmd \notin Registers => Launches(before, p, i)

Memory(m) == DOMAIN m \subseteq Nat /\ m = [a \in DOMAIN m |-> m[a]]

NoSettings == [r \in Registers |-> 0]

ASSUME DmaAssumption ==
  /\ {DramAddrMod, SpmAddrMod, BytesMod, HalfMod} \subseteq Nat \ {0}
  /\ NoAddr \notin ExtAddrs /\ NoJob \notin Job
  /\ Memory(InitialDram) /\ Memory(InitialSpm)
  /\ \A p \in Programs : p \in Seq(Packet) /\ Fits(NoSettings, p)

Init ==
  /\ EngineReset
  /\ program \in Programs
  /\ cpu_in = <<>> /\ cpu_out = <<>>
  /\ config = NoSettings
  /\ dram = InitialDram /\ spm = InitialSpm
  /\ dram_rd = <<>> /\ dram_wr = <<>> /\ dram_ack = 0
  /\ spm_rd = <<>> /\ spm_resp = <<>>
  /\ spm_rd_busy = FALSE /\ spm_rd_ext = FALSE /\ ext_want = NoAddr
  /\ job = NoJob /\ reports = <<>>

-----------------------------------------------------------------------------
(* CPU and controller.                                                     *)

CpuSend ==
  /\ program # <<>> /\ Len(cpu_in) < QueueSize
  /\ cpu_in' = Append(cpu_in, Head(program))
  /\ program' = Tail(program)
  /\ UNCHANGED <<engineVars, cpu_out, config, dramVars, spm, readVars, history>>

Configure ==
  /\ cpu_in # <<>> /\ Head(cpu_in).cmd \in Registers
  /\ config' = [config EXCEPT ![Head(cpu_in).cmd] = Head(cpu_in).n]
  /\ cpu_in' = Tail(cpu_in)
  /\ UNCHANGED <<engineVars, program, cpu_out, dramVars, spm, readVars, history>>

(* The command the controller makes of its registers.                      *)
Command(op) ==
  [op |-> op, dram_addr |-> config.dram_hi * HalfMod + config.dram_lo,
   spm_addr |-> config.spm, nbytes |-> config.bytes, tag |-> config.tag]

Launch ==
  /\ cpu_in # <<>> /\ Head(cpu_in).cmd \in {"MVIN", "MVOUT"}
  /\ RecvCommand(Command(Head(cpu_in).cmd))
  /\ cpu_in' = Tail(cpu_in)
  /\ job' = Head(cpu_in).job
  /\ UNCHANGED <<program, cpu_out, config, dramVars, spm, readVars, reports>>

ReportDone ==
  /\ Len(cpu_out) < QueueSize
  /\ SendDone
  /\ cpu_out' = Append(cpu_out, tag)
  /\ reports' = Append(reports, tag)
  /\ job' = NoJob
  /\ UNCHANGED <<program, cpu_in, config, dramVars, spm, readVars>>

CpuRecv ==
  /\ cpu_out # <<>>
  /\ cpu_out' = Tail(cpu_out)
  /\ UNCHANGED <<engineVars, program, cpu_in, config, dramVars, spm, readVars, history>>

-----------------------------------------------------------------------------
(* External memory.                                                        *)

DramBeat(addr) == [l \in 0 .. Lanes - 1 |-> dram[addr \div WordBytes + l]]

DramReadReq ==
  /\ SendDramRead
  /\ dram_rd' = Append(dram_rd, dram_addr)
  /\ UNCHANGED <<cpuVars, dram, dram_wr, dram_ack, spm, readVars, history>>

DramReadResp ==
  /\ dram_rd # <<>>
  /\ RecvDramRead(DramBeat(Head(dram_rd)))
  /\ dram_rd' = Tail(dram_rd)
  /\ UNCHANGED <<cpuVars, dram, dram_wr, dram_ack, spm, readVars, history>>

DramWriteReq ==
  /\ SendDramWrite
  /\ dram_wr' = Append(dram_wr, [addr |-> dram_addr, data |-> beat, mask |-> wr_mask])
  /\ UNCHANGED <<cpuVars, dram, dram_rd, dram_ack, spm, readVars, history>>

(* The external memory writes the lanes of the mask.                       *)
DramCommit ==
  /\ dram_wr # <<>>
  /\ LET w == Head(dram_wr)
         base == w.addr \div WordBytes
     IN dram' = [a \in DOMAIN dram |->
                   IF a - base \in w.mask THEN w.data[a - base] ELSE dram[a]]
  /\ dram_wr' = Tail(dram_wr)
  /\ dram_ack' = dram_ack + 1
  /\ UNCHANGED <<engineVars, cpuVars, dram_rd, spm, readVars, history>>

DramWriteResp ==
  /\ dram_ack > 0
  /\ RecvDramWrite
  /\ dram_ack' = dram_ack - 1
  /\ UNCHANGED <<cpuVars, dram, dram_rd, dram_wr, spm, readVars, history>>

-----------------------------------------------------------------------------
(* Scratchpad, and the arbiter of its read port.                           *)

SpmWrite ==
  /\ SendSpmWrite
  /\ spm' = [spm EXCEPT ![spm_addr] = beat[word_idx]]
  /\ UNCHANGED <<cpuVars, dramVars, readVars, history>>

(* One read at a time; the engine goes first.                              *)
DmaGranted == ~spm_rd_busy /\ state = "MVOUT_READ"
Bug_ext_any_time == state # "MVOUT_READ"
ExtGranted == ~spm_rd_busy /\ state # "MVOUT_READ"

(* A request is accepted: the arbiter notes whose it is.                   *)
AcceptRead(a, ext) ==
  /\ spm_rd' = Append(spm_rd, a)
  /\ spm_rd_busy' = TRUE
  /\ spm_rd_ext' = ext

SpmReadReq ==
  /\ DmaGranted
  /\ SendSpmRead
  /\ AcceptRead(spm_addr, FALSE)
  /\ UNCHANGED <<cpuVars, dramVars, spm, spm_resp, ext_want, history>>

ExtReadReq(a) ==
  /\ ExtGranted
  /\ ext_want = NoAddr
  /\ AcceptRead(a, TRUE)
  /\ ext_want' = a
  /\ UNCHANGED <<engineVars, cpuVars, dramVars, spm, spm_resp, history>>

(* The scratchpad reads the word, whatever banks and crossbars are between *)
(* the request and its response.                                           *)
SpmServe ==
  /\ spm_rd # <<>>
  /\ spm_resp' = Append(spm_resp, [addr |-> Head(spm_rd), data |-> spm[Head(spm_rd)]])
  /\ spm_rd' = Tail(spm_rd)
  /\ UNCHANGED <<engineVars, cpuVars, dramVars, spm, spm_rd_busy, spm_rd_ext, ext_want, history>>

(* The response goes to the one the arbiter noted, and frees the port.     *)
Bug_never_free ==
  /\ spm_rd_busy /\ spm_resp # <<>>
  /\ spm_resp' = Tail(spm_resp)
  /\ UNCHANGED <<spm_rd, spm_rd_busy, spm_rd_ext>>

ReleaseRead ==
  /\ spm_rd_busy /\ spm_resp # <<>>
  /\ spm_resp' = Tail(spm_resp)
  /\ spm_rd_busy' = FALSE
  /\ UNCHANGED <<spm_rd, spm_rd_ext>>

SpmReadResp ==
  /\ ~spm_rd_ext
  /\ ReleaseRead
  /\ RecvSpmRead(Head(spm_resp).data)
  /\ UNCHANGED <<cpuVars, dramVars, spm, ext_want, history>>

ExtReadResp ==
  /\ spm_rd_ext
  /\ ReleaseRead
  /\ ext_want' = NoAddr
  /\ UNCHANGED <<engineVars, cpuVars, dramVars, spm, history>>

-----------------------------------------------------------------------------
(* Steps that are taken sooner or later once possible; the external reader *)
(* need not ask, but accepts its answers.                                  *)
Progress ==
  \/ CpuSend \/ Configure \/ Launch \/ ReportDone \/ CpuRecv
  \/ DramReadReq \/ DramReadResp \/ DramWriteReq \/ DramCommit \/ DramWriteResp
  \/ SpmWrite \/ SpmReadReq \/ SpmServe \/ SpmReadResp \/ ExtReadResp

Next == Progress \/ \E a \in ExtAddrs : ExtReadReq(a)

Spec == Init /\ [][Next]_vars

Fairness ==
  /\ WF_vars(CpuSend) /\ WF_vars(Configure \/ Launch) /\ WF_vars(CpuRecv)
  /\ WF_vars(ReportDone \/ DramReadReq \/ DramWriteReq \/ SpmWrite)
  /\ WF_vars(DramReadResp \/ DramWriteResp) /\ WF_vars(DramCommit)
  /\ WF_vars(SpmReadReq) /\ WF_vars(SpmServe) /\ WF_vars(SpmReadResp \/ ExtReadResp)

FairSpec == Spec /\ Fairness
-----------------------------------------------------------------------------
(* Properties.                                                             *)

(* No request is outstanding that nobody waits for: the engine has one in  *)
(* the external memory exactly while it waits there, the scratchpad has    *)
(* one exactly while the arbiter is busy, and that one is the read of the  *)
(* word its owner asked for, so that the external reader never receives a  *)
(* word of a transfer nor the engine a word of the reader.                 *)
ReadsOwned ==
  /\ Len(dram_rd) = IF state = "MVIN_RESP" THEN 1 ELSE 0
  /\ Len(dram_wr) + dram_ack = IF state = "MVOUT_WAIT" THEN 1 ELSE 0
  /\ Len(spm_rd) + Len(spm_resp) = IF spm_rd_busy THEN 1 ELSE 0
  /\ state = "MVOUT_RESP" <=> spm_rd_busy /\ ~spm_rd_ext
  /\ ext_want # NoAddr <=> spm_rd_busy /\ spm_rd_ext
  /\ LET owner == IF spm_rd_ext THEN ext_want ELSE spm_addr
     IN /\ spm_rd # <<>> => Head(spm_rd) = owner
        /\ spm_resp # <<>> => Head(spm_resp).addr = owner

(* Words the engine has taken from the scratchpad and the external memory  *)
(* does not hold yet.                                                      *)
InBeat ==
  CASE state \in {"MVOUT_READ", "MVOUT_RESP"} -> word_idx
    [] state = "MVOUT_WRITE" -> word_idx + 1
    [] state = "MVOUT_WAIT" /\ dram_wr # <<>> -> word_idx + 1
    [] OTHER -> 0

Moved == IF job = NoJob THEN 0 ELSE job.words - words_left - InBeat

Jobs == UNION {{p[i].job : i \in {i \in DOMAIN p : p[i].cmd \notin Registers}} : p \in Programs}

Copy == INSTANCE BlockCopy WITH moved <- Moved

(* The path implements BlockCopy: each transfer copies exactly the block   *)
(* its CPU configured before launching it, in order and touching nothing   *)
(* else, and is reported with its tag once the last word is in place.      *)
CopiesInOrder == Copy!CopySpec

(* Every packet is taken and every transfer ends, whatever the external    *)
(* reader asks for in between.                                             *)
ProgramCompletes == <>(program = <<>> /\ cpu_in = <<>> /\ cpu_out = <<>> /\ state = "IDLE")
=============================================================================
