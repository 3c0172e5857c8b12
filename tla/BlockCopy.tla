----------------------------- MODULE BlockCopy -----------------------------
(* What the DMA engine promises.  A job names a direction, the first word  *)
(* in the external memory, the first word in the scratchpad, a number of   *)
(* words and a tag.  A job in progress copies its words in increasing      *)
(* order, at most one beat of Lanes words at a time; when all are copied   *)
(* its tag is reported.  Nothing else changes either memory, and jobs run  *)
(* one after another.                                                      *)
EXTENDS Naturals, Sequences

CONSTANTS
  Lanes,  \* words in a beat of the external memory
  Jobs,   \* the jobs that may be started
  NoJob   \* no job is in progress

VARIABLES
  dram,    \* words of the external memory
  spm,     \* words of the scratchpad
  job,     \* the job in progress, or NoJob
  moved,   \* words of it already copied
  reports  \* tags reported so far

copyVars == <<dram, spm, job, moved, reports>>

(* memory to with words lo .. hi-1 of a block copied from memory from, the *)
(* block starting at f in from and at t in to.                             *)
CopyWords(from, f, to, t, lo, hi) ==
  [a \in DOMAIN to |-> IF a \in (t + lo) .. (t + hi - 1) THEN from[f + (a - t)] ELSE to[a]]

CopyIdle == job = NoJob /\ moved = 0 /\ reports = <<>>

Start(j) ==
  /\ job = NoJob
  /\ job' = j
  /\ moved' = 0
  /\ UNCHANGED <<dram, spm, reports>>

Move(n) ==
  /\ job # NoJob
  /\ moved + n <= job.words
  /\ moved' = moved + n
  /\ \/ /\ job.op = "MVIN"
        /\ spm' = CopyWords(dram, job.dram, spm, job.spm, moved, moved + n)
        /\ UNCHANGED dram
     \/ /\ job.op = "MVOUT"
        /\ dram' = CopyWords(spm, job.spm, dram, job.dram, moved, moved + n)
        /\ UNCHANGED spm
  /\ UNCHANGED <<job, reports>>

Report ==
  /\ job # NoJob
  /\ moved = job.words
  /\ reports' = Append(reports, job.tag)
  /\ job' = NoJob
  /\ moved' = 0
  /\ UNCHANGED <<dram, spm>>

CopyNext ==
  \/ \E j \in Jobs : Start(j)
  \/ \E n \in 1 .. Lanes : Move(n)
  \/ Report

CopySpec == CopyIdle /\ [][CopyNext]_copyVars
=============================================================================
