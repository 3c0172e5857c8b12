----------------------------- MODULE DmaPathMC -----------------------------
(* Transfers one after the other, the next configured while one runs: no   *)
(* words, half a beat, a beat, and a beat and a half, from and to aligned  *)
(* and unaligned blocks that overlap those of the other transfer.          *)
EXTENDS DmaPath

Dram == [a \in 0 .. 13 |-> 100 + a]
Scratchpad == [a \in 0 .. 9 |-> 200 + a]

Order == <<"dram_lo", "dram_hi", "spm", "bytes", "tag">>
SetAll(want) == [i \in 1 .. 5 |-> SetPacket(Order[i], want[Order[i]])]

Want(lo, hi, s, n, t) == [dram_lo |-> lo, dram_hi |-> hi, spm |-> s, bytes |-> n, tag |-> t]
First == {Want(4, 0, s, n, 1) : s \in {0, 3}, n \in {0, 8, 16, 24}} \cup {Want(8, 1, 0, 24, 1)}
Second == {Want(8, 0, 2, 20, 2), Want(8, 1, 0, 12, 2)}
Ops == {"MVIN", "MVOUT"}

(* A CPU that sets every register before every launch.                     *)
CpuProgram(op1, w1, op2, w2) ==
  SetAll(w1) \o <<LaunchPacket(op1, w1)>> \o SetAll(w2) \o <<LaunchPacket(op2, w2)>>

TwoTransfers == {CpuProgram(o1, w1, o2, w2) : o1 \in Ops, w1 \in First, o2 \in Ops, w2 \in Second}

(* There and back: the second launch reuses all settings but the tag.      *)
Again(op1, w, op2) ==
  SetAll(w) \o <<LaunchPacket(op1, w), SetPacket("tag", 2), LaunchPacket(op2, [w EXCEPT !.tag = 2])>>

RoundTrips == {Again(o, Want(4, 0, 3, 24, 1), p) : o \in Ops, p \in Ops}

(* More launches than the CPU's queue holds completions.                   *)
Burst ==
  Again("MVOUT", Want(4, 1, 5, 4, 1), "MVIN")
    \o <<SetPacket("tag", 3), LaunchPacket("MVIN", Want(4, 1, 5, 4, 3)),
         SetPacket("bytes", 0), LaunchPacket("MVOUT", Want(4, 1, 5, 0, 3))>>

SomePrograms == TwoTransfers \cup RoundTrips \cup {Burst}
=============================================================================
