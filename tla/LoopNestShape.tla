--------------------------- MODULE LoopNestShape ---------------------------
(* What a loop controller (controller/LoopControllerRTL.py) is built with, *)
(* and the leaf loops below it.                                            *)
EXTENDS Naturals, Sequences, FiniteSets

CONSTANTS
  NumCCUs,      (* num_ccus                                                *)
  MaxTargets,   (* max_targets_per_ccu, a power of two                     *)
  Addr,         (* ctrl addresses, the loop ids of the counters in tiles   *)
  ValueLimit,   (* 2 to the width of a counter value                       *)
  Inner         (* iterations of every leaf loop                           *)

CountLimit == 16                          \* CountType has 4 bits

ASSUME LoopNestAssumption ==
  /\ NumCCUs \in Nat \ {0}
  /\ MaxTargets \in 1 .. CountLimit
  /\ ValueLimit \in Nat \ {0}
  /\ Addr \subseteq Nat /\ 0 \in Addr
  /\ Inner \in Nat
=============================================================================
