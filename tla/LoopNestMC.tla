---------------------------- MODULE LoopNestMC ----------------------------
(* LoopNest on the configurations of LoopNests.                            *)
EXTENDS LoopNest, LoopNests
=============================================================================
