----------------------------- MODULE EnginesMC ------------------------------
(***************************************************************************)
(* What a controller has behind it, for model checking: the DMA engine,    *)
(* the im2col engine and the loop controller with its leaf counters.  A    *)
(* CGRA is built with one of them at a time; the initial state picks which *)
(* by what the CPU has to send, and the others stay as reset leaves them.  *)
(* All three are extended, and keep their names.                           *)
(***************************************************************************)
EXTENDS DmaPathMC, LoopNest, Im2colUnit

Topology == INSTANCE LoopNests

dma == vars
im2col == <<shape, packets, engine_active, cpu_queue, config_regs, engine, im2col_queue,
            bypass_queue, store_queue, stored, at_tiles>>
allvars == <<dma, im2col, loop_vars>>
-----------------------------------------------------------------------------
(* A transfer program, a nest, or the shape of an image: those of the      *)
(* engine's test, and images that are not square, fill the scratchpad or   *)
(* leave a rest the stride does not reach.                                 *)
MCPrograms == SomePrograms \cup {<<>>}
MCNests == Topology!PassingNests \cup {<<>>}

Image(h, w, kh, kw, log2, base) ==
  [H |-> h, W |-> w, kH |-> kh, kW |-> kw, log2_stride |-> log2, dst_sram_base |-> base]
NoImage == Image(1, 1, 1, 1, 0, 0)
MCShapes == {Image(4, 4, 2, 2, 0, 0), Image(4, 4, 2, 2, 1, 16), Image(1, 4, 1, 2, 1, 0),
             Image(3, 5, 2, 3, 0, 7), Image(5, 3, 3, 2, 1, 0), Image(2, 2, 2, 2, 0, 60),
             Image(3, 3, 1, 1, 1, 0), Image(1, 15, 1, 1, 0, 1)}

(* What the proof of ColumnsExact asks of the images.                      *)
ASSUME ShapesAssumption == Im2col!ShapesFit

(* What the proofs about loop nests ask of a configuration.                *)
ASSUME NestsAssumption == \A n \in Topology!PassingNests : Proper(n)

MCInit ==
  /\ Init /\ NestInit /\ Im2col!Reset
  /\ \/ program # <<>> /\ nest = <<>> /\ packets = <<>> /\ shape = NoImage
     \/ program = <<>> /\ nest # <<>> /\ packets = <<>> /\ shape = NoImage
     \/ program = <<>> /\ nest = <<>> /\ Im2col!Init

DmaRuns == nest = <<>> /\ shape = NoImage
DmaStep == DmaRuns /\ Next /\ UNCHANGED <<im2col, loop_vars>>
Im2colStep == Im2col!Next /\ UNCHANGED <<dma, loop_vars>>
NestStep == nest # <<>> /\ NestNext /\ UNCHANGED <<dma, im2col>>

MCNext == DmaStep \/ Im2colStep \/ NestStep

(* What has nothing to do can take none of the steps its fairness is about.*)
MCSpec ==
  MCInit /\ [][MCNext]_allvars /\ Fairness /\ Im2col!Fairness /\ NestFairness
-----------------------------------------------------------------------------
(* The image is lowered and every packet arrives (Im2colPath).             *)
PreloadCompletes == shape # NoImage => Im2col!PreloadCompletes
=============================================================================
