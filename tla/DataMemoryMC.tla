---------------------------- MODULE DataMemoryMC ----------------------------
(***************************************************************************)
(* Two CGRAs of two tile ports and two banks of two words (addresses 0..3  *)
(* and 4..7): a tile and the DMA engine of the first one, a tile of the    *)
(* second and the CPU, at the last word of the first CGRA and at one of    *)
(* the second.                                                             *)
(***************************************************************************)
EXTENDS DataMemory

Tile0 == <<0, 1>>
Engine == <<0, Dma>>
Tile1 == <<1, 0>>
Processor == <<0, Cpu>>

MCRequesters == {Tile0, Engine, Tile1, Processor}

MCTargets == [r \in MCRequesters |-> IF r \in {Engine, Processor} THEN {5} ELSE {3, 5}]

MCMaxStores == [r \in MCRequesters |-> CASE r = Tile0 -> 2 [] r = Processor -> 1 [] OTHER -> 0]
=============================================================================
