----------------------------- MODULE Im2colUnit -----------------------------
(* The im2col engine and its gate (Im2colPath) among the other engines of  *)
(* a CGRA.                                                                 *)

CONSTANTS Shapes, ScratchMod, DataAddrMod, ChannelSize, Early, Late

VARIABLES
  shape, packets, engine_active, cpu_queue, config_regs, engine, im2col_queue,
  bypass_queue, store_queue, stored, at_tiles

Im2col == INSTANCE Im2colPath

(* The stores are the lowered matrix, in order (Im2colPath).               *)
ColumnsExact == Im2col!ColumnsExact

(* Behind a launch, one packet at most gets ahead (Im2colPath).            *)
OneSlipsThrough == Im2col!OneSlipsThrough

(* Nothing sent behind a launch arrives before the engine is done: what a  *)
(* comment of the gate promises (Im2colPath).                              *)
PacketsWait == Im2col!PacketsWait
=============================================================================
