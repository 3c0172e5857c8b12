----------------------------- MODULE ReduceUnit -----------------------------
(* The global reduce unit (GlobalReduce) among the other parts of a CGRA.  *)

CONSTANTS Tile, NoTile, QueueSize, Modulus, Cmd, Operand

VARIABLES
  target_count, receiving_count, sending_count, queue, reduce_add_value,
  reduce_mul_value, waiting, result

Reduce == INSTANCE GlobalReduce WITH None <- NoTile

(* Every answer is the reduction of its round (GlobalReduce).              *)
ReduceExact == Reduce!ReduceExact
=============================================================================
