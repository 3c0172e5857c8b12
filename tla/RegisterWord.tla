---------------------------- MODULE RegisterWord ----------------------------
(* What a register bank reads of a ctrl word.                              *)
CONSTANTS
  Reg,         (* register indices, 0 .. num_registers - 1                 *)
  Data,        (* what a register holds                                    *)
  None         (* "nothing", for the history variables                     *)

Towards == {"nothing", "fu", "xbar", "both"}

(* read_reg_towards and read_reg_idx, whether write_reg_from selects a     *)
(* source, write_reg_idx.                                                  *)
BankFields == [towards : Towards, rd : Reg, writes : BOOLEAN, wr : Reg]

ASSUME BankAssumption == Reg # {} /\ Data # {} /\ None \notin Reg \X Data
=============================================================================
