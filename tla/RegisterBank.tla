---------------------------- MODULE RegisterBank ----------------------------
(***************************************************************************)
(* One register bank of a tile (mem/register_cluster/RegisterBankRTL.py):  *)
(* a register file whose entries carry tokens, and a one-entry write skid  *)
(* for a write whose target is read by its own ctrl step.                  *)
(*                                                                         *)
(* The bank sees the fields of the tile's current ctrl word.  The word     *)
(* stays the same while a step is in progress and may change when the step *)
(* completes (inport_ctrl_proceed), when the tile is idle, and on a clear. *)
(* In the cycle of a clear the ctrl memory sends no step, so nothing is    *)
(* written and nothing completes.  One action is one clock edge.           *)
(***************************************************************************)
EXTENDS Naturals, Sequences, RegisterWord

VARIABLES
  word,        (* the current ctrl word                                    *)
  active,      (* the ctrl memory is executing a step (send_ctrl.val)      *)
  regs,        (* reg_file                                                 *)
  token_valid, (* registers that hold an unconsumed token                  *)
  armed,       (* registers written at least once                          *)
  skid_valid, skid_data, skid_idx,
  accepted,    (* write accepted in the last cycle (history)               *)
  consumed,    (* token consumed in the last cycle (history)               *)
  written,     (* the step in progress has had a write accepted (history)  *)
  cleared      (* the last cycle was a clear (history)                     *)

skid == <<skid_valid, skid_data, skid_idx>>
vars == <<word, active, regs, token_valid, armed, skid, accepted, consumed, written,
          cleared>>
-----------------------------------------------------------------------------
(* update_token_status *)

reading == word.towards # "nothing"

wr_target_holds_token == word.wr \in token_valid
wr_target_being_read  == reading /\ word.rd = word.wr
skid_target_being_read == reading /\ word.rd = skid_idx

(* A parked write lands when its register's reading step completes, or, if *)
(* no step reads the register, once its token is gone.                     *)
skid_commit(proceed) ==
  /\ skid_valid
  /\ \/ skid_target_being_read /\ proceed
     \/ ~skid_target_being_read /\ skid_idx \notin token_valid

Direct == ~wr_target_holds_token /\ ~wr_target_being_read

Bug_outport_wr_rdy_no_skid == Direct                       \* no skid at all

outport_wr_rdy ==
  \/ Direct
  \/ wr_target_being_read /\ ~skid_valid

(* update_send_val: reads towards the FU and the routing crossbar.         *)
send_val(to) ==
  /\ word.towards \in {to, "both"}
  /\ word.rd \in token_valid \/ word.rd \notin armed
-----------------------------------------------------------------------------
(* access_registers: where an accepted write goes in this cycle.           *)

wr_accept(valid) == word.writes /\ valid /\ outport_wr_rdy

Bug_wr_en(valid, proceed) ==     \* the reading step is not respected
  wr_accept(valid) /\ (~wr_target_holds_token \/ proceed)

wr_en(valid, proceed) ==
  /\ wr_accept(valid)
  /\ Direct \/ (wr_target_being_read /\ proceed)

skid_park(valid, proceed) == wr_accept(valid) /\ ~wr_en(valid, proceed)

(* The one write port of the register file; a skid commit owns it.         *)
WritePort(valid, data, proceed) ==
  regs' = CASE skid_commit(proceed)  -> [regs EXCEPT ![skid_idx] = skid_data]
            [] ~skid_commit(proceed) /\ wr_en(valid, proceed)
                                     -> [regs EXCEPT ![word.wr] = data]
            [] OTHER                 -> regs

(* update_token_masks *)
token_set_mask(valid, proceed) ==
  (IF wr_en(valid, proceed) THEN {word.wr} ELSE {}) \cup
  (IF skid_commit(proceed) THEN {skid_idx} ELSE {})

token_clear_mask(proceed) ==
  IF proceed /\ reading THEN {word.rd} \cap token_valid ELSE {}

Bug_update_token_valid(valid, proceed) ==      \* clear wins over set
  /\ token_valid' = (token_valid \cup token_set_mask(valid, proceed))
                      \ token_clear_mask(proceed)
  /\ armed' = armed \cup token_set_mask(valid, proceed)

update_token_valid(valid, proceed) ==
  /\ token_valid' = (token_valid \ token_clear_mask(proceed))
                      \cup token_set_mask(valid, proceed)
  /\ armed' = armed \cup token_set_mask(valid, proceed)

update_skid(valid, data, proceed) ==
  IF skid_park(valid, proceed)
    THEN /\ skid_valid' = TRUE
         /\ skid_data' = data
         /\ skid_idx' = word.wr
    ELSE /\ skid_valid' = (skid_valid /\ ~skid_commit(proceed))
         /\ UNCHANGED <<skid_data, skid_idx>>
-----------------------------------------------------------------------------
Init ==
  /\ word \in {w \in BankFields : w.towards = "nothing" /\ ~w.writes}
  /\ active = FALSE
  /\ regs \in [Reg -> Data]
  /\ token_valid = {}
  /\ armed = {}
  /\ skid_valid = FALSE
  /\ skid_data \in Data
  /\ skid_idx \in Reg
  /\ accepted = None
  /\ consumed = None
  /\ written = FALSE
  /\ cleared = FALSE

(* A cycle of a step.  valid and data come from the selected write source. *)
StepCycle(valid, data, proceed) ==
  /\ active
  /\ cleared' = FALSE
  /\ WritePort(valid, data, proceed)
  /\ update_token_valid(valid, proceed)
  /\ update_skid(valid, data, proceed)
  /\ accepted' = IF wr_accept(valid) THEN <<word.wr, data>> ELSE None
  /\ consumed' = IF token_clear_mask(proceed) # {}
                   THEN <<word.rd, regs[word.rd]>> ELSE None
  /\ IF proceed
       THEN /\ word' \in BankFields
            /\ active' \in BOOLEAN
            /\ written' = FALSE
       ELSE /\ written' = (written \/ wr_accept(valid))
            /\ UNCHANGED <<word, active>>

(* No step: the crossbars deliver nothing, so the bank only sees a         *)
(* different word when the ctrl memory is reconfigured.  A parked write    *)
(* would still drain.                                                      *)
IdleCycle ==
  /\ ~active
  /\ cleared' = FALSE
  /\ WritePort(FALSE, skid_data, FALSE)
  /\ update_token_valid(FALSE, FALSE)
  /\ update_skid(FALSE, skid_data, FALSE)
  /\ word' \in BankFields
  /\ active' \in BOOLEAN
  /\ accepted' = None
  /\ consumed' = None
  /\ written' = FALSE

(* REARM: the token bookkeeping is cleared, the data stays.                *)
Bug_ClearCycle ==
  /\ cleared' = TRUE
  /\ WritePort(FALSE, skid_data, FALSE)
  /\ token_valid' = {}
  /\ armed' = {}
  /\ word' \in BankFields
  /\ active' = FALSE
  /\ accepted' = None
  /\ consumed' = None
  /\ written' = FALSE
  /\ UNCHANGED skid

ClearCycle ==
  /\ cleared' = TRUE
  /\ WritePort(FALSE, skid_data, FALSE)
  /\ token_valid' = {}
  /\ armed' = {}
  /\ skid_valid' = FALSE
  /\ word' \in BankFields
  /\ active' = FALSE
  /\ accepted' = None
  /\ consumed' = None
  /\ written' = FALSE
  /\ UNCHANGED <<skid_data, skid_idx>>

Next ==
  \/ \E valid, proceed \in BOOLEAN, data \in Data : StepCycle(valid, data, proceed)
  \/ IdleCycle
  \/ ClearCycle

Spec == Init /\ [][Next]_vars
-----------------------------------------------------------------------------
TypeOK ==
  /\ word \in BankFields
  /\ active \in BOOLEAN
  /\ regs \in [Reg -> Data]
  /\ token_valid \subseteq Reg
  /\ armed \subseteq Reg
  /\ skid_valid \in BOOLEAN
  /\ skid_data \in Data
  /\ skid_idx \in Reg
  /\ {accepted, consumed} \subseteq (Reg \X Data) \cup {None}
  /\ written \in BOOLEAN
  /\ cleared \in BOOLEAN

(* Tokens exist only in armed registers.                                   *)
TokensArmed == token_valid \subseteq armed

(* A parked write belongs to the step in progress, which reads and writes  *)
(* that very register: nothing is ever left in the skid for a later step.  *)
SkidOfThisStep ==
  skid_valid => active /\ reading /\ word.rd = skid_idx /\ word.wr = skid_idx /\ written

BankInv == TypeOK /\ TokensArmed /\ SkidOfThisStep

(* No write is accepted while the skid is occupied, so that a commit and a *)
(* direct write never meet on the single write port (the comment in        *)
(* access_registers).                                                      *)
SkidRejectsWrites == skid_valid => ~outport_wr_rdy

(* The first write of a step that reads its own target is never            *)
(* backpressured: otherwise the step would wait for its write and the      *)
(* write for the end of the step (issues #281 and #286 in the header).     *)
OwnWriteNeverBlocked ==
  active /\ wr_target_being_read /\ ~written => outport_wr_rdy

(* Reads are repeatable: in a cycle that does not complete the step, the   *)
(* register being read keeps its value, and both valid outputs keep theirs,*)
(* whatever is written meanwhile.                                          *)
ReadRepeatable ==
  [][ (\E valid \in BOOLEAN, data \in Data : StepCycle(valid, data, FALSE))
        => /\ reading => regs'[word.rd] = regs[word.rd]
           /\ \A to \in {"fu", "xbar"} : send_val(to)' = send_val(to) ]_vars

(* The unconsumed values of register r, oldest first.                      *)
TokensOf(r) ==
  (IF r \in token_valid THEN <<regs[r]>> ELSE <<>>) \o
  (IF skid_valid /\ skid_idx = r THEN <<skid_data>> ELSE <<>>)

Store == INSTANCE TokenStore WITH tokens <- [r \in Reg |-> TokensOf(r)]

(* Every accepted write is consumed once and in order; none is lost or     *)
(* overwritten, except by a clear, and a parked write never overtakes the  *)
(* token it waits for.                                                     *)
ImplementsTokens == Store!Spec
=============================================================================
