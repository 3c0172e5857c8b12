--------------------------- MODULE FunctionalUnit ---------------------------
(***************************************************************************)
(* The functional units of one tile (fu/flexible/FlexibleFuRTL.py): every  *)
(* unit of the tile's list sees the operands and the ctrl word, the one    *)
(* that knows the operation answers, and its registers move with the       *)
(* clock.  A step begins when the sequencer raises recv_opt.val and is     *)
(* done when a unit raises recv_opt.rdy; the tile then keeps the word from *)
(* the units until all of it is done (tile/TileRTL.py).                    *)
(*                                                                         *)
(* Operands come in any order and are gone once taken.  The receivers of   *)
(* the outports are a crossbar: the ones a word uses become ready          *)
(* together, and only when all of them carry a message.                    *)
(***************************************************************************)
EXTENDS FusedFus, Sequences

CONSTANTS
  FuLists,     (* the lists of units checked                               *)
  Ops,         (* the operations used with each list                       *)
  Addr,        (* ctrl addresses                                           *)
  Factors,     (* vector_factor_power of the jobs used with each list      *)
  Latency,     (* of the dividers                                          *)
  Sample,      (* the payloads tried in a word of one, two, ... operands   *)
  Stalls,      (* whether Careful words may be stalled too                 *)
  MaxLoops     (* executions of LOOP_CONTROL                               *)

ASSUME UnitAssumption == Latency \in 1..W /\ W % Latency = 0
                         /\ Sample \in [1..4 -> SUBSET Payload]

VARIABLES
  list,        (* FuList                                                   *)
  factor,      (* vector_factor_power                                      *)
  phase,       (* "idle", "run" while recv_opt.val, "done" after its rdy   *)
  word,        (* operation, ctrl address, is_last_ctrl                    *)
  args,        (* the operands of the step                                 *)
  here,        (* those offered now                                        *)
  regs,        (* the units' registers                                     *)
  took, gave, told,   (* what the step consumed, delivered and reported    *)
  past         (* what earlier steps did (history)                         *)

job == <<list, factor>>
step == <<word, args>>
history == <<took, gave, told>>
vars == <<job, phase, step, here, regs, history, past>>

Has(u) == \E i \in DOMAIN list : list[i] = u

NoWord == [op |-> "NAH", addr |-> 0, last |-> FALSE]
NoArgs == [i \in Operand |-> None]
-----------------------------------------------------------------------------
(* The operands a word selects, given whether its address ran before.      *)
three == {"in0", "in1", "in2"}

Operands(op, ran) ==
  CASE op \in {"INC", "PAS", "BIT_NOT", "NOT", "EXTRACT_PREDICATE", "GRT_ALWAYS", "GRT_ONCE",
               "RET", "RET_VOID", "FINC"} \cup local_reduce -> {"in0"}
    [] op \in {"CONST", "GRT_ONCE_CONST"} -> {"const"}
    [] op \in {"ADD_CONST", "SUB_CONST", "MUL_CONST", "DIV_CONST", "LLS_CONST", "EQ_CONST",
               "NE_CONST", "GTE_CONST", "GT_CONST", "LT_CONST", "GEP_CONST", "FADD_CONST",
               "FMUL_CONST", "VEC_ADD_CONST", "VEC_ADD_CONST_COMBINED", "VEC_SUB_CONST",
               "VEC_SUB_CONST_COMBINED", "INC_NE_CONST_NOT_GRT"} -> with_const
    [] op \in {"SEL", "GEP_2D", "MUL_LLS", "MUL_LRS"} -> three
    [] op \in {"MUL_ADD", "MUL_SUB"} -> IF list = <<"PrlMulAdder">> THEN loop ELSE three
    [] op = "MUL_CONST_ADD" -> {"in0", "const", "in2"}
    [] op = "GEP_2D_CONST" -> {"in0", "in1", "const"}
    [] op \in {"MUL_ADD_LLS", "MUL_SUB_LLS", "MUL_SUB_LRS", "LOOP_CONTROL"} -> loop
    [] op \in global_reduce -> {"in0", "response"}
    [] op = "PHI_START" -> IF ran THEN two ELSE {"in0"}
    [] op = "PHI_CONST" -> IF ran THEN with_const ELSE {"const"}
    [] OTHER -> IF list = <<"AluGenMac">> THEN three ELSE two

Outports(op) ==
  CASE op \in {"RET", "RET_VOID"} -> {}
    [] op \in {"LOOP_CONTROL", "INC_NE_CONST_NOT_GRT"} -> {"out0", "out1"}
    [] OTHER -> IF list = <<"PrlMulAdder">> THEN {"out0", "out1"} ELSE {"out0"}

(* Units whose val waits for rdy cannot face a crossbar, whose rdy waits   *)
(* for val: they are driven the way their test benches drive them.         *)
ReadyFirst(op) == op \in {"LOOP_CONTROL", "FINC"} \/ list = <<"AluGenMac">>

(* Words that are right only in a step nothing stalls: their registers     *)
(* move with recv_opt.val, or a signal ignores an operand or a receiver.   *)
divisions == {"DIV_INCLUSIVE_START", "REM_INCLUSIVE_START"}

Careful(w) ==
  \/ w.op \in {"PHI_START", "PHI_CONST", "FMUL_CONST"} \cup divisions \cup global_reduce
  \/ Has("ExclusiveDiv")
  \/ w.last /\ factor > 0
(* The lists and their operations: a unit occurs once; some units answer   *)
(* to operations of others, or read other operands than those, and are     *)
(* alone; an operation with an operand ready first is not used next to the *)
(* vector units that call every word done; a return ends a job that is not *)
(* vectorized, and so does a first execution unless nothing else runs.     *)
Units == {"Adder", "Mul", "Div", "Const", "ExtractPredicate", "Shifter", "Logic", "Comp", "Sel",
          "Gep", "Grant", "Ret", "Phi", "LoopControl", "ExclusiveDiv", "InclusiveDiv", "FpAdd",
          "FpMul", "AluGenMac", "VectorAdderCombo", "VectorMulCombo", "VectorAllReduce",
          "PrlMulAdder", "SeqMulAdder", "SeqMulShifter", "ThreeMulAdderShifter",
          "FourIncCmpNotGrant"}

special == {"PrlMulAdder", "AluGenMac", "InclusiveDiv", "ExclusiveDiv"}
returns == {"RET", "RET_VOID"}
first_words == {"PHI_START", "PHI_CONST"}

ProperList(l) ==
  /\ l \in Seq(Units) /\ \A i, j \in DOMAIN l : l[i] = l[j] => i = j
  /\ (\E i \in DOMAIN l : l[i] \in special) => Len(l) = 1
  /\ Ops[l] \cap base_global_reduce = {}
  /\ Ops[l] \cap {"LOOP_CONTROL", "FINC"} # {} =>
       \A i \in DOMAIN l : l[i] \notin {"VectorMulCombo", "VectorAllReduce"}
  /\ Ops[l] \cap returns # {} => Factors[l] \subseteq {0}
  /\ Ops[l] \cap first_words # {} =>
       /\ \E i \in DOMAIN l : l[i] = "Phi"
       /\ Factors[l] \subseteq {0} \/ Ops[l] \subseteq first_words \cup {"PHI"}
  /\ \A f \in Factors[l] : f \in Nat /\ 2^f \in Nat \ {0}

ASSUME ListsAssumption == (\A l \in FuLists : ProperList(l)) /\ 2^0 = 1
-----------------------------------------------------------------------------
seen == [i \in Operand |-> IF i \in here THEN args[i] ELSE None]
rvf == reached_vector_factor(regs.counter, 0, factor)

(* The pipeline of the dividers: stage 0 sees the last operands driven.    *)
Stage(k) == IF k = 0 THEN [dividend |-> regs.fed[1], divisor |-> regs.fed[2], q |-> 0, r |-> 0]
                     ELSE regs.pipe[k]
per_stage == W \div Latency
After(k) == Divide(Stage(k), k * per_stage, per_stage)
ripe == regs.cur_cycle = Latency - 1

Answer(u, t, r, c) ==
  LET op == word.op IN
  CASE u = "Adder"                -> Adder(op, t, r, rvf)
    [] u = "Mul"                  -> Mul(op, t, r, rvf)
    [] u = "Div"                  -> Div(op, t, r, rvf)
    [] u = "Const"                -> Const(op, t, r, rvf)
    [] u = "ExtractPredicate"     -> ExtractPredicate(op, t, r)
    [] u = "Shifter"              -> Shifter(op, t, r, rvf)
    [] u = "Logic"                -> Logic(op, t, r, rvf)
    [] u = "Comp"                 -> Comp(op, t, r, rvf)
    [] u = "Sel"                  -> Sel(op, t, r, rvf)
    [] u = "Gep"                  -> Gep(op, t, r, rvf, regs.stride)
    [] u = "Grant"                -> Grant(op, t, r, rvf, regs.already_grt_once[word.addr])
    [] u = "Ret"                  -> Ret(op, t, c, rvf, regs.already_done[word.addr])
    [] u = "Phi"                  -> Phi(op, t, r, rvf, regs.first[word.addr])
    [] u = "LoopControl"          -> LoopControl(op, t, r, rvf, regs.index, regs.initialized)
    [] u = "ExclusiveDiv"         -> ExclusiveDiv(op, t, r, rvf, ripe, After(Latency - 1))
    [] u = "InclusiveDiv"         -> InclusiveDiv(op, t, r, rvf, After(Latency - 1))
    [] u = "FpAdd"                -> FpAdd(op, t, r)
    [] u = "FpMul"                -> FpMul(op, t, r)
    [] u = "AluGenMac"            -> AluGenMac(op, t, r)
    [] u = "VectorAdderCombo"     -> VectorAdderCombo(op, t, r)
    [] u = "VectorMulCombo"       -> VectorMulCombo(op, t, r)
    [] u = "VectorAllReduce"      -> VectorAllReduce(op, t, r, c, regs.already_sent)
    [] u = "PrlMulAdder"          -> PrlMulAdder(op, t, r, rvf)
    [] u = "SeqMulAdder"          -> SeqMulAdder(op, t, r, rvf)
    [] u = "SeqMulShifter"        -> SeqMulShifter(op, t, r, rvf)
    [] u = "ThreeMulAdderShifter" -> ThreeMulAdderShifter(op, t, r)
    [] u = "FourIncCmpNotGrant"   -> FourIncCmpNotGrant(op, t, r, rvf)

(* FlexibleFu: rdy signals are or-ed, of two units that drive an outport   *)
(* the later one wins.                                                     *)
Latest(S) == CHOOSE x \in S : \A y \in S : y.unit <= x.unit

Merge(answers) ==
  LET drives(o) == {x \in answers : o \in DOMAIN x.says.outs}
      tells == {x \in answers : x.says.cmd # None}
  IN [outs  |-> [o \in UNION {DOMAIN x.says.outs : x \in answers} |->
                   Latest(drives(o)).says.outs[o]],
      takes |-> UNION {x.says.takes : x \in answers},
      done  |-> \E x \in answers : x.says.done,
      cmd   |-> IF tells = {} THEN None ELSE Latest(tells).says.cmd]

FlexibleFu(r, c) ==
  Merge({[unit |-> i, says |-> Answer(list[i], seen, r, c)] : i \in DOMAIN list})
-----------------------------------------------------------------------------
(* The registers at the end of a cycle of a step.                          *)
record_grt_once(a, rdy) ==
  [regs.already_grt_once EXCEPT ![word.addr] =
     @ \/ (word.op \in {"GRT_ONCE", "GRT_ONCE_CONST"} /\ rdy /\ "out0" \in DOMAIN a.outs)]

Bug_update_already_done(a, c) == regs.already_done     \* reports every time

update_already_done(a, c) ==
  [regs.already_done EXCEPT ![word.addr] =
     @ \/ (word.op \in {"RET", "RET_VOID"} /\ a.cmd # None /\ c)]

(* Any cycle the word is valid in, whether or not the unit does its work.  *)
record_first_execution ==
  [regs.first EXCEPT ![word.addr] = @ /\ ~(word.op \in {"PHI_CONST", "PHI_START"} /\ rvf)]

next_index == (LoopIndex(seen, regs.index, regs.initialized) + seen["in3"].payload) % M

advances(rdy) == word.op = "LOOP_CONTROL" /\ All(seen, loop) /\ rdy

divides == word.op \in {"DIV", "REM", "DIV_CONST"} /\ Has("ExclusiveDiv")

cur_cycle(rdy) ==
  IF ripe THEN (IF rdy THEN 0 ELSE regs.cur_cycle) ELSE IF divides THEN regs.cur_cycle + 1 ELSE 0

Registers(a, rdy, c) ==
  [regs EXCEPT
     !.counter = vector_factor_counter(regs.counter, 0, factor, word.last),
     !.first = record_first_execution,
     !.already_grt_once = record_grt_once(a, rdy),
     !.already_done = update_already_done(a, c),
     !.already_sent = already_sent_to_controller(word.op, @, a.cmd # None /\ c, a.done),
     !.index = IF advances(rdy) THEN next_index ELSE @,
     !.initialized = @ \/ advances(rdy),
     !.cur_cycle = cur_cycle(rdy),
     !.pipe = IF Has("ExclusiveDiv") \/ Has("InclusiveDiv") THEN [k \in DOMAIN @ |-> After(k - 1)] ELSE @]

(* What the dividers are fed when a step begins.                           *)
Feeds(w, f) ==
  IF w.op \in divisions \/ Has("ExclusiveDiv")
  THEN <<f["in0"].payload, IF w.op = "DIV_CONST" THEN f["const"].payload ELSE f["in1"].payload>>
  ELSE regs.fed
-----------------------------------------------------------------------------
TokensFor(n) == {Data(x, TRUE) : x \in Sample[n]} \cup {Data(1, FALSE)}

(* A ctrl address keeps its operation for the whole job, which matters     *)
(* where a unit remembers the address; a divisor of zero is an error of    *)
(* the program.                                                            *)
remembered == {"PHI_START", "PHI_CONST", "GRT_ONCE", "GRT_ONCE_CONST", "RET", "RET_VOID"}

Ran(a) == past.ran[a] # None

Legal(w, f) ==
  /\ w.op \in remembered => past.ran[w.addr] \in {None, w.op}
  /\ w.op \in {"DIV", "REM"} \cup divisions => f["in1"].payload # 0
  /\ w.op = "DIV_CONST" => f["const"].payload # 0
  /\ w.op \in {"DIV_INCLUSIVE_END", "REM_INCLUSIVE_END"} => past.division # None
  /\ w.op = "LOOP_CONTROL" => past.loops < MaxLoops

Begin ==
  /\ phase = "idle"
  /\ \E op \in Ops[list], a \in Addr, last \in IF factor = 0 THEN {FALSE} ELSE BOOLEAN :
       LET w == [op |-> op, addr |-> a, last |-> last]
           S == Operands(op, Ran(a)) IN
       \E f \in [S -> TokensFor(Cardinality(S))] :
         /\ Legal(w, f)
         /\ word' = w
         /\ args' = Join(f, NoArgs)
         /\ here' = IF Careful(w) /\ ~Stalls THEN S \ {"response"} ELSE {}
         /\ regs' = [regs EXCEPT !.fed = Feeds(w, f)]
  /\ phase' = "run"
  /\ UNCHANGED <<job, history, past>>

(* A response answers what the step told the controller.                   *)
Arrive(i) ==
  /\ phase = "run" /\ args[i] # None /\ i \notin here /\ took[i] = 0
  /\ i = "response" => told # <<>>
  /\ here' = here \cup {i}
  /\ UNCHANGED <<job, phase, step, regs, history, past>>

(* One cycle: the crossbar's receivers are ready or not, and so is the     *)
(* queue towards the control memory.                                       *)
Clock(ready, ctrl_rdy) ==
  LET used == Outports(word.op) IN
  /\ phase = "run"
  /\ Careful(word) /\ ~Stalls => ready /\ ctrl_rdy
  /\ \E rdy \in {/\ ready /\ used # {}
                 /\ ReadyFirst(word.op) \/ used \subseteq DOMAIN FlexibleFu(FALSE, ctrl_rdy).outs} :
     \E a \in {FlexibleFu(rdy, ctrl_rdy)} :
       /\ here' = here \ a.takes
       /\ took' = [i \in Operand |-> took[i] + Cardinality({i} \cap here \cap a.takes)]
       /\ gave' = IF rdy /\ used \subseteq DOMAIN a.outs
                  THEN Append(gave, [o \in used |-> a.outs[o]]) ELSE gave
       /\ told' = IF a.cmd # None /\ ctrl_rdy THEN Append(told, a.cmd) ELSE told
       /\ regs' = Registers(a, rdy, ctrl_rdy)
       /\ phase' = IF a.done THEN "done" ELSE "run"
  /\ UNCHANGED <<job, step, past>>

(* The tile moves on.                                                      *)
End ==
  /\ phase = "done"
  /\ phase' = "idle" /\ word' = NoWord /\ args' = NoArgs /\ here' = {}
  /\ took' = [i \in Operand |-> 0] /\ gave' = <<>> /\ told' = <<>>
  /\ past' = [past EXCEPT
       !.ran[word.addr] = IF word.op \in remembered /\ past.passes + 1 = 2^factor
                          THEN word.op ELSE @,
       !.returned[word.addr] = @ \/ (word.op \in {"RET", "RET_VOID"} /\ args["in0"].predicate
                                     /\ past.passes + 1 = 2^factor),
       !.passes = IF word.last THEN (@ + 1) % 2^factor ELSE @,
       !.loops = IF word.op = "LOOP_CONTROL" THEN @ + 1 ELSE @,
       !.start = IF word.op = "LOOP_CONTROL" THEN gave[1]["out0"].payload + args["in3"].payload ELSE @,
       !.division = IF word.op \in divisions
                    THEN <<args["in0"].payload, args["in1"].payload>> ELSE @]
  /\ UNCHANGED <<job, regs>>

(* REARM restores what belongs to one execution of the job; the loop index,*)
(* the dividers and a reduction under way are not among it.                *)
Clear ==
  /\ phase = "idle"
  /\ regs' = [regs EXCEPT !.counter = 0, !.first = [a \in Addr |-> TRUE],
                          !.already_grt_once = [a \in Addr |-> FALSE],
                          !.already_done = [a \in Addr |-> FALSE]]
  /\ past' = [past EXCEPT !.ran = [a \in Addr |-> None], !.passes = 0,
                          !.returned = [a \in Addr |-> FALSE]]
  /\ UNCHANGED <<job, phase, step, here, history>>

(* CMD_CONFIG_GEP_STRIDE.                                                  *)
update_stride ==
  /\ phase = "idle" /\ Has("Gep")
  /\ \E x \in Sample[4] : regs' = [regs EXCEPT !.stride = x]
  /\ UNCHANGED <<job, phase, step, here, history, past>>

Init ==
  /\ list \in FuLists /\ factor \in Factors[list]
  /\ phase = "idle" /\ word = NoWord /\ args = NoArgs /\ here = {}
  /\ took = [i \in Operand |-> 0] /\ gave = <<>> /\ told = <<>>
  /\ regs = [counter |-> 0, first |-> [a \in Addr |-> TRUE],
             already_grt_once |-> [a \in Addr |-> FALSE],
             already_done |-> [a \in Addr |-> FALSE],
             already_sent |-> FALSE, stride |-> 0, index |-> 0, initialized |-> FALSE,
             cur_cycle |-> 0, fed |-> <<0, 0>>,
             pipe |-> [k \in 1..(Latency - 1) |-> [dividend |-> 0, divisor |-> 0, q |-> 0, r |-> 0]]]
  /\ past = [ran |-> [a \in Addr |-> None], returned |-> [a \in Addr |-> FALSE],
             passes |-> 0, loops |-> 0, start |-> 0, division |-> None]

Next == Begin \/ (\E i \in Operand : Arrive(i)) \/ (\E r, c \in BOOLEAN : Clock(r, c))
        \/ End \/ Clear \/ update_stride

Spec == Init /\ [][Next]_vars

(* Every operand comes, and the receivers are ready again and again.       *)
FairSpec ==
  Spec /\ WF_vars(Clock(TRUE, TRUE)) /\ \A i \in Operand : WF_vars(Arrive(i))
=============================================================================
