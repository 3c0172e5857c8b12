-------------------------- MODULE FunctionalUnitMC --------------------------
(***************************************************************************)
(* The functional units for model checking: the lists of units tried, and  *)
(* what their operations are meant to compute, said without their circuits *)
(* (as arithmetic on whole payloads, on lanes, on signed numbers, and on   *)
(* the history of the steps before).                                       *)
(***************************************************************************)
EXTENDS FunctionalUnit

scalar == <<"Adder", "Mul", "Const", "ExtractPredicate", "Shifter", "Logic", "Comp", "Sel",
            "SeqMulShifter", "SeqMulAdder">>
vectorized == <<"Adder", "Shifter", "Comp", "Sel", "SeqMulAdder">>
vector == <<"VectorAdderCombo", "VectorMulCombo", "VectorAllReduce", "ThreeMulAdderShifter",
            "FourIncCmpNotGrant">>

MCOps ==
  scalar :> {"ADD", "ADD_CONST", "INC", "SUB", "SUB_CONST", "PAS", "MUL", "MUL_CONST", "CONST",
             "EXTRACT_PREDICATE", "LLS", "LLS_CONST", "LRS", "OR", "AND", "XOR", "BIT_NOT",
             "NOT", "EQ", "NE", "EQ_CONST", "NE_CONST", "LT", "GTE_CONST", "GT_CONST",
             "LT_CONST", "SEL", "MUL_LLS", "MUL_LRS", "MUL_ADD", "MUL_CONST_ADD", "MUL_SUB"}
  @@ vectorized :> {"ADD", "INC", "LLS_CONST", "NE", "SEL", "MUL_CONST_ADD"}
  @@ <<"LoopControl">> :> {"LOOP_CONTROL"}
  @@ <<"Gep">> :> {"GEP", "GEP_CONST", "GEP_2D", "GEP_2D_CONST"}
  @@ vector :> {"VEC_ADD", "VEC_ADD_COMBINED", "VEC_SUB", "VEC_SUB_COMBINED", "VEC_ADD_CONST",
                "VEC_ADD_CONST_COMBINED", "VEC_SUB_CONST", "VEC_SUB_CONST_COMBINED", "VEC_MUL",
                "VEC_MUL_COMBINED", "MUL_ADD_LLS", "MUL_SUB_LLS", "MUL_SUB_LRS",
                "INC_NE_CONST_NOT_GRT"} \cup local_reduce \cup base_reduce \cup global_reduce
  @@ <<"Grant", "Ret">> :> {"GRT_PRED", "GRT_ALWAYS", "GRT_ONCE", "GRT_ONCE_CONST", "RET",
                            "RET_VOID"}
  @@ <<"Phi">> :> {"PHI", "PHI_START", "PHI_CONST"}
  @@ <<"PrlMulAdder">> :> {"MUL_ADD", "MUL_SUB"}
  @@ <<"ExclusiveDiv">> :> {"DIV", "REM", "DIV_CONST"}
  @@ <<"InclusiveDiv">> :> divisions \cup {"DIV_INCLUSIVE_END", "REM_INCLUSIVE_END"}
  @@ <<"Div", "FpAdd", "FpMul">> :> {"DIV", "DIV_CONST", "FADD", "FADD_CONST", "FSUB", "FINC",
                                     "FMUL", "FMUL_CONST"}
  @@ <<"AluGenMac">> :> {"ADD", "MUL_ADD"}

MCFuLists == DOMAIN MCOps
OnlyPhi == {<<"Phi">>}

MCFactors ==
  [l \in MCFuLists |->
     CASE l = vectorized -> {1} [] l = <<"Phi">> -> {0, 1} [] OTHER -> {0}]
OnlyScalar == [l \in OnlyPhi |-> {0}]

MCSample == <<{0, 1, 2, 27, 85, 127, 128, 170, 201, 254, 255}, {0, 3, 27, 128, 255},
              {0, 1, 6, 255}, {129, 131}>>
-----------------------------------------------------------------------------
Signed(x) == IF x >= M \div 2 THEN x - M ELSE x

LanesOf(x) == [i \in LaneIds |-> Lane(x, i)]
Product(f) == FoldFunction(LAMBDA i, j : i * j, 1, f)
InLanes(f) == SumFunction([i \in LaneIds |-> f[i] * 2^(i * B)])

(* Shifts by moving bits, left if n > 0; the bits two numbers share.       *)
Moved(x, n) == FromBits({i + n : i \in Bits(x)} \cap 0..(W - 1))
Common(x, y) == SumFunction([i \in 0..(W - 1) |-> ((x \div 2^i) * (y \div 2^i) % 2) * 2^i])

P(i) == IF args[i] = None THEN 0 ELSE args[i].payload

reached == past.passes + 1 = 2^factor
first_run == ~Ran(word.addr)

(* The floating point units and AluGenMac instantiate vendored Verilog:    *)
(* their protocol is modelled, their arithmetic has no meaning here.       *)
vendored_arithmetic == {"FADD", "FADD_CONST", "FSUB", "FINC", "FMUL", "FMUL_CONST"}
NoMeaning(op) == op \in vendored_arithmetic \/ list = <<"AluGenMac">>

(* What an operation computes: the payload of out0.  y is the second       *)
(* operand, from the inport or the constant.                               *)
Meaning(op) ==
  LET x == P("in0")   y == P(IF args["in1"] # None THEN "in1" ELSE "const")
      c == P("const")   d == P("in2")   e == P("in3")
      product == (Signed(x) * Signed(y)) % M
      u == LanesOf(x)   v == LanesOf(y) IN
  CASE op \in {"ADD", "ADD_CONST", "GEP", "GEP_CONST", "VEC_ADD_COMBINED"} -> (x + y) % M
    [] op \in {"SUB", "SUB_CONST", "VEC_SUB_COMBINED", "VEC_SUB_CONST_COMBINED"} -> (x - y) % M
    [] op = "INC"                                       -> (x + 1) % M
    [] op \in {"PAS", "GRT_PRED", "GRT_ALWAYS", "GRT_ONCE"} -> x
    [] op \in {"CONST", "GRT_ONCE_CONST"}               -> c
    [] op = "EXTRACT_PREDICATE"                         -> Bool(args["in0"].predicate)
    [] op \in {"MUL", "MUL_CONST"}                      -> product
    [] op \in {"DIV", "DIV_CONST"}                      -> x \div y
    [] op = "REM"                                       -> x % y
    [] op \in divisions                                 -> 0
    [] op = "DIV_INCLUSIVE_END"                         -> past.division[1] \div past.division[2]
    [] op = "REM_INCLUSIVE_END"                         -> past.division[1] % past.division[2]
    [] op \in {"LLS", "LLS_CONST"}                      -> Moved(x, y)
    [] op = "LRS"                                       -> Moved(x, -y)
    [] op = "AND"                                       -> Common(x, y)
    [] op = "OR"                                        -> x + y - Common(x, y)
    [] op = "XOR"                                       -> x + y - 2 * Common(x, y)
    [] op = "BIT_NOT"                                   -> (-x - 1) % M
    [] op = "NOT"                                       -> Bool(x = 0)
    [] op \in {"EQ", "EQ_CONST"}                        -> Bool(x = y)
    [] op \in {"NE", "NE_CONST"}                        -> Bool(x # y)
    [] op \in {"LT", "LT_CONST"}                        -> Bool(Signed(x) < Signed(y))
    [] op = "GTE_CONST"                                 -> Bool(Signed(x) >= Signed(y))
    [] op = "GT_CONST"                                  -> Bool(Signed(x) > Signed(y))
    [] op = "SEL"                                       -> IF x = 1 THEN y ELSE d
    [] op = "GEP_2D"                                    -> (x + y * regs.stride + d) % M
    [] op = "GEP_2D_CONST"                              -> (c + x * regs.stride + y) % M
    [] op \in {"MUL_ADD", "MUL_SUB"} /\ list = <<"PrlMulAdder">> -> product
    [] op \in {"MUL_ADD", "MUL_CONST_ADD"} /\ list # <<"PrlMulAdder">> ->
                                                           (product + Signed(d)) % M
    [] op = "MUL_SUB" /\ list # <<"PrlMulAdder">>       -> (product - Signed(d)) % M
    [] op = "MUL_LLS"                                   -> Moved(product, d)
    [] op = "MUL_LRS"                                   -> Moved(product, -d)
    [] op = "MUL_ADD_LLS"                               -> Moved(product, (d + e) % M)
    [] op = "MUL_SUB_LLS"                               -> Moved(product, (d - e) % M)
    [] op = "MUL_SUB_LRS"                               -> Moved(product, -((d - e) % M))
    [] op \in {"VEC_ADD", "VEC_ADD_CONST", "VEC_ADD_CONST_COMBINED"} ->
                                  InLanes([i \in LaneIds |-> (u[i] + v[i]) % 2^B])
    [] op \in {"VEC_SUB", "VEC_SUB_CONST"} -> InLanes([i \in LaneIds |-> (u[i] - v[i]) % 2^B])
    [] op = "VEC_MUL"                  -> InLanes([i \in LaneIds |-> u[i] * v[i]]) % M
    [] op = "VEC_MUL_COMBINED"         -> (x % 2^(2 * B)) * (y % 2^(2 * B)) % M
    [] op \in {"VEC_REDUCE_ADD", "VEC_REDUCE_ADD_BASE"} -> (SumFunction(u) + y) % M
    [] op = "VEC_REDUCE_MUL"           -> Product(u) % M
    [] op = "VEC_REDUCE_MUL_BASE"      -> (Product(u) * y) % M
    [] op \in global_reduce            -> P("response")
    [] op = "PHI_CONST"                -> IF first_run THEN c ELSE x
    [] op = "PHI_START" /\ first_run   -> x
    [] op = "PHI" \/ (op = "PHI_START" /\ ~first_run) ->
                    IF args["in0"].predicate \/ ~args["in1"].predicate THEN x ELSE P("in1")
    [] op = "LOOP_CONTROL"             -> (IF past.loops = 0 THEN P("in1") ELSE past.start) % M
    [] op = "INC_NE_CONST_NOT_GRT"     -> Bool((x + 1) % M = c)

(* And that of out1.                                                       *)
MeaningOfOut1(op) ==
  CASE op = "LOOP_CONTROL"          -> Bool(Meaning(op) < P("in2") /\ args["in0"].predicate)
    [] op = "INC_NE_CONST_NOT_GRT"  -> (P("in0") + 1) % M
    [] op = "MUL_ADD"               -> (P("in2") + P("in3")) % M
    [] op = "MUL_SUB"               -> (P("in2") - P("in3")) % M

(* Whether the result is valid: with its operands, constants apart, and in *)
(* the last pass of a vectorized iteration, but for the operations that    *)
(* have their own idea of it.                                              *)
own_predicate == {"EXTRACT_PREDICATE", "GRT_PRED", "GRT_ALWAYS", "GRT_ONCE", "GRT_ONCE_CONST",
                  "PHI", "PHI_START", "PHI_CONST", "LOOP_CONTROL"} \cup global_reduce

ValidExactly(op, valid) ==
  LET S == IF list = <<"PrlMulAdder">> THEN two ELSE {i \in Operand : args[i] # None}
      both == reached /\ args["in0"].predicate /\ args["in1"].predicate IN
  CASE op \notin own_predicate ->
         /\ valid => reached /\ \A i \in S \ {"const"} : args[i].predicate
         /\ reached /\ (\A i \in S : args[i].predicate) => valid
    [] op = "EXTRACT_PREDICATE"             -> valid
    [] op = "GRT_PRED"                      -> valid = (both /\ P("in1") # 0)
    [] op = "GRT_ALWAYS"                    -> valid = reached
    [] op \in {"GRT_ONCE", "GRT_ONCE_CONST"} -> valid = (first_run /\ reached)
    [] op = "PHI_START" /\ first_run        -> valid = reached
    [] op = "PHI" \/ (op = "PHI_START" /\ ~first_run) ->
         valid = (reached /\ (args["in0"].predicate \/ args["in1"].predicate))
    [] op = "PHI_CONST" -> valid = (reached /\ args[IF first_run THEN "const" ELSE "in0"].predicate)
    [] op = "LOOP_CONTROL" -> valid = (Meaning(op) < P("in2") /\ args["in0"].predicate)
    [] op \in global_reduce -> ~valid

ValidOnOut1(op) ==
  CASE op = "LOOP_CONTROL"          -> reached
    [] op = "INC_NE_CONST_NOT_GRT"  -> args["in0"].predicate /\ args["const"].predicate
                                       /\ Meaning(op) = 0
    [] list = <<"PrlMulAdder">>     -> args["in2"].predicate /\ args["in3"].predicate

(* A finished step computed what its operation means, for all operands     *)
(* tried and whatever ran before: signed comparisons are signed, a shift   *)
(* moves bits, lanes do not leak into each other and combined ones carry,  *)
(* dividing in stages divides, fused words agree with their formula; a     *)
(* grant is given once, a loop index counts in steps and is valid below    *)
(* its end, a first execution picks the initial value; what a return or a  *)
(* summing reduction tells the controller is its operand or the sum of its *)
(* lanes.  Of the units with vendored arithmetic only the validity is      *)
(* said, and of the product sent for a global reduction nothing (fu/).     *)
ResultsExact ==
  phase = "done" =>
    LET op == word.op IN
    /\ gave # <<>> =>
         /\ ValidExactly(op, gave[1]["out0"].predicate)
         /\ NoMeaning(op) \/ gave[1]["out0"].payload = Meaning(op)
         /\ "out1" \in DOMAIN gave[1] =>
              gave[1]["out1"] = Data(MeaningOfOut1(op), ValidOnOut1(op))
    /\ told # <<>> /\ op = "RET" => told[1][2] = P("in0")
    /\ told # <<>> /\ op = "VEC_REDUCE_ADD_GLOBAL" => told[1][2] = SumFunction(LanesOf(P("in0"))) % M

(* A finished step did each of its parts once, in whatever order operands  *)
(* came and receivers were ready: it took every operand, delivered one     *)
(* message on every outport it uses, and told the controller once if that  *)
(* is its job (fu/flexible/FlexibleFuRTL.py, line 135).  SUB_CONST leaves  *)
(* its constant, and the two-step division its second operand.             *)
leaves(op) ==
  CASE op = "SUB_CONST" -> {"const"}
    [] list = <<"InclusiveDiv">> -> {"in1"}
    [] OTHER -> {}

ActsOncePerStep ==
  /\ phase = "done" =>
       LET op == word.op   S == Operands(op, Ran(word.addr)) IN
       /\ \A i \in S \ leaves(op) : took[i] = 1
       /\ Len(gave) = IF Outports(op) = {} THEN 0 ELSE 1
       /\ op \in {"RET", "RET_VOID"} =>
            Len(told) = Bool(args["in0"].predicate /\ ~past.returned[word.addr])
       /\ op \in global_reduce => Len(told) = 1
  /\ phase = "run" => \A i \in Operand : took[i] <= 1

(* A step ends once its operands came and its receivers were ready.        *)
StepEnds == phase = "run" ~> phase = "done"

(* first is one until the initial value was received: "s.first[0] becomes 0 *)
(* after receiving" it (fu/single/test/PhiRTL_test.py, line 119).          *)
FirstAfterReceiving ==
  [][\A a \in Addr : regs.first[a] /\ ~regs'.first[a] => gave' # <<>>]_vars
=============================================================================
