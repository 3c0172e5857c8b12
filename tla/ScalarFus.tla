------------------------------ MODULE ScalarFus ------------------------------
(***************************************************************************)
(* The combinational part of the single functional units (fu/single), of   *)
(* the floating point units and of the fixed point ALU.  t gives the token *)
(* on every operand, rdy the readiness of the outports, rvf                *)
(* reached_vector_factor; a unit stays Quiet for the operations of others. *)
(***************************************************************************)
EXTENDS FuSignals

two == {"in0", "in1"}
with_const == {"in0", "const"}

(* SUB_CONST reads its constant but raises the rdy of the second inport.   *)
Adder(op, t, rdy, rvf) ==
  LET a == t["in0"].payload   b == t["in1"].payload   c == t["const"].payload IN
  CASE op = "ADD"       -> Op(t, rdy, rvf, two, (a + b) % M)
    [] op = "ADD_CONST" -> Op(t, rdy, rvf, with_const, (a + c) % M)
    [] op = "INC"       -> Op(t, rdy, rvf, {"in0"}, (a + 1) % M)
    [] op = "SUB"       -> Op(t, rdy, rvf, two, (a - b) % M)
    [] op = "SUB_CONST" -> Waits(t, rdy, with_const, two,
                             [out0 |-> Data((a - c) % M, Granted(t, with_const) /\ rvf)])
    [] op = "PAS"       -> Op(t, rdy, rvf, {"in0"}, a)
    [] OTHER            -> Quiet

(* The predicate of a constant factor is ignored.                          *)
Mul(op, t, rdy, rvf) ==
  LET a == t["in0"].payload IN
  CASE op = "MUL"       -> Op(t, rdy, rvf, two, (a * t["in1"].payload) % M)
    [] op = "MUL_CONST" -> OpIf(t, rdy, with_const, (a * t["const"].payload) % M,
                                t["in0"].predicate /\ rvf)
    [] OTHER            -> Quiet

(* DivRTL, for simulation only: Python's division, which raises for zero.  *)
Div(op, t, rdy, rvf) ==
  LET a == t["in0"].payload IN
  CASE op = "DIV"       -> Op(t, rdy, rvf, two, a \div t["in1"].payload)
    [] op = "DIV_CONST" -> OpIf(t, rdy, with_const, a \div t["const"].payload,
                                t["in0"].predicate /\ rvf)
    [] OTHER            -> Quiet

Const(op, t, rdy, rvf) ==
  IF op = "CONST" THEN Op(t, rdy, rvf, {"const"}, t["const"].payload) ELSE Quiet

ExtractPredicate(op, t, rdy) ==
  IF op = "EXTRACT_PREDICATE"
  THEN OpIf(t, rdy, {"in0"}, Bool(t["in0"].predicate), TRUE)
  ELSE Quiet

Shift(a, n) == IF n >= W THEN 0 ELSE (a * 2^n) % M

Shifter(op, t, rdy, rvf) ==
  LET a == t["in0"].payload   b == t["in1"].payload IN
  CASE op = "LLS"       -> Op(t, rdy, rvf, two, Shift(a, b))
    [] op = "LLS_CONST" -> Op(t, rdy, rvf, with_const, Shift(a, t["const"].payload))
    [] op = "LRS"       -> Op(t, rdy, rvf, two, IF b >= W THEN 0 ELSE a \div 2^b)
    [] OTHER            -> Quiet

Logic(op, t, rdy, rvf) ==
  LET a == Bits(t["in0"].payload)   b == Bits(t["in1"].payload) IN
  CASE op = "OR"      -> Op(t, rdy, rvf, two, FromBits(a \cup b))
    [] op = "AND"     -> Op(t, rdy, rvf, two, FromBits(a \cap b))
    [] op = "XOR"     -> Op(t, rdy, rvf, two, FromBits(SymDiff(a, b)))
    [] op = "BIT_NOT" -> Op(t, rdy, rvf, {"in0"}, FromBits((0..(W - 1)) \ a))
    [] op = "NOT"     -> Op(t, rdy, rvf, {"in0"}, Bool(t["in0"].payload = 0))
    [] OTHER          -> Quiet

(* Signed order by flipping the sign bit and comparing unsigned.           *)
sign_flip(x) == FromBits(SymDiff(Bits(x), {W - 1}))

Comp(op, t, rdy, rvf) ==
  LET a == t["in0"].payload   b == t["in1"].payload   c == t["const"].payload IN
  CASE op = "EQ"        -> Op(t, rdy, rvf, two, Bool(a = b))
    [] op = "NE"        -> Op(t, rdy, rvf, two, Bool(a # b))
    [] op = "EQ_CONST"  -> Op(t, rdy, rvf, with_const, Bool(a = c))
    [] op = "NE_CONST"  -> Op(t, rdy, rvf, with_const, Bool(a # c))
    [] op = "LT"        -> Op(t, rdy, rvf, two, Bool(sign_flip(a) < sign_flip(b)))
    [] op = "GTE_CONST" -> Op(t, rdy, rvf, with_const, Bool(sign_flip(a) >= sign_flip(c)))
    [] op = "GT_CONST"  -> Op(t, rdy, rvf, with_const, Bool(sign_flip(a) > sign_flip(c)))
    [] op = "LT_CONST"  -> Op(t, rdy, rvf, with_const, Bool(sign_flip(a) < sign_flip(c)))
    [] OTHER            -> Quiet

Sel(op, t, rdy, rvf) ==
  IF op = "SEL"
  THEN Op(t, rdy, rvf, {"in0", "in1", "in2"},
          IF t["in0"].payload = 1 THEN t["in1"].payload ELSE t["in2"].payload)
  ELSE Quiet

(* Addresses: base + index, or base + row * stride + column; a constant    *)
(* base has no say in the predicate.                                       *)
Gep(op, t, rdy, rvf, stride) ==
  LET a == t["in0"].payload   b == t["in1"].payload   c == t["const"].payload IN
  CASE op = "GEP"       -> Op(t, rdy, rvf, two, (a + b) % M)
    [] op = "GEP_CONST" -> OpIf(t, rdy, with_const, (c + a) % M, t["in0"].predicate /\ rvf)
    [] op = "GEP_2D"    -> Op(t, rdy, rvf, {"in0", "in1", "in2"},
                              (a + b * stride + t["in2"].payload) % M)
    [] op = "GEP_2D_CONST" -> OpIf(t, rdy, {"in0", "in1", "const"}, (c + a * stride + b) % M,
                                   Granted(t, two) /\ rvf)
    [] OTHER            -> Quiet

(* The units that remember something per ctrl address; what they remember  *)
(* of the current one is the last parameter.                               *)
Grant(op, t, rdy, rvf, already_grt_once) ==
  LET a == t["in0"].payload IN
  CASE op = "GRT_PRED"       -> OpIf(t, rdy, two, a,
                                     t["in1"].payload # 0 /\ Granted(t, two) /\ rvf)
    [] op = "GRT_ALWAYS"     -> OpIf(t, rdy, {"in0"}, a, rvf)
    [] op = "GRT_ONCE"       -> OpIf(t, rdy, {"in0"}, a, rvf /\ ~already_grt_once)
    [] op = "GRT_ONCE_CONST" -> OpIf(t, rdy, {"const"}, t["const"].payload,
                                     rvf /\ ~already_grt_once)
    [] OTHER                 -> Quiet

Bug_Ret(op, t, ctrl_rdy, rvf, already_done) ==  \* a second return waits to report
  LET ends == ~already_done /\ ctrl_rdy IN
  IF op \in {"RET", "RET_VOID"} /\ All(t, {"in0"})
  THEN [Quiet EXCEPT !.cmd = IF ~already_done /\ t["in0"].predicate /\ rvf THEN <<"COMPLETE", 0>>
                                                                         ELSE None,
                     !.takes = IF ends THEN {"in0"} ELSE {}, !.done = ends]
  ELSE Quiet

(* A return reports once (through ctrl_rdy) and swallows what comes later. *)
Ret(op, t, ctrl_rdy, rvf, already_done) ==
  LET reports == ~already_done /\ t["in0"].predicate
      ends == already_done \/ (rvf /\ (reports => ctrl_rdy)) IN
  IF op \in {"RET", "RET_VOID"} /\ All(t, {"in0"})
  THEN [Quiet EXCEPT !.cmd = IF reports /\ rvf
                             THEN <<"COMPLETE", IF op = "RET" THEN t["in0"].payload ELSE 0>>
                             ELSE None,
                     !.takes = IF ends THEN {"in0"} ELSE {}, !.done = ends]
  ELSE Quiet

(* The initial value of a loop on the first execution, then the one that   *)
(* comes around; PHI_CONST drains both whichever it uses.                  *)
Phi(op, t, rdy, rvf, first) ==
  LET a == t["in0"]   b == t["in1"]
      Chosen(x) == OpIf(t, rdy, two, IF ~a.predicate /\ b.predicate THEN b.payload ELSE a.payload,
                        rvf /\ (a.predicate \/ b.predicate))
  IN
  CASE op = "PHI"                  -> Chosen(0)
    [] op = "PHI_START" /\ first   -> OpIf(t, rdy, {"in0"}, a.payload, rvf)
    [] op = "PHI_START" /\ ~first  -> Chosen(0)
    [] op = "PHI_CONST" /\ first   -> Waits(t, rdy, {"const"}, with_const,
                         [out0 |-> Data(t["const"].payload, t["const"].predicate /\ rvf)])
    [] op = "PHI_CONST" /\ ~first  -> Waits(t, rdy, {"in0"}, with_const,
                                      [out0 |-> Data(a.payload, a.predicate /\ rvf)])
    [] OTHER                       -> Quiet

(* in0 says whether the enclosing loop is alive, in1..in3 are start, end   *)
(* and step; nothing is offered before the receiver of the index is ready. *)
loop == {"in0", "in1", "in2", "in3"}

LoopIndex(t, index, initialized) == IF initialized THEN index ELSE t["in1"].payload

LoopControl(op, t, rdy, rvf, index, initialized) ==
  LET i == LoopIndex(t, index, initialized)
      valid == i < t["in2"].payload /\ t["in0"].predicate IN
  IF op = "LOOP_CONTROL" /\ rdy
  THEN Waits(t, rdy, loop, loop,
             [out0 |-> Data(i, valid /\ rvf), out1 |-> Data(Bool(valid), rvf)])
  ELSE Quiet

(* division.v: restoring division of the bits from, from + 1, ... of the   *)
(* dividend, most significant first, by one stage of the pipeline.         *)
Divide(s, from, n) ==
  LET bit(i) == (s.dividend \div 2^(W - 1 - i)) % 2
      after[k \in 0..n] ==
        IF k = 0 THEN [q |-> s.q, r |-> s.r]
        ELSE LET before == after[k - 1]
                 r == 2 * before.r + bit(from + k - 1)
                 fits == r >= s.divisor IN
             [q |-> before.q + IF fits THEN 2^(W - from - k) ELSE 0,
              r |-> IF fits THEN r - s.divisor ELSE r]
      all == after[n]
  IN [s EXCEPT !.q = all.q, !.r = all.r]

(* ExclusiveDivRTL: val comes from the cycle counter alone.                *)
ExclusiveDiv(op, t, rdy, rvf, ripe, stage) ==
  LET x == IF op = "REM" THEN stage.r % M ELSE stage.q
      reads == IF op = "DIV_CONST" THEN with_const ELSE two
      p == rvf /\ Granted(t, IF op = "DIV_CONST" THEN {"in0"} ELSE two) IN
  IF op \in {"DIV", "REM", "DIV_CONST"} /\ ripe
  THEN Waits(t, rdy, {}, reads, [out0 |-> Data(x, p)]) ELSE Quiet

(* InclusiveDivRTL: START feeds the pipeline, END reads it out.            *)
InclusiveDiv(op, t, rdy, rvf, stage) ==
  LET p == Granted(t, two) /\ rvf
      x == IF op = "REM_INCLUSIVE_END" THEN stage.r % M ELSE stage.q IN
  CASE op \in {"DIV_INCLUSIVE_START", "REM_INCLUSIVE_START"} ->
         [Waits(t, rdy, two, {"in0"}, [out0 |-> Data(0, p)]) EXCEPT
            !.takes = IF All(t, two) THEN {"in0"} ELSE {}]
    [] op \in {"DIV_INCLUSIVE_END", "REM_INCLUSIVE_END"} ->
         Waits(t, rdy, two, {"in0"}, [out0 |-> Data(x, p)])
    [] OTHER -> Quiet

(* FpAddRTL, FpMulRTL and AluGenMacRTL: the arithmetic is vendored         *)
(* Verilog, every result is the payload 0.                                 *)
FpAdd(op, t, rdy) ==
  CASE op \in {"FADD", "FSUB"} -> Op(t, rdy, TRUE, two, 0)
    [] op = "FADD_CONST"       -> OpIf(t, rdy, with_const, 0, t["in0"].predicate)
    [] op = "FINC" /\ rdy      -> Op(t, rdy, TRUE, {"in0"}, 0)
    [] OTHER                   -> Quiet

(* FMUL_CONST does not wait for its constant.                              *)
FpMul(op, t, rdy) ==
  CASE op = "FMUL"       -> Op(t, rdy, TRUE, two, 0)
    [] op = "FMUL_CONST" -> Waits(t, rdy, {"in0"}, with_const,
                                  [out0 |-> Data(0, t["in0"].predicate)])
    [] OTHER             -> Quiet

(* AluGenMac looks its operands up only while the receiver is ready, and   *)
(* waits for three whatever the operation.                                 *)
AluGenMac(op, t, rdy) ==
  IF op \in {"ADD", "SUB", "LT", "GTE", "GT", "LTE", "MUL", "MUL_ADD"} /\ rdy
  THEN Op(t, rdy, TRUE, {"in0", "in1", "in2"}, 0) ELSE Quiet
=============================================================================
