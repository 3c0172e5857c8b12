------------------------------ MODULE FusedFus ------------------------------
(***************************************************************************)
(* Two, three or four single units behind one word (fu/basic/*Combo,       *)
(* fu/double, fu/triple, fu/quadra).  The output of one unit is an operand *)
(* of the next, and the readiness of that operand is the readiness of the  *)
(* output; the word is done when it is done in every unit.                 *)
(***************************************************************************)
EXTENDS VectorFus

Out(u, o) == IF o \in DOMAIN u.outs THEN u.outs[o] ELSE None

(* The operands of an inner unit, given those of its inports.              *)
Feed(x, y, c) == [i \in Operand |-> CASE i = "in0" -> x [] i = "in1" -> y
                                      [] i = "const" -> c [] OTHER -> None]

(* The operands taken by an inner unit, by the fused unit's inports.       *)
Taken(u, x, y) == (IF "in0" \in u.takes THEN {x} ELSE {})
                  \cup (IF "in1" \in u.takes THEN {y} ELSE {})
                  \cup (u.takes \cap {"const"})

(* TwoSeqCombo: Fu1 works on what Fu0 made and on in2.                     *)
TwoSeq(op0, op1, t, rdy, rvf) ==
  LET Fu0(r) == Mul(op0, t, r, rvf)
      operands == Feed(Out(Fu0(FALSE), "out0"), t["in2"], None)
      f1 == IF op1 \in {"LLS", "LRS"} THEN Shifter(op1, operands, rdy, rvf)
                                      ELSE Adder(op1, operands, rdy, rvf)
      f0 == Fu0("in0" \in f1.takes)
  IN [Quiet EXCEPT !.outs = f1.outs,
                   !.takes = f0.takes \cup (Taken(f1, "out0", "in2") \ {"out0"}),
                   !.done = f0.done /\ f1.done]

(* TwoPrlCombo: side by side, each with its own outport.                   *)
TwoPrl(op0, op1, t, rdy, rvf) ==
  LET f0 == Mul(op0, t, rdy, rvf)
      f1 == Adder(op1, Feed(t["in2"], t["in3"], None), rdy, rvf)
      o1 == Out(f1, "out0")
  IN [Quiet EXCEPT !.outs = Join(f0.outs, IF o1 = None THEN <<>> ELSE [out1 |-> o1]),
                   !.takes = f0.takes \cup Taken(f1, "in2", "in3"),
                   !.done = f0.done /\ f1.done]

(* ThreeCombo: Fu2 shifts the product of in0 and in1 by what Fu1 makes of  *)
(* in2 and in3.  The factor of the word does not reach the three.          *)
Three(op1, op2, t, rdy) ==
  LET Fu0(r) == Mul("MUL", t, r, TRUE)
      Fu1(r) == Adder(op1, Feed(t["in2"], t["in3"], None), r, TRUE)
      f2 == Shifter(op2, Feed(Out(Fu0(FALSE), "out0"), Out(Fu1(FALSE), "out0"), None), rdy, TRUE)
      f0 == Fu0("in0" \in f2.takes)
      f1 == Fu1("in1" \in f2.takes)
  IN [Quiet EXCEPT !.outs = f2.outs, !.takes = f0.takes \cup Taken(f1, "in2", "in3"),
                   !.done = f0.done /\ f1.done /\ f2.done]

(* FourCombo as FourIncCmpNotGrant: the increment, and whether it arrived  *)
(* at the constant; each inner result goes to two units.                   *)
Four(t, rdy, rvf) ==
  LET Fu0(r) == Adder("INC", t, r, rvf)
      inc == Out(Fu0(FALSE), "out0")
      Fu1(r) == Comp("NE_CONST", Feed(inc, t["in2"], t["const"]), r, rvf)
      differs == Out(Fu1(FALSE), "out0")
      f2 == Logic("NOT", Feed(differs, t["in3"], None), rdy, rvf)
      f3 == Grant("GRT_PRED", Feed(inc, differs, None), rdy, rvf, FALSE)
      f1 == Fu1("in0" \in f2.takes /\ "in1" \in f3.takes)
      f0 == Fu0("in0" \in f1.takes /\ "in0" \in f3.takes)
      o3 == Out(f3, "out0")
  IN [Quiet EXCEPT !.outs = Join(f2.outs, IF o3 = None THEN <<>> ELSE [out1 |-> o3]),
                   !.takes = f0.takes \cup (f1.takes \cap {"const"}),
                   !.done = f0.done /\ f1.done /\ f2.done /\ f3.done]

(* Which operations of the inner units a fused word stands for.            *)
PrlMulAdder(op, t, rdy, rvf) ==
  CASE op = "MUL_ADD" -> TwoPrl("MUL", "ADD", t, rdy, rvf)
    [] op = "MUL_SUB" -> TwoPrl("MUL", "SUB", t, rdy, rvf)
    [] OTHER          -> Quiet

SeqMulAdder(op, t, rdy, rvf) ==
  CASE op = "MUL_ADD"       -> TwoSeq("MUL", "ADD", t, rdy, rvf)
    [] op = "MUL_CONST_ADD" -> TwoSeq("MUL_CONST", "ADD", t, rdy, rvf)
    [] op = "MUL_CONST"     -> TwoSeq("MUL_CONST", "PAS", t, rdy, rvf)
    [] op = "MUL_SUB"       -> TwoSeq("MUL", "SUB", t, rdy, rvf)
    [] OTHER                -> Quiet

SeqMulShifter(op, t, rdy, rvf) ==
  CASE op = "MUL_LLS" -> TwoSeq("MUL", "LLS", t, rdy, rvf)
    [] op = "MUL_LRS" -> TwoSeq("MUL", "LRS", t, rdy, rvf)
    [] OTHER          -> Quiet

ThreeMulAdderShifter(op, t, rdy) ==
  CASE op = "MUL_ADD_LLS" -> Three("ADD", "LLS", t, rdy)
    [] op = "MUL_SUB_LLS" -> Three("SUB", "LLS", t, rdy)
    [] op = "MUL_SUB_LRS" -> Three("SUB", "LRS", t, rdy)
    [] OTHER              -> Quiet

FourIncCmpNotGrant(op, t, rdy, rvf) ==
  IF op = "INC_NE_CONST_NOT_GRT" THEN Four(t, rdy, rvf) ELSE Quiet
=============================================================================
