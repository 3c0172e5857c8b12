------------------------ MODULE FunctionalUnitProofs ------------------------
(***************************************************************************)
(* A step acts once (fu/flexible/FlexibleFuRTL.py): for every proper list  *)
(* of units, every payload width and every order in which operands come    *)
(* and receivers become ready, a finished step took each of its operands,  *)
(* delivered one message on every outport it uses and told the controller  *)
(* what it had to, once.                                                   *)
(*                                                                         *)
(* First each unit alone: for an operation it does not know it is silent,  *)
(* for one it knows it offers, takes and finishes together.  Then the      *)
(* units of a list: exactly one of them acts.  Then a cycle, a step and    *)
(* the whole job, by an inductive invariant (FuInv).                       *)
(***************************************************************************)
EXTENDS FunctionalUnitMC, FiniteSetTheorems, TLAPS

(* The token None is none of the messages, commands and operations.        *)
NoneApart ==
  /\ \A x, y : Data(x, y) # None /\ <<x, y>> # None
  /\ None \notin remembered
-----------------------------------------------------------------------------
(* The answer of a unit: nothing at all, with the word called done or not  *)
(* (Idles: a unit of the vector family calls every word it does not know   *)
(* done when the receivers are ready), and the answer of most: it waits    *)
(* for reads, offers ports, and takes what it takes once the receivers are *)
(* ready.                                                                  *)
Empty(x) == x.outs = <<>> /\ x.takes = {} /\ x.cmd = None
Silent(x) == Empty(x) /\ x.done = FALSE
Idles(x) == Empty(x) /\ x.done = TRUE

Plain(x, t, rdy, reads, takes, ports) ==
  /\ DOMAIN x.outs = IF All(t, reads) THEN ports ELSE {}
  /\ x.takes = IF All(t, reads) /\ rdy THEN takes ELSE {}
  /\ x.done = (All(t, reads) /\ rdy)
  /\ x.cmd = None

LEMMA NoPorts == DOMAIN <<>> = {}
  OBVIOUS

LEMMA QuietIsSilent == Silent(Quiet)
  BY DEF Silent, Empty, Quiet

LEMMA WaitsShape ==
  ASSUME NEW t, NEW rdy \in BOOLEAN, NEW reads, NEW takes, NEW outs
  PROVE  Plain(Waits(t, rdy, reads, takes, outs), t, rdy, reads, takes, DOMAIN outs)
  BY NoPorts DEF Plain, Waits, Quiet

LEMMA OpShape ==
  ASSUME NEW t, NEW rdy \in BOOLEAN, NEW reads, NEW takes, NEW x, NEW p
  PROVE  /\ Plain(Op(t, rdy, p, reads, x), t, rdy, reads, reads, {"out0"})
         /\ Plain(OpIf(t, rdy, reads, x, p), t, rdy, reads, reads, {"out0"})
         /\ Plain(Waits(t, rdy, reads, takes, [out0 |-> x]), t, rdy, reads, takes, {"out0"})
<1>1. \A y : DOMAIN [out0 |-> y] = {"out0"}
  OBVIOUS
<1> QED BY <1>1, WaitsShape DEF Op, OpIf

(* The words the controller hears of, and those whose unit does not wait   *)
(* for all it takes.                                                       *)
reports == returns \cup global_reduce \cup base_global_reduce
Partial(op) == op \in {"PHI_CONST", "FMUL_CONST"} \/ list = <<"ExclusiveDiv">>

(* Before the receivers are ready, of a unit that offers or takes some     *)
(* things early.                                                           *)
Loose(x, t, reads, op) ==
  /\ x.done = FALSE
  /\ x.takes = {} \/ op \in divisions
  /\ Outports(op) \subseteq DOMAIN x.outs <=> All(t, reads)
  /\ list = <<"PrlMulAdder">> \/ ("out0" \in DOMAIN x.outs <=> All(t, reads))

(* The two answers of a unit that knows the word, before and after the     *)
(* receivers are ready; S is what the word reads.                          *)
Answers(x0, x1, t, op, S) ==
  \E R, T :
    /\ R \subseteq S /\ (R = S \/ Partial(op))
    /\ S \ leaves(op) \subseteq T
    /\ Plain(x0, t, FALSE, R, T, Outports(op)) \/ Loose(x0, t, R, op)
    /\ All(t, R) => Plain(x1, t, TRUE, R, T, Outports(op))

(* What a unit of a list may do with a word: nothing, or all of it. A unit *)
(* that waits for its receivers offers nothing before.                     *)
Fits(x0, x1, t, op, S) ==
  \/ /\ Silent(x0)
     /\ Silent(x1) \/ (~ReadyFirst(op) /\ Idles(x1))
  \/ op \notin reports /\ ~ReadyFirst(op) /\ Answers(x0, x1, t, op, S)
  \/ op \notin reports /\ ReadyFirst(op) /\ Silent(x0) /\ Plain(x1, t, TRUE, S, S, Outports(op))
-----------------------------------------------------------------------------
(* The parts a combined unit is wired from: a token comes out, and one     *)
(* goes in.                                                                *)
LEMMA OpOut ==
  ASSUME NEW t, NEW rdy \in BOOLEAN, NEW reads, NEW x, NEW p, NoneApart
  PROVE  /\ Out(Op(t, rdy, p, reads, x), "out0") # None <=> All(t, reads)
         /\ Out(OpIf(t, rdy, reads, x, p), "out0") # None <=> All(t, reads)
<1>1. \A y : DOMAIN [out0 |-> y] = {"out0"} /\ [out0 |-> y]["out0"] = y
  OBVIOUS
<1>2. \A y, z : Out(Waits(t, rdy, reads, reads, [out0 |-> Data(y, z)]), "out0")
                = IF All(t, reads) THEN Data(y, z) ELSE None
  BY <1>1, NoPorts DEF Out, Waits, Quiet
<1>3. \A y, z : Data(y, z) # None
  BY DEF NoneApart
<1> QED BY <1>2, <1>3 DEF Op, OpIf

LEMMA Fed ==
  ASSUME NEW x, NEW y, NEW c
  PROVE  /\ All(Feed(x, y, c), two) <=> x # None /\ y # None
         /\ All(Feed(x, y, c), {"in0"}) <=> x # None
         /\ All(Feed(x, y, c), with_const) <=> x # None /\ c # None
  BY DEF Feed, All, two, with_const, Operand

factors(op0) == IF op0 = "MUL" THEN two ELSE with_const

LEMMA MulShape ==
  ASSUME NEW t, NEW op0 \in {"MUL", "MUL_CONST"}, NEW rdy \in BOOLEAN, NEW v, NoneApart
  PROVE  /\ Plain(Mul(op0, t, rdy, v), t, rdy, factors(op0), factors(op0), {"out0"})
         /\ Out(Mul(op0, t, rdy, v), "out0") # None <=> All(t, factors(op0))
  BY OpShape, OpOut DEF Mul, factors

(* fu/basic/TwoSeqCombo.py: the product goes into the second unit, and     *)
(* both are done together although each has a handshake of its own.        *)
LEMMA TwoSeqShape ==
  ASSUME NEW t, NEW op0 \in {"MUL", "MUL_CONST"}, NEW op1 \in {"ADD", "SUB", "PAS", "LLS", "LRS"},
         NEW rdy \in BOOLEAN, NEW v, NoneApart
  PROVE  LET S == factors(op0) \cup IF op1 = "PAS" THEN {} ELSE {"in2"} IN
         Plain(TwoSeq(op0, op1, t, rdy, v), t, rdy, S, S, {"out0"})
<1> DEFINE Fu0(r) == Mul(op0, t, r, v)
           product == Out(Fu0(FALSE), "out0")
           operands == Feed(product, t["in2"], None)
           f1 == IF op1 \in {"LLS", "LRS"} THEN Shifter(op1, operands, rdy, v)
                                           ELSE Adder(op1, operands, rdy, v)
           f0 == Fu0("in0" \in f1.takes)
           R1 == IF op1 = "PAS" THEN {"in0"} ELSE two
           S0 == factors(op0)
           S == S0 \cup IF op1 = "PAS" THEN {} ELSE {"in2"}
           x == TwoSeq(op0, op1, t, rdy, v)
<1>1. x = [Quiet EXCEPT !.outs = f1.outs,
                        !.takes = f0.takes \cup (Taken(f1, "out0", "in2") \ {"out0"}),
                        !.done = f0.done /\ f1.done]
  BY DEF TwoSeq
<1>2. /\ x.outs = f1.outs /\ x.takes = f0.takes \cup (Taken(f1, "out0", "in2") \ {"out0"})
      /\ x.done = (f0.done /\ f1.done) /\ x.cmd = None
  <2> HIDE DEF x, f0, f1
  <2> QED BY <1>1 DEF Quiet
<1>3. product # None <=> All(t, S0)
  BY MulShape
<1>4. Plain(f1, operands, rdy, R1, R1, {"out0"})
  <2> HIDE DEF operands
  <2> QED BY OpShape DEF Shifter, Adder
<1>5. All(operands, R1) <=> All(t, S)
  <2>1. All(t, S) <=> All(t, S0) /\ (op1 = "PAS" \/ t["in2"] # None)
    BY DEF All
  <2> HIDE DEF product, S, S0
  <2> QED BY <1>3, <2>1, Fed
<1>6. /\ "in0" \in f1.takes <=> All(t, S) /\ rdy
      /\ "in1" \in f1.takes <=> All(t, S) /\ rdy /\ op1 # "PAS"
      /\ "const" \notin f1.takes
  <2> HIDE DEF f1, operands, S
  <2> QED BY <1>4, <1>5 DEF Plain, two
<1>7. /\ f0.takes = IF All(t, S) /\ rdy THEN S0 ELSE {}
      /\ All(t, S) /\ rdy => f0.done
  <2>1. ("in0" \in f1.takes) \in BOOLEAN
    OBVIOUS
  <2>2. Plain(f0, t, "in0" \in f1.takes, S0, S0, {"out0"})
    BY <2>1, MulShape
  <2>3. All(t, S) => All(t, S0)
    BY DEF All
  <2> HIDE DEF f1, f0, S, S0
  <2> QED BY <1>6, <2>2, <2>3 DEF Plain
<1>8. Taken(f1, "out0", "in2") \ {"out0"} = IF All(t, S) /\ rdy /\ op1 # "PAS" THEN {"in2"} ELSE {}
  <2> HIDE DEF f1, S
  <2> QED BY <1>6 DEF Taken
<1>9. f1.done = (All(t, S) /\ rdy) /\ DOMAIN f1.outs = (IF All(t, S) THEN {"out0"} ELSE {})
  <2> HIDE DEF f1, operands, S
  <2> QED BY <1>4, <1>5 DEF Plain
<1>10. Plain(x, t, rdy, S, S, {"out0"})
  <2>1. S = S0 \cup IF op1 = "PAS" THEN {} ELSE {"in2"}
    OBVIOUS
  <2> HIDE DEF f1, f0, S, S0, x
  <2> QED BY <1>2, <1>7, <1>8, <1>9, <2>1 DEF Plain
<1> QED BY <1>10

LEMMA JoinPorts == \A f, g : DOMAIN Join(f, g) = DOMAIN f \cup DOMAIN g
  BY DEF Join

(* fu/basic/TwoPrlCombo.py: two units side by side that must not run       *)
(* apart.                                                                  *)
Paired(x, t, rdy) ==
  /\ {"out0", "out1"} \subseteq DOMAIN x.outs <=> All(t, loop)
  /\ ~rdy => x.takes = {} /\ x.done = FALSE
  /\ All(t, loop) /\ rdy => Plain(x, t, TRUE, loop, loop, {"out0", "out1"})

LEMMA TwoPrlShape ==
  ASSUME NEW t, NEW op1 \in {"ADD", "SUB"}, NEW rdy \in BOOLEAN, NEW v, NoneApart
  PROVE  Paired(TwoPrl("MUL", op1, t, rdy, v), t, rdy)
<1> DEFINE operands == Feed(t["in2"], t["in3"], None)
           f0 == Mul("MUL", t, rdy, v)
           f1 == Adder(op1, operands, rdy, v)
           o1 == Out(f1, "out0")
           x == TwoPrl("MUL", op1, t, rdy, v)
           second == All(operands, two)
<1>1. x = [Quiet EXCEPT !.outs = Join(f0.outs, IF o1 = None THEN <<>> ELSE [out1 |-> o1]),
                        !.takes = f0.takes \cup Taken(f1, "in2", "in3"),
                        !.done = f0.done /\ f1.done]
  BY DEF TwoPrl
<1>2. /\ x.outs = Join(f0.outs, IF o1 = None THEN <<>> ELSE [out1 |-> o1])
      /\ x.takes = f0.takes \cup Taken(f1, "in2", "in3")
      /\ x.done = (f0.done /\ f1.done) /\ x.cmd = None
  <2> HIDE DEF x, f0, f1, o1
  <2> QED BY <1>1 DEF Quiet
<1>3. Plain(f0, t, rdy, two, two, {"out0"})
  BY MulShape DEF factors
<1>4. Plain(f1, operands, rdy, two, two, {"out0"}) /\ (o1 # None <=> second)
  <2> HIDE DEF operands
  <2> QED BY OpShape, OpOut DEF Adder
<1>5. All(t, loop) <=> All(t, two) /\ second
  <2>1. second <=> t["in2"] # None /\ t["in3"] # None
    BY Fed
  <2> HIDE DEF second
  <2> QED BY <2>1 DEF All, loop, two
<1>6. DOMAIN x.outs = (IF All(t, two) THEN {"out0"} ELSE {}) \cup (IF second THEN {"out1"} ELSE {})
  <2>1. \A y : DOMAIN [out1 |-> y] = {"out1"}
    OBVIOUS
  <2>2. DOMAIN f0.outs = IF All(t, two) THEN {"out0"} ELSE {}
    <3> HIDE DEF f0
    <3> QED BY <1>3 DEF Plain
  <2> DEFINE late == IF o1 = None THEN <<>> ELSE [out1 |-> o1]
  <2>3. DOMAIN late = IF second THEN {"out1"} ELSE {}
    <3> HIDE DEF f1, o1, second
    <3> QED BY <1>4, <2>1, NoPorts
  <2>4. x.outs = Join(f0.outs, late)
    BY <1>2
  <2> HIDE DEF x, f0, late, second
  <2>5. DOMAIN x.outs = DOMAIN f0.outs \cup DOMAIN late
    BY <2>4, JoinPorts
  <2> QED BY <2>2, <2>3, <2>5
<1>7. /\ ~rdy => x.takes = {} /\ x.done = FALSE
      /\ All(t, loop) /\ rdy => x.takes = loop /\ x.done = TRUE
  <2>1. /\ f0.takes = IF All(t, two) /\ rdy THEN two ELSE {}
        /\ f0.done = (All(t, two) /\ rdy)
    <3> HIDE DEF f0
    <3> QED BY <1>3 DEF Plain
  <2>2. /\ f1.takes = IF second /\ rdy THEN two ELSE {}
        /\ f1.done = (second /\ rdy)
    <3> HIDE DEF f1, operands
    <3> QED BY <1>4 DEF Plain
  <2>3. Taken(f1, "in2", "in3") = IF second /\ rdy THEN {"in2", "in3"} ELSE {}
    <3> HIDE DEF f1, second
    <3> QED BY <2>2 DEF Taken, two
  <2> HIDE DEF x, f0, f1, second
  <2> QED BY <1>2, <1>5, <2>1, <2>2, <2>3 DEF two, loop
<1> HIDE DEF x, second
<1>8. {"out0", "out1"} \subseteq DOMAIN x.outs <=> All(t, loop)
  BY <1>5, <1>6
<1>9. All(t, loop) /\ rdy => Plain(x, t, TRUE, loop, loop, {"out0", "out1"})
  <2> SUFFICES ASSUME All(t, loop), rdy PROVE Plain(x, t, TRUE, loop, loop, {"out0", "out1"})
    OBVIOUS
  <2>1. DOMAIN x.outs = {"out0", "out1"}
    BY <1>5, <1>6
  <2> QED BY <1>2, <1>7, <2>1 DEF Plain
<1> QED BY <1>7, <1>8, <1>9 DEF x, Paired

(* fu/basic/ThreeCombo.py: two units into a third.                         *)
LEMMA ThreeShape ==
  ASSUME NEW t, NEW op1 \in {"ADD", "SUB"}, NEW op2 \in {"LLS", "LRS"}, NEW rdy \in BOOLEAN, NoneApart
  PROVE  Plain(Three(op1, op2, t, rdy), t, rdy, loop, loop, {"out0"})
<1> DEFINE below == Feed(t["in2"], t["in3"], None)
           Fu0(r) == Mul("MUL", t, r, TRUE)
           Fu1(r) == Adder(op1, below, r, TRUE)
           operands == Feed(Out(Fu0(FALSE), "out0"), Out(Fu1(FALSE), "out0"), None)
           f2 == Shifter(op2, operands, rdy, TRUE)
           f0 == Fu0("in0" \in f2.takes)
           f1 == Fu1("in1" \in f2.takes)
           x == Three(op1, op2, t, rdy)
           second == All(below, two)
<1>1. x = [Quiet EXCEPT !.outs = f2.outs, !.takes = f0.takes \cup Taken(f1, "in2", "in3"),
                        !.done = f0.done /\ f1.done /\ f2.done]
  BY DEF Three
<1>2. /\ x.outs = f2.outs /\ x.takes = f0.takes \cup Taken(f1, "in2", "in3")
      /\ x.done = (f0.done /\ f1.done /\ f2.done) /\ x.cmd = None
  <2> HIDE DEF x, f0, f1, f2
  <2> QED BY <1>1 DEF Quiet
<1>3. \A r \in BOOLEAN : /\ Plain(Fu0(r), t, r, two, two, {"out0"})
                         /\ Out(Fu0(r), "out0") # None <=> All(t, two)
  BY MulShape DEF factors
<1>4. \A r \in BOOLEAN : /\ Plain(Fu1(r), below, r, two, two, {"out0"})
                         /\ Out(Fu1(r), "out0") # None <=> second
  <2> HIDE DEF below
  <2> QED BY OpShape, OpOut DEF Adder
<1>5. All(t, loop) <=> All(t, two) /\ second
  <2>1. second <=> t["in2"] # None /\ t["in3"] # None
    BY Fed
  <2> HIDE DEF second
  <2> QED BY <2>1 DEF All, loop, two
<1>6. Plain(f2, operands, rdy, two, two, {"out0"})
  <2> HIDE DEF operands
  <2> QED BY OpShape DEF Shifter
<1>7. All(operands, two) <=> All(t, loop)
  <2> HIDE DEF Fu0, Fu1, second
  <2> QED BY <1>3, <1>4, <1>5, Fed
<1>8. /\ DOMAIN f2.outs = IF All(t, loop) THEN {"out0"} ELSE {}
      /\ f2.done = (All(t, loop) /\ rdy)
      /\ f2.takes = IF All(t, loop) /\ rdy THEN two ELSE {}
  <2> HIDE DEF f2, operands
  <2> QED BY <1>6, <1>7 DEF Plain
<1>9. /\ "in0" \in f2.takes <=> All(t, loop) /\ rdy
      /\ "in1" \in f2.takes <=> All(t, loop) /\ rdy
      /\ ("in0" \in f2.takes) \in BOOLEAN /\ ("in1" \in f2.takes) \in BOOLEAN
  <2> HIDE DEF f2
  <2> QED BY <1>8 DEF two
<1>10. /\ f0.takes = IF All(t, loop) /\ rdy THEN two ELSE {}
       /\ All(t, loop) /\ rdy => f0.done
  <2>1. Plain(f0, t, "in0" \in f2.takes, two, two, {"out0"})
    BY <1>3, <1>9
  <2> HIDE DEF f0, f2, second
  <2> QED BY <1>5, <1>9, <2>1 DEF Plain
<1>11. /\ f1.takes = IF All(t, loop) /\ rdy THEN two ELSE {}
       /\ All(t, loop) /\ rdy => f1.done
  <2>1. Plain(f1, below, "in1" \in f2.takes, two, two, {"out0"})
    BY <1>4, <1>9
  <2> HIDE DEF f1, f2, below
  <2> QED BY <1>5, <1>9, <2>1 DEF Plain
<1>12. Taken(f1, "in2", "in3") = IF All(t, loop) /\ rdy THEN {"in2", "in3"} ELSE {}
  <2> HIDE DEF f1
  <2> QED BY <1>11 DEF Taken, two
<1>13. Plain(x, t, rdy, loop, loop, {"out0"})
  <2>1. x.takes = IF All(t, loop) /\ rdy THEN loop ELSE {}
    <3> HIDE DEF x, f0, f1, f2
    <3> QED BY <1>2, <1>10, <1>12 DEF loop, two
  <2> HIDE DEF x, f0, f1, f2
  <2> QED BY <1>2, <1>8, <1>10, <1>11, <2>1 DEF Plain
<1> QED BY <1>13

(* fu/basic/FourCombo.py: an increment, a comparison, its negation and a   *)
(* grant.                                                                  *)
LEMMA FourShape ==
  ASSUME NEW t, NEW rdy \in BOOLEAN, NEW v, NoneApart
  PROVE  Plain(Four(t, rdy, v), t, rdy, with_const, with_const, {"out0", "out1"})
<1> DEFINE Fu0(r) == Adder("INC", t, r, v)
           inc == Out(Fu0(FALSE), "out0")
           kept == Feed(inc, t["in2"], t["const"])
           Fu1(r) == Comp("NE_CONST", kept, r, v)
           differs == Out(Fu1(FALSE), "out0")
           below == Feed(differs, t["in3"], None)
           beside == Feed(inc, differs, None)
           f2 == Logic("NOT", below, rdy, v)
           f3 == Grant("GRT_PRED", beside, rdy, v, FALSE)
           f1 == Fu1("in0" \in f2.takes /\ "in1" \in f3.takes)
           f0 == Fu0("in0" \in f1.takes /\ "in0" \in f3.takes)
           o3 == Out(f3, "out0")
           x == Four(t, rdy, v)
           all == All(t, with_const)
<1>1. x = [Quiet EXCEPT !.outs = Join(f2.outs, IF o3 = None THEN <<>> ELSE [out1 |-> o3]),
                        !.takes = f0.takes \cup (f1.takes \cap {"const"}),
                        !.done = f0.done /\ f1.done /\ f2.done /\ f3.done]
  BY DEF Four
<1>2. /\ x.outs = Join(f2.outs, IF o3 = None THEN <<>> ELSE [out1 |-> o3])
      /\ x.takes = f0.takes \cup (f1.takes \cap {"const"})
      /\ x.done = (f0.done /\ f1.done /\ f2.done /\ f3.done) /\ x.cmd = None
  <2> HIDE DEF x, f0, f1, f2, f3, o3
  <2> QED BY <1>1 DEF Quiet
<1>3. \A r \in BOOLEAN : /\ Plain(Fu0(r), t, r, {"in0"}, {"in0"}, {"out0"})
                         /\ Out(Fu0(r), "out0") # None <=> All(t, {"in0"})
  BY OpShape, OpOut DEF Adder
<1>4. \A r \in BOOLEAN : /\ Plain(Fu1(r), kept, r, with_const, with_const, {"out0"})
                         /\ Out(Fu1(r), "out0") # None <=> All(kept, with_const)
  <2> HIDE DEF kept
  <2> QED BY OpShape, OpOut DEF Comp
<1>5. all <=> All(t, {"in0"}) /\ t["const"] # None
  BY DEF All, with_const
<1>6. inc # None <=> All(t, {"in0"})
  BY <1>3
<1>7. All(kept, with_const) <=> all
  <2> HIDE DEF inc, all
  <2> QED BY <1>5, <1>6, Fed
<1>8. differs # None <=> all
  BY <1>4, <1>7
<1>9. /\ Plain(f2, below, rdy, {"in0"}, {"in0"}, {"out0"})
      /\ All(below, {"in0"}) <=> all
  <2>1. All(below, {"in0"}) <=> all
    <3> HIDE DEF differs, all
    <3> QED BY <1>8, Fed
  <2>2. Plain(f2, below, rdy, {"in0"}, {"in0"}, {"out0"})
    <3> HIDE DEF below
    <3> QED BY OpShape DEF Logic
  <2> QED BY <2>1, <2>2
<1>10. /\ Plain(f3, beside, rdy, two, two, {"out0"})
       /\ o3 # None <=> all
       /\ All(beside, two) <=> all
  <2>1. All(beside, two) <=> all
    <3> HIDE DEF differs, inc, all
    <3> QED BY <1>5, <1>6, <1>8, Fed
  <2>2. Plain(f3, beside, rdy, two, two, {"out0"}) /\ (o3 # None <=> All(beside, two))
    <3> HIDE DEF beside
    <3> QED BY OpShape, OpOut DEF Grant
  <2> HIDE DEF beside, all, f3, o3
  <2> QED BY <2>1, <2>2
<1>11. /\ "in0" \in f2.takes <=> all /\ rdy
       /\ f2.done = (all /\ rdy)
       /\ DOMAIN f2.outs = IF all THEN {"out0"} ELSE {}
  <2> HIDE DEF f2, below, all
  <2> QED BY <1>9 DEF Plain
<1>12. /\ "in0" \in f3.takes <=> all /\ rdy
       /\ "in1" \in f3.takes <=> all /\ rdy
       /\ f3.done = (all /\ rdy)
  <2> HIDE DEF f3, beside, all
  <2> QED BY <1>10 DEF Plain, two
<1>13. f1.takes = (IF all /\ rdy THEN with_const ELSE {}) /\ (all /\ rdy => f1.done)
  <2> DEFINE r1 == "in0" \in f2.takes /\ "in1" \in f3.takes
  <2>1. r1 \in BOOLEAN /\ (r1 <=> all /\ rdy)
    <3> HIDE DEF f2, f3, all
    <3> QED BY <1>11, <1>12
  <2>2. Plain(f1, kept, r1, with_const, with_const, {"out0"})
    <3> HIDE DEF r1, Fu1
    <3> QED BY <1>4, <2>1 DEF r1
  <2> HIDE DEF f1, r1, kept, all
  <2> QED BY <1>7, <2>1, <2>2 DEF Plain
<1>14. f0.takes = (IF all /\ rdy THEN {"in0"} ELSE {}) /\ (all /\ rdy => f0.done)
  <2> DEFINE r0 == "in0" \in f1.takes /\ "in0" \in f3.takes
  <2>1. r0 \in BOOLEAN /\ (r0 <=> all /\ rdy)
    <3> HIDE DEF f1, f3, all
    <3> QED BY <1>13, <1>12 DEF with_const
  <2>2. Plain(f0, t, r0, {"in0"}, {"in0"}, {"out0"})
    <3> HIDE DEF r0, Fu0
    <3> QED BY <1>3, <2>1 DEF r0
  <2> HIDE DEF f0, r0, all
  <2> QED BY <1>5, <2>1, <2>2 DEF Plain
<1>15. x.takes = IF all /\ rdy THEN with_const ELSE {}
  <2> HIDE DEF x, f0, f1, all
  <2> QED BY <1>2, <1>13, <1>14 DEF with_const
<1>16. DOMAIN x.outs = IF all THEN {"out0", "out1"} ELSE {}
  <2>1. \A y : DOMAIN [out1 |-> y] = {"out1"}
    OBVIOUS
  <2> DEFINE late == IF o3 = None THEN <<>> ELSE [out1 |-> o3]
  <2>2. DOMAIN late = IF all THEN {"out1"} ELSE {}
    <3> HIDE DEF o3, all
    <3> QED BY <1>10, <2>1, NoPorts
  <2>3. x.outs = Join(f2.outs, late)
    BY <1>2
  <2> HIDE DEF x, f2, late, all
  <2>4. DOMAIN x.outs = DOMAIN f2.outs \cup DOMAIN late
    BY <2>3, JoinPorts
  <2> QED BY <1>11, <2>2, <2>4
<1>17. x.done = (all /\ rdy)
  <2> HIDE DEF x, f0, f1, f2, f3, all
  <2> QED BY <1>2, <1>11, <1>12, <1>13, <1>14
<1> HIDE DEF x
<1> QED BY <1>2, <1>15, <1>16, <1>17 DEF Plain, x
-----------------------------------------------------------------------------
(* Every unit fits every word, of a list it may be in (fu/single,          *)
(* fu/double, fu/triple, fu/quadra, fu/float, fu/vector,                   *)
(* fu/pymtl3_hardfloat).  Of an ordinary word: what it reads; its result   *)
(* goes to the only outport.                                               *)
Ordinary(op, ran, R) ==
  /\ op \notin reports /\ ~ReadyFirst(op)
  /\ Operands(op, ran) = R /\ Outports(op) = {"out0"}

LEMMA SilentFits ==
  ASSUME NEW x0, NEW x1, NEW t, NEW op, NEW S, Silent(x0), Silent(x1)
  PROVE  Fits(x0, x1, t, op, S)
  BY DEF Fits

LEMMA PartialFits ==
  ASSUME NEW x0, NEW x1, NEW t, NEW op, NEW ran, NEW S, NEW R, NEW T, Ordinary(op, ran, S),
         R \subseteq S, R = S \/ Partial(op), S \ leaves(op) \subseteq T,
         Plain(x0, t, FALSE, R, T, {"out0"}), Plain(x1, t, TRUE, R, T, {"out0"})
  PROVE  Fits(x0, x1, t, op, Operands(op, ran))
<1>1. Answers(x0, x1, t, op, S)
  BY DEF Answers, Ordinary
<1> QED BY <1>1 DEF Fits, Ordinary

LEMMA LooseFits ==
  ASSUME NEW x0, NEW x1, NEW t, NEW op, NEW ran, NEW R, Ordinary(op, ran, R), Loose(x0, t, R, op),
         All(t, R) => Plain(x1, t, TRUE, R, R, {"out0"})
  PROVE  Fits(x0, x1, t, op, Operands(op, ran))
<1>1. Answers(x0, x1, t, op, R)
  BY DEF Answers, Ordinary
<1> QED BY <1>1 DEF Fits, Ordinary

LEMMA OrdinaryFits ==
  ASSUME NEW x0, NEW x1, NEW t, NEW op, NEW ran, NEW R, Ordinary(op, ran, R),
         Plain(x0, t, FALSE, R, R, {"out0"}), Plain(x1, t, TRUE, R, R, {"out0"})
  PROVE  Fits(x0, x1, t, op, Operands(op, ran))
  BY PartialFits

(* The words by what they read.                                            *)
two_words == {"ADD", "SUB", "MUL", "DIV", "REM", "LLS", "LRS", "OR", "AND", "XOR", "EQ", "NE",
              "LT", "GEP", "GRT_PRED", "PHI", "FADD", "FSUB", "FMUL", "VEC_ADD",
              "VEC_ADD_COMBINED", "VEC_SUB", "VEC_SUB_COMBINED"}
const_words == {"ADD_CONST", "SUB_CONST", "MUL_CONST", "DIV_CONST", "LLS_CONST", "EQ_CONST",
                "NE_CONST", "GTE_CONST", "GT_CONST", "LT_CONST", "GEP_CONST", "FADD_CONST",
                "FMUL_CONST", "VEC_ADD_CONST", "VEC_ADD_CONST_COMBINED", "VEC_SUB_CONST",
                "VEC_SUB_CONST_COMBINED"}
one_words == {"INC", "PAS", "BIT_NOT", "NOT", "EXTRACT_PREDICATE", "GRT_ALWAYS", "GRT_ONCE"}
lone_const_words == {"CONST", "GRT_ONCE_CONST"}
three_words == {"SEL", "GEP_2D", "MUL_ADD", "MUL_SUB", "MUL_LLS", "MUL_LRS"}

LEMMA ReadTwo ==
  ASSUME NEW op \in two_words, NEW ran, \A u \in special : list # <<u>>
  PROVE  Ordinary(op, ran, two)
<1>1. op \notin reports /\ ~ReadyFirst(op)
  BY DEF two_words, reports, returns, ReadyFirst, special, global_reduce, base_global_reduce
<1>2. Outports(op) = {"out0"}
  BY DEF two_words, Outports, special
<1>3. Operands(op, ran) = two
  BY DEF two_words, Operands, special, local_reduce, global_reduce
<1> QED BY <1>1, <1>2, <1>3 DEF Ordinary

LEMMA ReadConstant ==
  ASSUME NEW op \in const_words, NEW ran, \A u \in special : list # <<u>>
  PROVE  Ordinary(op, ran, with_const)
<1>1. op \notin reports /\ ~ReadyFirst(op)
  BY DEF const_words, reports, returns, ReadyFirst, special, global_reduce, base_global_reduce
<1>2. Outports(op) = {"out0"}
  BY DEF const_words, Outports, special
<1>3. Operands(op, ran) = with_const
  BY DEF const_words, Operands, special, local_reduce, global_reduce
<1> QED BY <1>1, <1>2, <1>3 DEF Ordinary

LEMMA ReadOne ==
  ASSUME NEW op \in one_words, NEW ran, \A u \in special : list # <<u>>
  PROVE  Ordinary(op, ran, {"in0"})
<1>1. op \notin reports /\ ~ReadyFirst(op)
  BY DEF one_words, reports, returns, ReadyFirst, special, global_reduce, base_global_reduce
<1>2. Outports(op) = {"out0"}
  BY DEF one_words, Outports, special
<1>3. Operands(op, ran) = {"in0"}
  BY DEF one_words, Operands, special, local_reduce, global_reduce
<1> QED BY <1>1, <1>2, <1>3 DEF Ordinary

LEMMA ReadOnlyConstant ==
  ASSUME NEW op \in lone_const_words, NEW ran, \A u \in special : list # <<u>>
  PROVE  Ordinary(op, ran, {"const"})
<1>1. op \notin reports /\ ~ReadyFirst(op)
  BY DEF lone_const_words, reports, returns, ReadyFirst, special, global_reduce, base_global_reduce
<1>2. Outports(op) = {"out0"}
  BY DEF lone_const_words, Outports, special
<1>3. Operands(op, ran) = {"const"}
  BY DEF lone_const_words, Operands, special, local_reduce, global_reduce
<1> QED BY <1>1, <1>2, <1>3 DEF Ordinary

LEMMA ReadThree ==
  ASSUME NEW op \in three_words, NEW ran, \A u \in special : list # <<u>>
  PROVE  Ordinary(op, ran, three)
<1>1. op \notin reports /\ ~ReadyFirst(op)
  BY DEF three_words, reports, returns, ReadyFirst, special, global_reduce, base_global_reduce
<1>2. Outports(op) = {"out0"}
  BY DEF three_words, Outports, special
<1>3. Operands(op, ran) = three
  BY DEF three_words, Operands, special, local_reduce, global_reduce
<1> QED BY <1>1, <1>2, <1>3 DEF Ordinary

(* The answer to a word: the operands it reads are taken, its result is    *)
(* offered.                                                                *)
Serves(x, t, rdy, op) ==
  \/ op \in two_words /\ Plain(x, t, rdy, two, two, {"out0"})
  \/ op \in const_words /\ Plain(x, t, rdy, with_const, with_const, {"out0"})
  \/ op \in one_words /\ Plain(x, t, rdy, {"in0"}, {"in0"}, {"out0"})
  \/ op \in lone_const_words /\ Plain(x, t, rdy, {"const"}, {"const"}, {"out0"})
  \/ op \in three_words /\ Plain(x, t, rdy, three, three, {"out0"})

LEMMA ServesFits ==
  ASSUME NEW x0, NEW x1, NEW t, NEW op, NEW ran, \A u \in special : list # <<u>>,
         Serves(x0, t, FALSE, op), Serves(x1, t, TRUE, op)
  PROVE  Fits(x0, x1, t, op, Operands(op, ran))
<1> USE OrdinaryFits
<1>1. /\ two_words \cap (const_words \cup one_words \cup lone_const_words \cup three_words) = {}
      /\ const_words \cap (one_words \cup lone_const_words \cup three_words) = {}
      /\ one_words \cap (lone_const_words \cup three_words) = {}
      /\ lone_const_words \cap three_words = {}
  BY DEF two_words, const_words, one_words, lone_const_words, three_words
<1>2. CASE op \in two_words
  BY <1>1, <1>2, ReadTwo DEF Serves
<1>3. CASE op \in const_words
  BY <1>1, <1>3, ReadConstant DEF Serves
<1>4. CASE op \in one_words
  BY <1>1, <1>4, ReadOne DEF Serves
<1>5. CASE op \in lone_const_words
  BY <1>1, <1>5, ReadOnlyConstant DEF Serves
<1>6. CASE op \in three_words
  BY <1>1, <1>6, ReadThree DEF Serves
<1> QED BY <1>2, <1>3, <1>4, <1>5, <1>6 DEF Serves

LEMMA AdderFits ==
  ASSUME NEW t, NEW op, NEW v, NEW ran, \A u \in special : list # <<u>>
  PROVE  Fits(Adder(op, t, FALSE, v), Adder(op, t, TRUE, v), t, op, Operands(op, ran))
<1> DEFINE x(r) == Adder(op, t, r, v)
<1>1. ASSUME NEW r \in BOOLEAN
      PROVE  \/ op \in {"ADD", "ADD_CONST", "INC", "SUB", "PAS"} /\ Serves(x(r), t, r, op)
             \/ op = "SUB_CONST" /\ Plain(x(r), t, r, with_const, two, {"out0"})
             \/ /\ op \notin {"ADD", "ADD_CONST", "INC", "SUB", "PAS", "SUB_CONST"}
                /\ Silent(x(r))
  BY QuietIsSilent, OpShape DEF Adder, Serves, two_words, const_words, one_words
<1> HIDE DEF x
<1>2. CASE op = "SUB_CONST"
  <2>1. Ordinary(op, ran, with_const)
    BY <1>2, ReadConstant DEF const_words
  <2>2. with_const \ leaves(op) \subseteq two
    BY <1>2 DEF leaves, special, with_const, two
  <2>3. Plain(x(FALSE), t, FALSE, with_const, two, {"out0"})
        /\ Plain(x(TRUE), t, TRUE, with_const, two, {"out0"})
    BY <1>1, <1>2
  <2> QED BY <2>1, <2>2, <2>3, PartialFits DEF x
<1> QED BY <1>1, <1>2, ServesFits, SilentFits DEF x

LEMMA MulFits ==
  ASSUME NEW t, NEW op, NEW v, NEW ran, \A u \in special : list # <<u>>
  PROVE  Fits(Mul(op, t, FALSE, v), Mul(op, t, TRUE, v), t, op, Operands(op, ran))
<1> DEFINE x(r) == Mul(op, t, r, v)
<1>1. ASSUME NEW r \in BOOLEAN
      PROVE  \/ op \in {"MUL", "MUL_CONST"} /\ Serves(x(r), t, r, op)
             \/ op \notin {"MUL", "MUL_CONST"} /\ Silent(x(r))
  BY QuietIsSilent, OpShape DEF Mul, Serves, two_words, const_words
<1> HIDE DEF x
<1> QED BY <1>1, ServesFits, SilentFits DEF x

LEMMA DivFits ==
  ASSUME NEW t, NEW op, NEW v, NEW ran, \A u \in special : list # <<u>>
  PROVE  Fits(Div(op, t, FALSE, v), Div(op, t, TRUE, v), t, op, Operands(op, ran))
<1> DEFINE x(r) == Div(op, t, r, v)
<1>1. ASSUME NEW r \in BOOLEAN
      PROVE  \/ op \in {"DIV", "DIV_CONST"} /\ Serves(x(r), t, r, op)
             \/ op \notin {"DIV", "DIV_CONST"} /\ Silent(x(r))
  BY QuietIsSilent, OpShape DEF Div, Serves, two_words, const_words
<1> HIDE DEF x
<1> QED BY <1>1, ServesFits, SilentFits DEF x

LEMMA ConstFits ==
  ASSUME NEW t, NEW op, NEW v, NEW ran, \A u \in special : list # <<u>>
  PROVE  Fits(Const(op, t, FALSE, v), Const(op, t, TRUE, v), t, op, Operands(op, ran))
<1> DEFINE x(r) == Const(op, t, r, v)
<1>1. ASSUME NEW r \in BOOLEAN
      PROVE  \/ op = "CONST" /\ Serves(x(r), t, r, op)
             \/ op # "CONST" /\ Silent(x(r))
  BY QuietIsSilent, OpShape DEF Const, Serves, lone_const_words
<1> HIDE DEF x
<1> QED BY <1>1, ServesFits, SilentFits DEF x

LEMMA ShifterFits ==
  ASSUME NEW t, NEW op, NEW v, NEW ran, \A u \in special : list # <<u>>
  PROVE  Fits(Shifter(op, t, FALSE, v), Shifter(op, t, TRUE, v), t, op, Operands(op, ran))
<1> DEFINE x(r) == Shifter(op, t, r, v)
<1>1. ASSUME NEW r \in BOOLEAN
      PROVE  \/ op \in {"LLS", "LLS_CONST", "LRS"} /\ Serves(x(r), t, r, op)
             \/ op \notin {"LLS", "LLS_CONST", "LRS"} /\ Silent(x(r))
  BY QuietIsSilent, OpShape DEF Shifter, Serves, two_words, const_words
<1> HIDE DEF x
<1> QED BY <1>1, ServesFits, SilentFits DEF x

LEMMA LogicFits ==
  ASSUME NEW t, NEW op, NEW v, NEW ran, \A u \in special : list # <<u>>
  PROVE  Fits(Logic(op, t, FALSE, v), Logic(op, t, TRUE, v), t, op, Operands(op, ran))
<1> DEFINE x(r) == Logic(op, t, r, v)
<1>1. ASSUME NEW r \in BOOLEAN
      PROVE  \/ op \in {"OR", "AND", "XOR", "BIT_NOT", "NOT"} /\ Serves(x(r), t, r, op)
             \/ op \notin {"OR", "AND", "XOR", "BIT_NOT", "NOT"} /\ Silent(x(r))
  BY QuietIsSilent, OpShape DEF Logic, Serves, two_words, one_words
<1> HIDE DEF x
<1> QED BY <1>1, ServesFits, SilentFits DEF x

LEMMA CompFits ==
  ASSUME NEW t, NEW op, NEW v, NEW ran, \A u \in special : list # <<u>>
  PROVE  Fits(Comp(op, t, FALSE, v), Comp(op, t, TRUE, v), t, op, Operands(op, ran))
<1> DEFINE x(r) == Comp(op, t, r, v)
<1>1. ASSUME NEW r \in BOOLEAN
      PROVE  \/ /\ op \in {"EQ", "NE", "LT", "EQ_CONST", "NE_CONST", "GTE_CONST", "GT_CONST",
                         "LT_CONST"}
                /\ Serves(x(r), t, r, op)
             \/ /\ op \notin {"EQ", "NE", "LT", "EQ_CONST", "NE_CONST", "GTE_CONST", "GT_CONST",
                            "LT_CONST"}
                /\ Silent(x(r))
  BY QuietIsSilent, OpShape DEF Comp, Serves, two_words, const_words
<1> HIDE DEF x
<1> QED BY <1>1, ServesFits, SilentFits DEF x

LEMMA SelFits ==
  ASSUME NEW t, NEW op, NEW v, NEW ran, \A u \in special : list # <<u>>
  PROVE  Fits(Sel(op, t, FALSE, v), Sel(op, t, TRUE, v), t, op, Operands(op, ran))
<1> DEFINE x(r) == Sel(op, t, r, v)
<1>1. ASSUME NEW r \in BOOLEAN
      PROVE  \/ op = "SEL" /\ Serves(x(r), t, r, op)
             \/ op # "SEL" /\ Silent(x(r))
  BY QuietIsSilent, OpShape DEF Sel, Serves, three_words, three
<1> HIDE DEF x
<1> QED BY <1>1, ServesFits, SilentFits DEF x

LEMMA ExtractPredicateFits ==
  ASSUME NEW t, NEW op, NEW v, NEW ran, \A u \in special : list # <<u>>
  PROVE  Fits(ExtractPredicate(op, t, FALSE), ExtractPredicate(op, t, TRUE),
              t, op, Operands(op, ran))
<1> DEFINE x(r) == ExtractPredicate(op, t, r)
<1>1. ASSUME NEW r \in BOOLEAN
      PROVE  \/ op = "EXTRACT_PREDICATE" /\ Serves(x(r), t, r, op)
             \/ op # "EXTRACT_PREDICATE" /\ Silent(x(r))
  BY QuietIsSilent, OpShape DEF ExtractPredicate, Serves, one_words
<1> HIDE DEF x
<1> QED BY <1>1, ServesFits, SilentFits DEF x

LEMMA VectorAdderComboFits ==
  ASSUME NEW t, NEW op, NEW v, NEW ran, \A u \in special : list # <<u>>
  PROVE  Fits(VectorAdderCombo(op, t, FALSE), VectorAdderCombo(op, t, TRUE),
              t, op, Operands(op, ran))
<1> DEFINE x(r) == VectorAdderCombo(op, t, r)
<1>1. ASSUME NEW r \in BOOLEAN
      PROVE  \/ /\ op \in {"VEC_ADD", "VEC_ADD_COMBINED", "VEC_SUB", "VEC_SUB_COMBINED",
                         "VEC_ADD_CONST", "VEC_ADD_CONST_COMBINED", "VEC_SUB_CONST",
                         "VEC_SUB_CONST_COMBINED"}
                /\ Serves(x(r), t, r, op)
             \/ /\ op \notin {"VEC_ADD", "VEC_ADD_COMBINED", "VEC_SUB", "VEC_SUB_COMBINED",
                            "VEC_ADD_CONST", "VEC_ADD_CONST_COMBINED", "VEC_SUB_CONST",
                            "VEC_SUB_CONST_COMBINED"}
                /\ Silent(x(r))
  BY QuietIsSilent, OpShape DEF VectorAdderCombo, Serves, two_words, const_words
<1> HIDE DEF x
<1> QED BY <1>1, ServesFits, SilentFits DEF x

LEMMA GepFits ==
  ASSUME NEW t, NEW op, NEW v, NEW ran, NEW stride, \A u \in special : list # <<u>>
  PROVE  Fits(Gep(op, t, FALSE, v, stride), Gep(op, t, TRUE, v, stride), t, op, Operands(op, ran))
<1> DEFINE x(r) == Gep(op, t, r, v, stride)
<1>1. ASSUME NEW r \in BOOLEAN
      PROVE  \/ op \in {"GEP", "GEP_CONST", "GEP_2D"} /\ Serves(x(r), t, r, op)
             \/ /\ op = "GEP_2D_CONST"
                /\ Plain(x(r), t, r, {"in0", "in1", "const"}, {"in0", "in1", "const"}, {"out0"})
             \/ /\ op \notin {"GEP", "GEP_CONST", "GEP_2D", "GEP_2D_CONST"}
                /\ Silent(x(r))
  BY QuietIsSilent, OpShape DEF Gep, Serves, two_words, const_words, three_words, three
<1> HIDE DEF x
<1>2. CASE op = "GEP_2D_CONST"
  <2>1. Ordinary(op, ran, {"in0", "in1", "const"})
    BY <1>2 DEF Ordinary, reports, returns, ReadyFirst, Operands, Outports, special, global_reduce,
             local_reduce, base_global_reduce
  <2>2. Plain(x(FALSE), t, FALSE, {"in0", "in1", "const"}, {"in0", "in1", "const"}, {"out0"})
        /\ Plain(x(TRUE), t, TRUE, {"in0", "in1", "const"}, {"in0", "in1", "const"}, {"out0"})
    BY <1>1, <1>2
  <2> QED BY <2>1, <2>2, OrdinaryFits DEF x
<1> QED BY <1>1, <1>2, ServesFits, SilentFits DEF x

LEMMA GrantFits ==
  ASSUME NEW t, NEW op, NEW v, NEW ran, NEW granted, \A u \in special : list # <<u>>
  PROVE  Fits(Grant(op, t, FALSE, v, granted), Grant(op, t, TRUE, v, granted),
              t, op, Operands(op, ran))
<1> DEFINE x(r) == Grant(op, t, r, v, granted)
<1>1. ASSUME NEW r \in BOOLEAN
      PROVE  \/ /\ op \in {"GRT_PRED", "GRT_ALWAYS", "GRT_ONCE", "GRT_ONCE_CONST"}
                /\ Serves(x(r), t, r, op)
             \/ /\ op \notin {"GRT_PRED", "GRT_ALWAYS", "GRT_ONCE", "GRT_ONCE_CONST"}
                /\ Silent(x(r))
  BY QuietIsSilent, OpShape DEF Grant, Serves, two_words, one_words, lone_const_words
<1> HIDE DEF x
<1> QED BY <1>1, ServesFits, SilentFits DEF x

LEMMA FpMulFits ==
  ASSUME NEW t, NEW op, NEW v, NEW ran, \A u \in special : list # <<u>>
  PROVE  Fits(FpMul(op, t, FALSE), FpMul(op, t, TRUE), t, op, Operands(op, ran))
<1> DEFINE x(r) == FpMul(op, t, r)
<1>1. ASSUME NEW r \in BOOLEAN
      PROVE  \/ op = "FMUL" /\ Serves(x(r), t, r, op)
             \/ op = "FMUL_CONST" /\ Plain(x(r), t, r, {"in0"}, with_const, {"out0"})
             \/ op \notin {"FMUL", "FMUL_CONST"} /\ Silent(x(r))
  BY QuietIsSilent, OpShape DEF FpMul, Serves, two_words
<1> HIDE DEF x
<1>2. CASE op = "FMUL_CONST"
  <2>1. Ordinary(op, ran, with_const)
    BY <1>2, ReadConstant DEF const_words
  <2>2. Partial(op) /\ {"in0"} \subseteq with_const
    BY <1>2 DEF Partial, with_const
  <2>3. Plain(x(FALSE), t, FALSE, {"in0"}, with_const, {"out0"})
        /\ Plain(x(TRUE), t, TRUE, {"in0"}, with_const, {"out0"})
    BY <1>1, <1>2
  <2> QED BY <2>1, <2>2, <2>3, PartialFits DEF x
<1> QED BY <1>1, <1>2, ServesFits, SilentFits DEF x

LEMMA PhiFits ==
  ASSUME NEW t, NEW op, NEW v, NEW first \in BOOLEAN, \A u \in special : list # <<u>>
  PROVE  Fits(Phi(op, t, FALSE, v, first), Phi(op, t, TRUE, v, first), t, op, Operands(op, ~first))
<1> DEFINE x(r) == Phi(op, t, r, v, first)
           R == IF first THEN {"const"} ELSE {"in0"}
           S == IF first THEN {"const"} ELSE with_const
<1>1. ASSUME NEW r \in BOOLEAN
      PROVE  \/ op = "PHI" /\ Plain(x(r), t, r, two, two, {"out0"})
             \/ op = "PHI_START" /\ ~first /\ Plain(x(r), t, r, two, two, {"out0"})
             \/ op = "PHI_START" /\ first /\ Plain(x(r), t, r, {"in0"}, {"in0"}, {"out0"})
             \/ op = "PHI_CONST" /\ Plain(x(r), t, r, R, with_const, {"out0"})
             \/ op \notin {"PHI", "PHI_START", "PHI_CONST"} /\ Silent(x(r))
  BY QuietIsSilent, OpShape DEF Phi
<1> HIDE DEF x
<1>2. CASE op = "PHI"
  <2>1. Ordinary(op, ~first, two)
    BY <1>2, ReadTwo DEF two_words
  <2> QED BY <1>1, <1>2, <2>1, OrdinaryFits DEF x
<1>3. ASSUME op \in {"PHI_START", "PHI_CONST"}
      PROVE  op \notin reports /\ ~ReadyFirst(op) /\ Outports(op) = {"out0"}
  BY <1>3 DEF reports, returns, ReadyFirst, special, global_reduce, base_global_reduce, Outports
<1>4. CASE op = "PHI_START"
  <2>1. Operands(op, ~first) = IF first THEN {"in0"} ELSE two
    BY <1>4 DEF Operands, local_reduce, global_reduce
  <2>2. Ordinary(op, ~first, IF first THEN {"in0"} ELSE two)
    BY <1>3, <1>4, <2>1 DEF Ordinary
  <2> QED BY <1>1, <1>4, <2>2, OrdinaryFits DEF x
<1>5. CASE op = "PHI_CONST"
  <2>1. Operands(op, ~first) = S
    BY <1>5 DEF Operands, local_reduce, global_reduce
  <2>2. Ordinary(op, ~first, S)
    BY <1>3, <1>5, <2>1 DEF Ordinary
  <2>3. Partial(op) /\ R \subseteq S /\ S \ leaves(op) \subseteq with_const
    BY <1>5 DEF Partial, with_const
  <2>4. Plain(x(FALSE), t, FALSE, R, with_const, {"out0"})
        /\ Plain(x(TRUE), t, TRUE, R, with_const, {"out0"})
    BY <1>1, <1>5
  <2> HIDE DEF R, S
  <2> QED BY <2>2, <2>3, <2>4, PartialFits DEF x
<1>6. CASE op \notin {"PHI", "PHI_START", "PHI_CONST"}
  BY <1>1, <1>6, SilentFits DEF x
<1> QED BY <1>2, <1>4, <1>5, <1>6

LEMMA ExclusiveDivFits ==
  ASSUME NEW t, NEW op, NEW v, NEW ran, NEW now, NEW stage, list = <<"ExclusiveDiv">>
  PROVE  Fits(ExclusiveDiv(op, t, FALSE, v, now, stage), ExclusiveDiv(op, t, TRUE, v, now, stage),
              t, op, Operands(op, ran))
<1> DEFINE x(r) == ExclusiveDiv(op, t, r, v, now, stage)
           S == IF op = "DIV_CONST" THEN with_const ELSE two
<1>1. ASSUME NEW r \in BOOLEAN
      PROVE  \/ op \in {"DIV", "REM", "DIV_CONST"} /\ now /\ Plain(x(r), t, r, {}, S, {"out0"})
             \/ ~(op \in {"DIV", "REM", "DIV_CONST"} /\ now) /\ Silent(x(r))
  BY QuietIsSilent, OpShape DEF ExclusiveDiv
<1> HIDE DEF x
<1>2. CASE op \in {"DIV", "REM", "DIV_CONST"} /\ now
  <2>1. op \notin reports /\ ~ReadyFirst(op) /\ Outports(op) = {"out0"}
    BY <1>2 DEF reports, returns, ReadyFirst, global_reduce, base_global_reduce, Outports
  <2>2. list # <<"AluGenMac">> /\ list # <<"PrlMulAdder">>
    OBVIOUS
  <2>3. Operands(op, ran) = S
    <3>1. CASE op = "DIV_CONST"
      BY <3>1 DEF Operands, local_reduce, global_reduce
    <3>2. CASE op \in {"DIV", "REM"}
      BY <2>2, <3>2 DEF Operands, local_reduce, global_reduce
    <3> QED BY <1>2, <3>1, <3>2
  <2>4. Ordinary(op, ran, S) /\ Partial(op)
    BY <2>1, <2>3 DEF Ordinary, Partial
  <2> DEFINE R == {}
  <2>5. Plain(x(FALSE), t, FALSE, R, S, {"out0"}) /\ Plain(x(TRUE), t, TRUE, R, S, {"out0"})
    BY <1>1, <1>2
  <2>6. R \subseteq S /\ S \ leaves(op) \subseteq S
    OBVIOUS
  <2> HIDE DEF R, S
  <2>7. Fits(x(FALSE), x(TRUE), t, op, Operands(op, ran))
    BY <2>4, <2>5, <2>6, PartialFits
  <2> QED BY <2>7 DEF x
<1>3. CASE ~(op \in {"DIV", "REM", "DIV_CONST"} /\ now)
  BY <1>1, <1>3, SilentFits DEF x
<1> QED BY <1>2, <1>3

LEMMA FpAddFits ==
  ASSUME NEW t, NEW op, NEW v, NEW ran, \A u \in special : list # <<u>>
  PROVE  Fits(FpAdd(op, t, FALSE), FpAdd(op, t, TRUE), t, op, Operands(op, ran))
<1> DEFINE x(r) == FpAdd(op, t, r)
<1>1. ASSUME NEW r \in BOOLEAN
      PROVE  \/ op \in {"FADD", "FSUB", "FADD_CONST"} /\ Serves(x(r), t, r, op)
             \/ op = "FINC" /\ r /\ Plain(x(r), t, r, {"in0"}, {"in0"}, {"out0"})
             \/ op = "FINC" /\ ~r /\ Silent(x(r))
             \/ op \notin {"FADD", "FSUB", "FADD_CONST", "FINC"} /\ Silent(x(r))
  BY QuietIsSilent, OpShape DEF FpAdd, Serves, two_words, const_words
<1> HIDE DEF x
<1>2. CASE op = "FINC"
  <2>1. op \notin reports /\ ReadyFirst(op)
    BY <1>2 DEF reports, returns, ReadyFirst, global_reduce, base_global_reduce
  <2>2. Operands(op, ran) = {"in0"} /\ Outports(op) = {"out0"}
    BY <1>2 DEF Operands, Outports, special, local_reduce, global_reduce
  <2>3. Silent(x(FALSE)) /\ Plain(x(TRUE), t, TRUE, {"in0"}, {"in0"}, {"out0"})
    BY <1>1, <1>2
  <2> QED BY <2>1, <2>2, <2>3 DEF Fits, x
<1> QED BY <1>1, <1>2, ServesFits, SilentFits DEF x

(* The factors a combined word reads are those of its operation.           *)
LEMMA TwoSeqFactors ==
  ASSUME NEW t, NEW op1 \in {"ADD", "SUB", "LLS", "LRS"}, NEW rdy \in BOOLEAN, NEW v, NoneApart
  PROVE  /\ Plain(TwoSeq("MUL", op1, t, rdy, v), t, rdy, three, three, {"out0"})
         /\ Plain(TwoSeq("MUL_CONST", op1, t, rdy, v), t, rdy, {"in0", "const", "in2"},
                  {"in0", "const", "in2"}, {"out0"})
         /\ Plain(TwoSeq("MUL_CONST", "PAS", t, rdy, v), t, rdy, with_const, with_const, {"out0"})
<1>1. /\ factors("MUL") \cup {"in2"} = three /\ factors("MUL_CONST") \cup {} = with_const
      /\ factors("MUL_CONST") \cup {"in2"} = {"in0", "const", "in2"}
  BY DEF factors, two, three, with_const
<1>2. op1 \in {"ADD", "SUB", "PAS", "LLS", "LRS"} /\ op1 # "PAS"
  OBVIOUS
<1>3. \A op0 \in {"MUL", "MUL_CONST"} :
        LET S == factors(op0) \cup {"in2"} IN
        Plain(TwoSeq(op0, op1, t, rdy, v), t, rdy, S, S, {"out0"})
  BY <1>2, TwoSeqShape
<1>4. LET S == factors("MUL_CONST") \cup {} IN
      Plain(TwoSeq("MUL_CONST", "PAS", t, rdy, v), t, rdy, S, S, {"out0"})
  BY TwoSeqShape
<1> QED BY <1>1, <1>3, <1>4

LEMMA SeqMulAdderFits ==
  ASSUME NEW t, NEW op, NEW v, NEW ran, NoneApart, \A u \in special : list # <<u>>
  PROVE  Fits(SeqMulAdder(op, t, FALSE, v), SeqMulAdder(op, t, TRUE, v), t, op, Operands(op, ran))
<1> DEFINE x(r) == SeqMulAdder(op, t, r, v)
<1>1. ASSUME NEW r \in BOOLEAN
      PROVE  \/ op \in {"MUL_ADD", "MUL_CONST", "MUL_SUB"} /\ Serves(x(r), t, r, op)
             \/ /\ op = "MUL_CONST_ADD"
                /\ Plain(x(r), t, r, {"in0", "const", "in2"}, {"in0", "const", "in2"}, {"out0"})
             \/ /\ op \notin {"MUL_ADD", "MUL_CONST", "MUL_SUB", "MUL_CONST_ADD"}
                /\ Silent(x(r))
  BY QuietIsSilent, TwoSeqFactors DEF SeqMulAdder, Serves, const_words, three_words
<1> HIDE DEF x
<1>2. CASE op = "MUL_CONST_ADD"
  <2>1. Ordinary(op, ran, {"in0", "const", "in2"})
    BY <1>2 DEF Ordinary, reports, returns, ReadyFirst, Operands, Outports, special, global_reduce,
             local_reduce, base_global_reduce
  <2>2. Plain(x(FALSE), t, FALSE, {"in0", "const", "in2"}, {"in0", "const", "in2"}, {"out0"})
        /\ Plain(x(TRUE), t, TRUE, {"in0", "const", "in2"}, {"in0", "const", "in2"}, {"out0"})
    BY <1>1, <1>2
  <2> QED BY <2>1, <2>2, OrdinaryFits DEF x
<1> QED BY <1>1, <1>2, ServesFits, SilentFits DEF x

LEMMA SeqMulShifterFits ==
  ASSUME NEW t, NEW op, NEW v, NEW ran, NoneApart, \A u \in special : list # <<u>>
  PROVE  Fits(SeqMulShifter(op, t, FALSE, v), SeqMulShifter(op, t, TRUE, v),
              t, op, Operands(op, ran))
<1> DEFINE x(r) == SeqMulShifter(op, t, r, v)
<1>1. ASSUME NEW r \in BOOLEAN
      PROVE  \/ op \in {"MUL_LLS", "MUL_LRS"} /\ Serves(x(r), t, r, op)
             \/ op \notin {"MUL_LLS", "MUL_LRS"} /\ Silent(x(r))
  BY QuietIsSilent, TwoSeqFactors DEF SeqMulShifter, Serves, three_words
<1> HIDE DEF x
<1> QED BY <1>1, ServesFits, SilentFits DEF x

LEMMA ThreeMulAdderShifterFits ==
  ASSUME NEW t, NEW op, NEW v, NEW ran, NoneApart, \A u \in special : list # <<u>>
  PROVE  Fits(ThreeMulAdderShifter(op, t, FALSE), ThreeMulAdderShifter(op, t, TRUE),
              t, op, Operands(op, ran))
<1> DEFINE x(r) == ThreeMulAdderShifter(op, t, r)
           known == {"MUL_ADD_LLS", "MUL_SUB_LLS", "MUL_SUB_LRS"}
<1>1. ASSUME NEW r \in BOOLEAN
      PROVE  \/ op \in known /\ Plain(x(r), t, r, loop, loop, {"out0"})
             \/ op \notin known /\ Silent(x(r))
  BY QuietIsSilent, ThreeShape DEF ThreeMulAdderShifter
<1>2. CASE op \in known
  <2>1. Ordinary(op, ran, loop)
    BY <1>2 DEF Ordinary, reports, returns, ReadyFirst, Operands, Outports, special, global_reduce,
             local_reduce, base_global_reduce
  <2> HIDE DEF x, known
  <2> QED BY <1>1, <1>2, <2>1, OrdinaryFits DEF x
<1>3. CASE op \notin known
  <2> HIDE DEF x, known
  <2> QED BY <1>1, <1>3, SilentFits DEF x
<1> QED BY <1>2, <1>3

(* The units with words of other kinds.                                    *)
USE DEF special, Fits, Answers, ReadyFirst, reports, returns, divisions, Partial, Operands,
        Outports, local_reduce, base_reduce, global_reduce, base_global_reduce, leaves, two,
        three, loop, with_const

LEMMA AluGenMacFits ==
  ASSUME NEW t, NEW op, NEW v, NEW ran, list = <<"AluGenMac">>
  PROVE  Fits(AluGenMac(op, t, FALSE), AluGenMac(op, t, TRUE), t, op, Operands(op, ran))
  BY QuietIsSilent, OpShape DEF AluGenMac

LEMMA VectorMulComboFits ==
  ASSUME NEW t, NEW op, NEW ran, \A u \in special : list # <<u>>, ~ReadyFirst(op)
  PROVE  Fits(VectorMulCombo(op, t, FALSE), VectorMulCombo(op, t, TRUE), t, op, Operands(op, ran))
<1>1. Silent([Quiet EXCEPT !.done = FALSE]) /\ Idles([Quiet EXCEPT !.done = TRUE])
  BY DEF Silent, Idles, Empty, Quiet
<1> QED BY <1>1, OpShape DEF VectorMulCombo

LEMMA InclusiveDivFits ==
  ASSUME NEW t, NEW op, NEW v, NEW ran, NEW stage, list = <<"InclusiveDiv">>
  PROVE  Fits(InclusiveDiv(op, t, FALSE, v, stage), InclusiveDiv(op, t, TRUE, v, stage), t, op,
              Operands(op, ran))
<1> DEFINE ends == {"DIV_INCLUSIVE_END", "REM_INCLUSIVE_END"}
<1>1. CASE op \notin divisions \cup ends
  BY <1>1, QuietIsSilent DEF InclusiveDiv
<1>2. ASSUME op \in divisions \cup ends
      PROVE  /\ Operands(op, ran) = two /\ Outports(op) = {"out0"} /\ leaves(op) = {"in1"}
             /\ op \notin reports /\ ~ReadyFirst(op)
  BY <1>2
<1>3. CASE op \in ends
  <2>1. \A r \in BOOLEAN : Plain(InclusiveDiv(op, t, r, v, stage), t, r, two, {"in0"}, {"out0"})
    BY <1>3, OpShape DEF InclusiveDiv
  <2> QED BY <1>2, <1>3, <2>1
<1>4. CASE op \in divisions
  <2> DEFINE p == Granted(t, two) /\ v
             Start(r) == Waits(t, r, two, {"in0"}, [out0 |-> Data(0, p)])
  <2>1. \A r \in BOOLEAN : Plain(Start(r), t, r, two, {"in0"}, {"out0"})
    BY OpShape
  <2>2. \A r \in BOOLEAN : InclusiveDiv(op, t, r, v, stage)
                             = [Start(r) EXCEPT !.takes = IF All(t, two) THEN {"in0"} ELSE {}]
    BY <1>4 DEF InclusiveDiv
  <2>3. \A r \in BOOLEAN : DOMAIN Start(r) = {"outs", "takes", "done", "cmd"}
    BY DEF Waits, Quiet
  <2>4. \A r \in BOOLEAN :
          /\ InclusiveDiv(op, t, r, v, stage).outs = Start(r).outs
          /\ InclusiveDiv(op, t, r, v, stage).done = Start(r).done
          /\ InclusiveDiv(op, t, r, v, stage).cmd = Start(r).cmd
          /\ InclusiveDiv(op, t, r, v, stage).takes = IF All(t, two) THEN {"in0"} ELSE {}
    BY <2>2, <2>3
  <2> HIDE DEF Start
  <2>5. Plain(InclusiveDiv(op, t, TRUE, v, stage), t, TRUE, two, {"in0"}, {"out0"})
    BY <2>1, <2>4 DEF Plain
  <2>6. LET x0 == InclusiveDiv(op, t, FALSE, v, stage) IN
        Loose(x0, t, two, op)
    BY <1>2, <1>4, <2>1, <2>4 DEF Plain, Loose
  <2> QED BY <1>2, <1>4, <2>5, <2>6
<1> QED BY <1>1, <1>3, <1>4

LEMMA LoopControlFits ==
  ASSUME NEW t, NEW op, NEW v, NEW ran, NEW i, NEW started, \A u \in special : list # <<u>>
  PROVE  Fits(LoopControl(op, t, FALSE, v, i, started), LoopControl(op, t, TRUE, v, i, started),
              t, op, Operands(op, ran))
<1>1. CASE op # "LOOP_CONTROL"
  BY <1>1, QuietIsSilent DEF LoopControl
<1>2. CASE op = "LOOP_CONTROL"
  <2>1. \A x, y : DOMAIN [out0 |-> x, out1 |-> y] = {"out0", "out1"}
    OBVIOUS
  <2>2. Plain(LoopControl(op, t, TRUE, v, i, started), t, TRUE, loop, loop, {"out0", "out1"})
    BY <1>2, <2>1, WaitsShape DEF LoopControl
  <2>3. Silent(LoopControl(op, t, FALSE, v, i, started))
    BY QuietIsSilent DEF LoopControl
  <2>4. Operands(op, ran) = loop /\ Outports(op) = {"out0", "out1"}
    BY <1>2
  <2> QED BY <1>2, <2>2, <2>3, <2>4
<1> QED BY <1>1, <1>2

LEMMA FourIncCmpNotGrantFits ==
  ASSUME NEW t, NEW op, NEW v, NEW ran, NoneApart, \A u \in special : list # <<u>>
  PROVE  Fits(FourIncCmpNotGrant(op, t, FALSE, v), FourIncCmpNotGrant(op, t, TRUE, v),
              t, op, Operands(op, ran))
  BY QuietIsSilent, OpShape, FourShape DEF FourIncCmpNotGrant, factors

LEMMA PrlMulAdderFits ==
  ASSUME NEW t, NEW op, NEW v, NEW ran, NoneApart, list = <<"PrlMulAdder">>
  PROVE  Fits(PrlMulAdder(op, t, FALSE, v), PrlMulAdder(op, t, TRUE, v), t, op, Operands(op, ran))
<1> DEFINE X(r) == PrlMulAdder(op, t, r, v)
<1>1. CASE op \notin {"MUL_ADD", "MUL_SUB"}
  BY <1>1, QuietIsSilent DEF PrlMulAdder
<1>2. CASE op \in {"MUL_ADD", "MUL_SUB"}
  <2>1. /\ Operands(op, ran) = loop /\ Outports(op) = {"out0", "out1"} /\ op \notin reports
        /\ ~ReadyFirst(op)
    BY <1>2
  <2>2. \A r \in BOOLEAN :
         /\ {"out0", "out1"} \subseteq DOMAIN X(r).outs <=> All(t, loop)
         /\ ~r => X(r).takes = {} /\ X(r).done = FALSE
         /\ All(t, loop) /\ r => Plain(X(r), t, TRUE, loop, loop, {"out0", "out1"})
    <3>1. \A r \in BOOLEAN : Paired(X(r), t, r)
      BY <1>2, TwoPrlShape DEF PrlMulAdder
    <3> QED BY <3>1 DEF Paired
  <2> HIDE DEF X
  <2>3. Loose(X(FALSE), t, loop, op)
    BY <2>1, <2>2 DEF Loose
  <2>4. All(t, loop) => Plain(X(TRUE), t, TRUE, loop, loop, {"out0", "out1"})
    BY <2>2
  <2>5. Answers(X(FALSE), X(TRUE), t, op, loop)
    BY <2>1, <2>3, <2>4
  <2> QED BY <2>1, <2>5 DEF X
<1> QED BY <1>1, <1>2

LEMMA VectorAllReduceFits ==
  ASSUME NEW t, DOMAIN t = Operand, NEW op, NEW ran, NEW c \in BOOLEAN,
         op \notin global_reduce \cup base_global_reduce, ~ReadyFirst(op),
         \A u \in special : list # <<u>>
  PROVE  Fits(VectorAllReduce(op, t, FALSE, c, FALSE), VectorAllReduce(op, t, TRUE, c, FALSE),
              t, op,
              Operands(op, ran))
<1> DEFINE X(r) == VectorAllReduce(op, t, r, c, FALSE)
           reads == IF op \in local_reduce THEN {"in0"} ELSE two
<1>1. CASE op \notin local_reduce \cup base_reduce
  <2>1. Silent([Quiet EXCEPT !.done = FALSE]) /\ Idles([Quiet EXCEPT !.done = TRUE])
    BY DEF Silent, Idles, Empty, Quiet
  <2>2. \A r \in BOOLEAN : X(r) = [Quiet EXCEPT !.done = r]
    BY <1>1 DEF VectorAllReduce
  <2> QED BY <2>1, <2>2
<1>2. CASE op \in local_reduce \cup base_reduce
  <2>1. /\ Operands(op, ran) = reads /\ Outports(op) = {"out0"} /\ op \notin reports
        /\ op \notin divisions /\ leaves(op) = {}
    BY <1>2
  <2>2. \A r \in BOOLEAN :
          /\ DOMAIN X(r).outs = IF All(t, reads) THEN {"out0"} ELSE {}
          /\ X(r).takes = IF r THEN reads ELSE {}
          /\ X(r).done = r /\ X(r).cmd = None
    <3> SUFFICES ASSUME NEW r \in BOOLEAN
                 PROVE  /\ DOMAIN X(r).outs = IF All(t, reads) THEN {"out0"} ELSE {}
                        /\ X(r).takes = IF r THEN reads ELSE {}
                        /\ X(r).done = r /\ X(r).cmd = None
      OBVIOUS
    <3>1. \A y : DOMAIN [out0 |-> y] = {"out0"}
      OBVIOUS
    <3>2. PICK value, p :
            X(r) = [outs |-> IF All(t, reads) THEN [out0 |-> Data(value, p)] ELSE <<>>,
                    takes |-> {i \in DOMAIN t : i \in reads /\ r}, done |-> r, cmd |-> None]
      BY <1>2 DEF VectorAllReduce
    <3>3. {i \in DOMAIN t : i \in reads /\ r} = IF r THEN reads ELSE {}
      BY DEF Operand
    <3> HIDE DEF X, reads
    <3> QED BY <3>1, <3>2, <3>3, NoPorts
  <2> HIDE DEF X
  <2> HIDE DEF reads
  <2>3. Loose(X(FALSE), t, reads, op)
    BY <2>1, <2>2 DEF Loose
  <2>4. All(t, reads) => Plain(X(TRUE), t, TRUE, reads, reads, {"out0"})
    BY <2>2 DEF Plain
  <2>5. Ordinary(op, ran, reads)
    BY <2>1, <1>2 DEF Ordinary
  <2>6. Fits(X(FALSE), X(TRUE), t, op, Operands(op, ran))
    <3> HIDE DEF Fits, Operands
    <3> QED BY <2>3, <2>4, <2>5, LooseFits
  <2> QED BY <2>6 DEF X
<1> QED BY <1>1, <1>2

LEMMA RetFits ==
  ASSUME NEW t, NEW op, NEW v, NEW ran, NEW c, NEW ended, op \notin returns
  PROVE  Fits(Ret(op, t, c, v, ended), Ret(op, t, c, v, ended), t, op, Operands(op, ran))
  BY QuietIsSilent DEF Ret

HIDE DEF special, Fits, Answers, ReadyFirst, reports, returns, divisions, Partial, Operands,
        Outports, local_reduce, base_reduce, global_reduce, base_global_reduce, leaves, two,
        three, loop, with_const
-----------------------------------------------------------------------------
LEMMA RanMatters ==
  ASSUME NEW op, op \notin first_words, NEW ran, NEW other
  PROVE  Operands(op, ran) = Operands(op, other)
  BY DEF Operands, first_words

(* The units of a proper list.                                             *)
LEMMA ListFacts ==
  ASSUME list \in FuLists
  PROVE  /\ list \in Seq(Units)
         /\ \A i \in DOMAIN list : list[i] \in Units
         /\ \A i, j \in DOMAIN list : list[i] = list[j] => i = j
         /\ \A i \in DOMAIN list : list[i] \in special => list = <<list[i]>>
         /\ \A i \in DOMAIN list, u \in special : list[i] \notin special => list # <<u>>
<1>1. list \in Seq(Units) /\ \A i, j \in DOMAIN list : list[i] = list[j] => i = j
  BY ListsAssumption DEF ProperList
<1>2. \A i \in DOMAIN list : list[i] \in Units
  BY <1>1
<1>3. ASSUME NEW i \in DOMAIN list, list[i] \in special PROVE list = <<list[i]>>
  <2>1. Len(list) = 1
    BY <1>3, ListsAssumption DEF ProperList
  <2> QED BY <1>1, <2>1
<1>4. ASSUME NEW i \in DOMAIN list, NEW u \in special, list[i] \notin special PROVE list # <<u>>
  BY <1>4
<1> QED BY <1>1, <1>2, <1>3, <1>4

(* What unit i says, and that each but the one that reports fits the word. *)
Says(i, r, c) == Answer(list[i], seen, r, c)

LEMMA AnswerFits ==
  ASSUME NoneApart, list \in FuLists, NEW i \in DOMAIN list, NEW c \in BOOLEAN,
         list[i] = "Ret" => word.op \notin returns,
         list[i] = "VectorAllReduce" => word.op \notin global_reduce /\ ~regs.already_sent,
         regs.already_sent \in BOOLEAN, word.op \in Ops[list],
         regs.first[word.addr] \in BOOLEAN, NEW ran \in BOOLEAN,
         word.op \in first_words => regs.first[word.addr] = ~ran
  PROVE  Fits(Says(i, FALSE, c), Says(i, TRUE, c), seen, word.op, Operands(word.op, ran))
<1> DEFINE op == word.op   u == list[i]
           Goal == Fits(Says(i, FALSE, c), Says(i, TRUE, c), seen, op, Operands(op, ran))
<1> SUFFICES Goal
  OBVIOUS
<1>0. u \in Units
  BY ListFacts
<1>1. CASE u \in special
  <2>1. list = <<u>>
    BY <1>1, ListFacts
  <2>2. CASE u = "PrlMulAdder"
    BY <2>1, <2>2, PrlMulAdderFits DEF Says, Answer
  <2>3. CASE u = "AluGenMac"
    BY <2>1, <2>3, AluGenMacFits DEF Says, Answer
  <2>4. CASE u = "InclusiveDiv"
    BY <2>1, <2>4, InclusiveDivFits DEF Says, Answer
  <2>5. CASE u = "ExclusiveDiv"
    BY <2>1, <2>5, ExclusiveDivFits DEF Says, Answer
  <2> QED BY <1>1, <2>2, <2>3, <2>4, <2>5 DEF special
<1>2. CASE u \notin special
  <2>0. \A s \in special : list # <<s>>
    BY <1>2, ListFacts
  <2>1. CASE u = "Adder"
    BY <2>0, <2>1, AdderFits DEF Says, Answer
  <2>2. CASE u = "Mul"
    BY <2>0, <2>2, MulFits DEF Says, Answer
  <2>3. CASE u = "Div"
    BY <2>0, <2>3, DivFits DEF Says, Answer
  <2>4. CASE u = "Const"
    BY <2>0, <2>4, ConstFits DEF Says, Answer
  <2>5. CASE u = "ExtractPredicate"
    BY <2>0, <2>5, ExtractPredicateFits DEF Says, Answer
  <2>6. CASE u = "Shifter"
    BY <2>0, <2>6, ShifterFits DEF Says, Answer
  <2>7. CASE u = "Logic"
    BY <2>0, <2>7, LogicFits DEF Says, Answer
  <2>8. CASE u = "Comp"
    BY <2>0, <2>8, CompFits DEF Says, Answer
  <2>9. CASE u = "Sel"
    BY <2>0, <2>9, SelFits DEF Says, Answer
  <2>10. CASE u = "Gep"
    BY <2>0, <2>10, GepFits DEF Says, Answer
  <2>11. CASE u = "Grant"
    BY <2>0, <2>11, GrantFits DEF Says, Answer
  <2>12. CASE u = "FpAdd"
    BY <2>0, <2>12, FpAddFits DEF Says, Answer
  <2>13. CASE u = "FpMul"
    BY <2>0, <2>13, FpMulFits DEF Says, Answer
  <2>14. CASE u = "LoopControl"
    BY <2>0, <2>14, LoopControlFits DEF Says, Answer
  <2>15. CASE u = "VectorAdderCombo"
    BY <2>0, <2>15, VectorAdderComboFits DEF Says, Answer
  <2>16. CASE u = "SeqMulAdder"
    BY <2>0, <2>16, SeqMulAdderFits DEF Says, Answer
  <2>17. CASE u = "SeqMulShifter"
    BY <2>0, <2>17, SeqMulShifterFits DEF Says, Answer
  <2>18. CASE u = "ThreeMulAdderShifter"
    BY <2>0, <2>18, ThreeMulAdderShifterFits DEF Says, Answer
  <2>19. CASE u = "FourIncCmpNotGrant"
    BY <2>0, <2>19, FourIncCmpNotGrantFits DEF Says, Answer
  <2>20. CASE u = "Ret"
    BY <2>20, RetFits DEF Says, Answer
  <2>21. CASE u = "Phi"
    <3>1. Fits(Says(i, FALSE, c), Says(i, TRUE, c), seen, op, Operands(op, ~regs.first[word.addr]))
      BY <2>0, <2>21, PhiFits DEF Says, Answer
    <3>2. Operands(op, ~regs.first[word.addr]) = Operands(op, ran)
      BY RanMatters
    <3> QED BY <3>1, <3>2
  <2>22. CASE u \in {"VectorMulCombo", "VectorAllReduce"}
    <3>1. op \notin base_global_reduce /\ ~ReadyFirst(op)
      BY <2>0, <2>22, ListsAssumption DEF ProperList, ReadyFirst, special
    <3>2. CASE u = "VectorMulCombo"
      BY <2>0, <3>1, <3>2, VectorMulComboFits DEF Says, Answer
    <3>3. CASE u = "VectorAllReduce"
      <4>1. DOMAIN seen = Operand /\ regs.already_sent = FALSE /\ op \notin global_reduce
        BY <3>3 DEF seen
      <4>2. \A r \in BOOLEAN : Says(i, r, c) = VectorAllReduce(op, seen, r, c, FALSE)
        BY <3>3, <4>1 DEF Says, Answer
      <4> QED BY <2>0, <3>1, <4>1, <4>2, VectorAllReduceFits
    <3> QED BY <2>22, <3>2, <3>3
    <2> QED BY <1>0, <1>2, <2>1, <2>2, <2>3, <2>4, <2>5, <2>6, <2>7, <2>8, <2>9, <2>10, <2>11,
             <2>12, <2>13, <2>14, <2>15, <2>16, <2>17, <2>18, <2>19, <2>20, <2>21, <2>22 DEF
             Units, special
<1> QED BY <1>1, <1>2

(* What the units together offer, take and finish.                         *)
LEMMA MergeFacts ==
  ASSUME list \in FuLists, NEW r, NEW c
  PROVE  LET A == FlexibleFu(r, c) IN
         /\ \A o : o \in DOMAIN A.outs <=> \E i \in DOMAIN list : o \in DOMAIN Says(i, r, c).outs
         /\ \A k : k \in A.takes <=> \E i \in DOMAIN list : k \in Says(i, r, c).takes
         /\ A.done <=> \E i \in DOMAIN list : Says(i, r, c).done
         /\ (\A i \in DOMAIN list : Says(i, r, c).cmd = None) => A.cmd = None
         /\ \A i \in DOMAIN list :
              Says(i, r, c).cmd # None /\ (\A j \in DOMAIN list : Says(j, r, c).cmd # None => j = i)
              => A.cmd = Says(i, r, c).cmd
<1> DEFINE answers == {[unit |-> i, says |-> Says(i, r, c)] : i \in DOMAIN list}
           drives(o) == {x \in answers : o \in DOMAIN x.says.outs}
           tells == {x \in answers : x.says.cmd # None}
           A == FlexibleFu(r, c)
<1>1. A = Merge(answers)
  BY DEF FlexibleFu, Says
<1>2. /\ \A i \in DOMAIN list : \E x \in answers : x.unit = i /\ x.says = Says(i, r, c)
      /\ \A x \in answers : \E i \in DOMAIN list : x.unit = i /\ x.says = Says(i, r, c)
  <2>1. ASSUME NEW i \in DOMAIN list PROVE \E x \in answers : x.unit = i /\ x.says = Says(i, r, c)
    <3>1. [unit |-> i, says |-> Says(i, r, c)] \in answers
      OBVIOUS
    <3> QED BY <3>1
  <2>2. ASSUME NEW x \in answers PROVE \E i \in DOMAIN list : x.unit = i /\ x.says = Says(i, r, c)
    <3>1. PICK i \in DOMAIN list : x = [unit |-> i, says |-> Says(i, r, c)]
      OBVIOUS
    <3> QED BY <3>1
  <2> QED BY <2>1, <2>2
<1>3. /\ DOMAIN A.outs = UNION {DOMAIN x.says.outs : x \in answers}
      /\ A.takes = UNION {x.says.takes : x \in answers}
      /\ A.done = \E x \in answers : x.says.done
      /\ A.cmd = IF tells = {} THEN None ELSE Latest(tells).says.cmd
  BY <1>1 DEF Merge
<1>4. \A x \in answers : x.says.cmd # None => x \in tells
  OBVIOUS
<1>5. ASSUME NEW i \in DOMAIN list, Says(i, r, c).cmd # None,
             \A j \in DOMAIN list : Says(j, r, c).cmd # None => j = i
      PROVE  A.cmd = Says(i, r, c).cmd
  <2> DEFINE mine == [unit |-> i, says |-> Says(i, r, c)]
  <2>1. tells = {mine}
    BY <1>5
  <2>2. i \in Int
    BY ListFacts
  <2>3. mine.unit = i /\ mine.says.cmd = Says(i, r, c).cmd
    OBVIOUS
  <2>4. Latest(tells) = mine
    <3> HIDE DEF mine, tells
    <3> QED BY <2>1, <2>2, <2>3 DEF Latest
  <2> HIDE DEF mine, tells, A
  <2> QED BY <1>3, <2>1, <2>3, <2>4
<1> HIDE DEF answers, A
<1>6. \A o : o \in DOMAIN A.outs <=> \E i \in DOMAIN list : o \in DOMAIN Says(i, r, c).outs
  BY <1>2, <1>3
<1>7. \A k : k \in A.takes <=> \E i \in DOMAIN list : k \in Says(i, r, c).takes
  BY <1>2, <1>3
<1>8. A.done <=> \E i \in DOMAIN list : Says(i, r, c).done
  BY <1>2, <1>3
<1>9. (\A i \in DOMAIN list : Says(i, r, c).cmd = None) => A.cmd = None
  BY <1>2, <1>3
<1> QED BY <1>5, <1>6, <1>7, <1>8, <1>9 DEF A

LEMMA OperandsKnown == \A op, ran : Operands(op, ran) \subseteq Operand
  BY DEF Operands, Operand, two, three, loop, with_const, local_reduce, global_reduce
-----------------------------------------------------------------------------
(* The inductive invariant. first_list: the list remembers first           *)
(* executions, whose pass counter must keep in step with the passes made.  *)
Reads == Operands(word.op, Ran(word.addr))
Reached == past.passes + 1 = 2^factor
first_list == Ops[list] \cap first_words # {}

Shape ==
  /\ list \in FuLists /\ factor \in Factors[list] /\ phase \in {"idle", "run", "done"}
  /\ took \in [Operand -> Nat]
  /\ {"counter", "first", "already_done", "already_sent"} \subseteq DOMAIN regs
  /\ regs.counter \in Nat /\ regs.already_sent \in BOOLEAN
  /\ regs.first \in [Addr -> BOOLEAN] /\ regs.already_done \in [Addr -> BOOLEAN]
  /\ {"ran", "returned", "passes"} \subseteq DOMAIN past
  /\ DOMAIN past.ran = Addr /\ past.returned \in [Addr -> BOOLEAN] /\ past.passes \in Nat
  /\ factor = 0 => past.passes = 0

(* The word of a step is one of the list, its operands are those it reads. *)
Loaded ==
  phase # "idle" =>
    /\ word.op \in Ops[list] /\ word.addr \in Addr /\ word.last \in BOOLEAN
    /\ factor = 0 => ~word.last
    /\ \A i \in Operand : args[i] # None <=> i \in Reads
    /\ word.op \in remembered => past.ran[word.addr] \in {None, word.op}

Untouched == \A i \in Operand : took[i] = 0

(* Between two steps nothing of the last one is left, a reduction's flag   *)
(* included.                                                               *)
Resting == phase = "idle" => Untouched /\ gave = <<>> /\ told = <<>> /\ ~regs.already_sent

(* A reduction first sends in0, then waits for the response.               *)
Contributing ==
  \/ told = <<>> /\ ~regs.already_sent /\ here = {"in0"} /\ Untouched
  \/ /\ Len(told) = 1 /\ regs.already_sent /\ here \subseteq {"response"}
     /\ \A i \in Operand : took[i] = IF i = "in0" THEN 1 ELSE 0

(* Any other word leaves everything alone until it is done.                *)
Underway ==
  /\ Untouched /\ ~regs.already_sent
  /\ word.op \in returns => told = <<>>
  /\ here \subseteq Reads /\ (Careful(word) => here = Reads)

Running ==
  phase = "run" => gave = <<>> /\ IF word.op \in global_reduce THEN Contributing ELSE Underway

Finished ==
  phase = "done" =>
    /\ ~regs.already_sent
    /\ \A i \in Reads \ leaves(word.op) : took[i] = 1
    /\ Len(gave) = IF Outports(word.op) = {} THEN 0 ELSE 1
    /\ word.op \in returns =>
         Len(told) = Bool(args["in0"].predicate /\ ~past.returned[word.addr])
    /\ word.op \in global_reduce => Len(told) = 1

(* What the registers remember of the addresses is what the steps did.     *)
ReturnsKept ==
  Ops[list] \cap returns # {} =>
    \A a \in Addr :
      regs.already_done[a] <=>
        \/ past.returned[a]
        \/ phase = "done" /\ a = word.addr /\ word.op \in returns /\ args["in0"].predicate

FirstsKept ==
  first_list =>
    \A a \in Addr :
      past.ran[a] \in {None} \cup first_words =>
        (regs.first[a] <=>
           /\ past.ran[a] = None
           /\ ~(phase = "done" /\ a = word.addr /\ word.op \in first_words /\ Reached))

PassesCounted ==
  first_list =>
    /\ past.passes < 2^factor
    /\ regs.counter = IF phase = "done" /\ word.last THEN (past.passes + 1) % 2^factor
                                                     ELSE past.passes

FuInv ==
  Shape /\ Loaded /\ Resting /\ Running /\ Finished /\ ReturnsKept /\ FirstsKept /\ PassesCounted
-----------------------------------------------------------------------------
LEMMA SeenAll ==
  ASSUME \A i \in Reads : args[i] # None, NEW R, R \subseteq Reads
  PROVE  All(seen, R) <=> R \subseteq here
  BY OperandsKnown DEF All, seen, Reads

LEMMA FirstPort == \A op : op \notin returns => "out0" \in Outports(op)
  BY DEF Outports, returns

(* The step of a word that reports nothing: it is done exactly when its    *)
(* receivers take all it delivers, all operands are there and leave then.  *)
Ready(c) == Outports(word.op) \subseteq DOMAIN FlexibleFu(FALSE, c).outs

InStep ==
  /\ list \in FuLists /\ word.op \in Ops[list]
  /\ here \subseteq Reads /\ \A i \in Reads : args[i] # None
  /\ regs.first[word.addr] \in BOOLEAN
  /\ word.op \in first_words => (regs.first[word.addr] <=> ~Ran(word.addr))
  /\ regs.already_sent \in BOOLEAN

LEMMA StepFits ==
  ASSUME NoneApart, InStep, word.op \notin reports, regs.already_sent = FALSE,
         NEW i \in DOMAIN list, NEW c \in BOOLEAN
  PROVE  Fits(Says(i, FALSE, c), Says(i, TRUE, c), seen, word.op, Reads)
<1>1. Ran(word.addr) \in BOOLEAN
  BY DEF Ran
<1>2. word.op \in first_words => regs.first[word.addr] = ~Ran(word.addr)
  BY DEF InStep
<1>3. word.op \notin returns /\ word.op \notin global_reduce
  BY DEF reports
<1> QED BY <1>1, <1>2, <1>3, AnswerFits DEF InStep, Reads

(* While its receivers are not ready it does nothing.                      *)
LEMMA WaitsForReceivers ==
  ASSUME NoneApart, InStep, word.op \notin reports, regs.already_sent = FALSE, NEW c \in BOOLEAN,
         Careful(word) => here = Reads,
         Careful(word) /\ ~ReadyFirst(word.op) => ~Ready(c)
  PROVE  ~FlexibleFu(FALSE, c).done /\ FlexibleFu(FALSE, c).takes = {}
<1>1. ASSUME NEW i \in DOMAIN list PROVE ~Says(i, FALSE, c).done /\ Says(i, FALSE, c).takes = {}
  <2> DEFINE x0 == Says(i, FALSE, c)   x1 == Says(i, TRUE, c)   op == word.op
  <2>1. CASE Silent(x0)
    BY <2>1 DEF Silent, Empty
  <2>2. CASE ~ReadyFirst(op) /\ Answers(x0, x1, seen, op, Reads)
    <3>1. PICK R, T : /\ R \subseteq Reads
                      /\ Plain(x0, seen, FALSE, R, T, Outports(op)) \/ Loose(x0, seen, R, op)
      BY <2>2 DEF Answers
    <3>2. CASE Plain(x0, seen, FALSE, R, T, Outports(op))
      BY <3>2 DEF Plain
    <3>3. CASE Loose(x0, seen, R, op)
      <4>1. ASSUME op \in divisions PROVE FALSE
        <5>1. Careful(word)
          BY <4>1 DEF Careful
        <5>2. All(seen, R)
          BY <5>1, <3>1, SeenAll DEF InStep
        <5>3. Outports(op) \subseteq DOMAIN x0.outs
          BY <5>2, <3>3 DEF Loose
        <5>4. Ready(c)
          BY <5>3, MergeFacts DEF Ready, InStep
        <5> QED BY <5>1, <5>4, <2>2
      <4> QED BY <4>1, <3>3 DEF Loose
    <3> QED BY <3>1, <3>2, <3>3
  <2> QED BY <2>1, <2>2, StepFits DEF Fits
<1> QED BY <1>1, MergeFacts DEF InStep

(* When they are ready they carry its messages, so everything happens at   *)
(* once.                                                                   *)
LEMMA ActsWhenReady ==
  ASSUME NoneApart, InStep, word.op \notin reports, regs.already_sent = FALSE, NEW c \in BOOLEAN,
         Careful(word) => here = Reads, ~ReadyFirst(word.op), Ready(c)
  PROVE  LET A == FlexibleFu(TRUE, c) IN
         /\ A.done /\ here = Reads /\ Reads \ leaves(word.op) \subseteq A.takes
         /\ Outports(word.op) \subseteq DOMAIN A.outs
<1> DEFINE op == word.op
<1>1. "out0" \in Outports(op)
  BY FirstPort DEF reports
<1>2. PICK i \in DOMAIN list : /\ "out0" \in DOMAIN Says(i, FALSE, c).outs
                               /\ list = <<"PrlMulAdder">> => Outports(op) \subseteq DOMAIN Says(i, FALSE, c).outs
  <2>1. CASE list = <<"PrlMulAdder">>
    <3>1. DOMAIN list = {1}
      BY <2>1
    <3> QED BY <1>1, <3>1, MergeFacts DEF Ready, InStep
  <2>2. CASE list # <<"PrlMulAdder">>
    BY <1>1, <2>2, MergeFacts DEF Ready, InStep
  <2> QED BY <2>1, <2>2
<1> DEFINE x0 == Says(i, FALSE, c)   x1 == Says(i, TRUE, c)
<1>3. Answers(x0, x1, seen, op, Reads)
  <2>1. ~Silent(x0)
    BY <1>2, NoPorts DEF Silent, Empty
  <2> QED BY <2>1, StepFits DEF Fits
<1>4. PICK R, T :
        /\ R \subseteq Reads /\ (R = Reads \/ Partial(op))
        /\ Reads \ leaves(op) \subseteq T
        /\ Plain(x0, seen, FALSE, R, T, Outports(op)) \/ Loose(x0, seen, R, op)
        /\ All(seen, R) => Plain(x1, seen, TRUE, R, T, Outports(op))
  BY <1>3 DEF Answers
<1>5. All(seen, R)
  <2> HIDE DEF x0
  <2>1. CASE Plain(x0, seen, FALSE, R, T, Outports(op))
    BY <2>1, <1>2 DEF Plain, x0
  <2>2. CASE Loose(x0, seen, R, op)
    BY <2>2, <1>2 DEF Loose, x0
  <2> QED BY <1>4, <2>1, <2>2
<1>6. here = Reads
  <2>1. R \subseteq here
    BY <1>4, <1>5, SeenAll DEF InStep
  <2>2. ASSUME Partial(op) PROVE Careful(word)
    BY <2>2 DEF Partial, Careful, Has
  <2> QED BY <1>4, <2>1, <2>2 DEF InStep
<1>7. x1.done /\ x1.takes = T /\ DOMAIN x1.outs = Outports(op)
  <2> HIDE DEF x1
  <2> QED BY <1>4, <1>5 DEF Plain
<1> QED BY <1>4, <1>6, <1>7, MergeFacts DEF InStep

(* The same for a unit whose receivers must be ready before it offers      *)
(* anything.                                                               *)
LEMMA ActsReadyFirst ==
  ASSUME NoneApart, InStep, word.op \notin reports, regs.already_sent = FALSE, NEW c \in BOOLEAN,
         ReadyFirst(word.op)
  PROVE  LET A == FlexibleFu(TRUE, c) IN
         /\ A.done => /\ here = Reads /\ Reads \subseteq A.takes
                      /\ Outports(word.op) \subseteq DOMAIN A.outs
         /\ ~A.done => A.takes = {} /\ ~(Outports(word.op) \subseteq DOMAIN A.outs)
<1> DEFINE op == word.op
<1>1. "out0" \in Outports(op)
  BY FirstPort DEF reports
<1>2. ASSUME NEW i \in DOMAIN list
      PROVE  \/ Silent(Says(i, TRUE, c))
             \/ Plain(Says(i, TRUE, c), seen, TRUE, Reads, Reads, Outports(op))
  BY StepFits DEF Fits
<1>3. ASSUME NEW i \in DOMAIN list
      PROVE  /\ Says(i, TRUE, c).done => /\ here = Reads /\ Says(i, TRUE, c).takes = Reads
                                      /\ DOMAIN Says(i, TRUE, c).outs = Outports(op)
             /\ ~Says(i, TRUE, c).done => Says(i, TRUE, c).takes = {} /\ DOMAIN Says(i, TRUE, c).outs = {}
  <2> DEFINE x == Says(i, TRUE, c)
  <2> HIDE DEF x
  <2>1. CASE Silent(x)
    BY <2>1, NoPorts DEF Silent, Empty, x
  <2>2. CASE Plain(x, seen, TRUE, Reads, Reads, Outports(op))
    <3>1. All(seen, Reads) <=> Reads \subseteq here
      BY SeenAll DEF InStep
    <3> QED BY <2>2, <3>1 DEF Plain, InStep, x
  <2> QED BY <1>2, <2>1, <2>2 DEF x
<1> DEFINE A == FlexibleFu(TRUE, c)
<1>4. /\ \A p : p \in DOMAIN A.outs <=> \E i \in DOMAIN list : p \in DOMAIN Says(i, TRUE, c).outs
      /\ \A k : k \in A.takes <=> \E i \in DOMAIN list : k \in Says(i, TRUE, c).takes
      /\ A.done <=> \E i \in DOMAIN list : Says(i, TRUE, c).done
  BY MergeFacts DEF InStep
<1> HIDE DEF A
<1>5. ASSUME A.done
      PROVE  here = Reads /\ Reads \subseteq A.takes /\ Outports(op) \subseteq DOMAIN A.outs
  <2>1. PICK i \in DOMAIN list : Says(i, TRUE, c).done
    BY <1>4, <1>5
  <2> QED BY <1>3, <1>4, <2>1
<1>6. ASSUME ~A.done
      PROVE  A.takes = {} /\ ~(Outports(op) \subseteq DOMAIN A.outs)
  <2>1. \A i \in DOMAIN list : Says(i, TRUE, c).takes = {} /\ DOMAIN Says(i, TRUE, c).outs = {}
    BY <1>3, <1>4, <1>6
  <2> QED BY <1>1, <1>4, <2>1
<1> QED BY <1>5, <1>6 DEF A

(* A word that reports: its unit alone acts, whatever the other units of   *)
(* the list are. The others can call a reduction done, never a word no     *)
(* receiver waits for.                                                     *)
LEMMA OthersStaySilent ==
  ASSUME NoneApart, InStep, word.op \in reports, regs.already_sent \in BOOLEAN,
         NEW i \in DOMAIN list, NEW c \in BOOLEAN,
         list[i] = "Ret" => word.op \notin returns,
         list[i] = "VectorAllReduce" => word.op \notin global_reduce /\ regs.already_sent = FALSE
  PROVE  /\ Silent(Says(i, FALSE, c))
         /\ Silent(Says(i, TRUE, c)) \/ (~ReadyFirst(word.op) /\ Idles(Says(i, TRUE, c)))
<1>1. Ran(word.addr) \in BOOLEAN
  BY DEF Ran
<1>2. word.op \in first_words => regs.first[word.addr] = ~Ran(word.addr)
  BY DEF InStep
<1>3. Fits(Says(i, FALSE, c), Says(i, TRUE, c), seen, word.op, Reads)
  BY <1>1, <1>2, AnswerFits DEF InStep, Reads
<1> QED BY <1>3 DEF Fits

(* A return (fu/single/RetRTL.py): it ends with its last pass, or at once  *)
(* when it was reported before, and is reported in the cycle it ends.      *)
Ends(c) ==
  LET reported == ~regs.already_done[word.addr] /\ args["in0"].predicate IN
  regs.already_done[word.addr] \/ (rvf /\ (reported => c))

LEMMA ReturnActs ==
  ASSUME NoneApart, InStep, word.op \in returns, NEW c \in BOOLEAN, regs.already_sent = FALSE,
         regs.already_done[word.addr] \in BOOLEAN
  PROVE  LET A == FlexibleFu(FALSE, c) IN
         /\ A.done => here = {"in0"} /\ "in0" \in A.takes /\ Ends(c)
         /\ ~A.done => A.takes = {}
         /\ A.cmd # None =>
              ~regs.already_done[word.addr] /\ args["in0"].predicate /\ rvf /\ (c => A.done)
         /\ A.done /\ ~regs.already_done[word.addr] /\ args["in0"].predicate => A.cmd # None /\ c
<1> DEFINE op == word.op   ended == regs.already_done[word.addr]
           A == FlexibleFu(FALSE, c)
<1>1. Reads = {"in0"} /\ op \in reports /\ op \notin global_reduce
  BY DEF Reads, Operands, returns, reports, local_reduce, global_reduce
<1>2. ASSUME NEW i \in DOMAIN list, list[i] # "Ret" PROVE Silent(Says(i, FALSE, c))
  BY <1>1, <1>2, OthersStaySilent
<1>3. CASE \A i \in DOMAIN list : list[i] # "Ret"
  <2>1. \A i \in DOMAIN list : /\ ~Says(i, FALSE, c).done /\ Says(i, FALSE, c).takes = {}
                               /\ Says(i, FALSE, c).cmd = None
    BY <1>2, <1>3 DEF Silent, Empty
  <2>2. ~A.done /\ A.takes = {} /\ A.cmd = None
    BY <2>1, MergeFacts DEF InStep
  <2> QED BY <2>2
<1>4. ASSUME NEW i \in DOMAIN list, list[i] = "Ret"
      PROVE  /\ A.done => here = {"in0"} /\ "in0" \in A.takes /\ Ends(c)
             /\ ~A.done => A.takes = {}
             /\ A.cmd # None => ~ended /\ args["in0"].predicate /\ rvf /\ (c => A.done)
             /\ A.done /\ ~ended /\ args["in0"].predicate => A.cmd # None /\ c
  <2> DEFINE x == Says(i, FALSE, c)
  <2>1. x = Ret(op, seen, c, rvf, ended)
    BY <1>4 DEF Says, Answer
  <2>2. \A j \in DOMAIN list : j # i => Silent(Says(j, FALSE, c))
    BY <1>2, <1>4, ListFacts DEF InStep
  <2>3. /\ A.done <=> x.done
        /\ A.takes = x.takes
        /\ A.cmd = x.cmd
    <3>1. \A j \in DOMAIN list : j # i => /\ ~Says(j, FALSE, c).done /\ Says(j, FALSE, c).takes = {}
                                          /\ Says(j, FALSE, c).cmd = None
      BY <2>2 DEF Silent, Empty
    <3>2. A.done <=> x.done
      BY <3>1, MergeFacts DEF InStep
    <3>3. A.takes = x.takes
      <4>1. \A k : k \in A.takes <=> k \in x.takes
        BY <3>1, MergeFacts DEF InStep
      <4> QED BY <4>1
    <3>4. A.cmd = x.cmd
      <4>1. CASE x.cmd = None
        <5>1. \A j \in DOMAIN list : Says(j, FALSE, c).cmd = None
          BY <3>1, <4>1
        <5> QED BY <4>1, <5>1, MergeFacts DEF InStep
      <4>2. CASE x.cmd # None
        <5>1. \A j \in DOMAIN list : Says(j, FALSE, c).cmd # None => j = i
          BY <3>1
        <5> QED BY <4>2, <5>1, MergeFacts DEF InStep
      <4> QED BY <4>1, <4>2
    <3> QED BY <3>2, <3>3, <3>4
  <2>4. All(seen, {"in0"}) <=> here = {"in0"}
    BY <1>1, SeenAll DEF InStep
  <2>5. CASE here # {"in0"}
    <3>1. Silent(x)
      BY <2>1, <2>4, <2>5, QuietIsSilent DEF Ret
    <3> QED BY <2>3, <3>1 DEF Silent, Empty
  <2>6. CASE here = {"in0"}
    <3>1. seen["in0"] = args["in0"]
      BY <2>6 DEF seen, Operand
    <3>2. /\ x.done = Ends(c)
          /\ x.takes = IF Ends(c) THEN {"in0"} ELSE {}
          /\ x.cmd # None <=> ~ended /\ args["in0"].predicate /\ rvf
      <4>1. \A y : <<"COMPLETE", y>> # None
        BY DEF NoneApart
      <4>2. x = [Quiet EXCEPT !.cmd = IF ~ended /\ args["in0"].predicate /\ rvf
                                      THEN <<"COMPLETE", IF op = "RET" THEN args["in0"].payload ELSE 0>>
                                      ELSE None,
                              !.takes = IF Ends(c) THEN {"in0"} ELSE {}, !.done = Ends(c)]
        BY <2>1, <2>4, <2>6, <3>1 DEF Ret, Ends, returns
      <4> HIDE DEF x
      <4> QED BY <4>1, <4>2 DEF Quiet
    <3> HIDE DEF x, A
    <3> QED BY <2>3, <2>6, <3>2 DEF Ends
  <2> QED BY <2>5, <2>6
<1> QED BY <1>3, <1>4

(* A reduction (fu/vector/VectorAllReduceRTL.py): in0 goes to the          *)
(* controller, then the response comes; the unit itself never waits.       *)
LEMMA ReduceUnit ==
  ASSUME NEW t, DOMAIN t = Operand, NEW op \in global_reduce, NEW r \in BOOLEAN, NEW c \in BOOLEAN,
         NEW sent \in BOOLEAN, NoneApart
  PROVE  LET x == VectorAllReduce(op, t, r, c, sent) IN
         /\ DOMAIN x.outs = IF t["response"] # None THEN {"out0"} ELSE {}
         /\ x.takes = (IF c THEN {"in0"} ELSE {}) \cup (IF sent THEN {"response"} ELSE {})
         /\ x.done = r
         /\ x.cmd # None <=> ~sent /\ t["in0"] # None
<1> DEFINE x == VectorAllReduce(op, t, r, c, sent)
<1>1. \A y : DOMAIN [out0 |-> y] = {"out0"}
  OBVIOUS
<1>2. op \notin local_reduce /\ op \notin base_reduce /\ op \notin base_global_reduce
  BY DEF global_reduce, local_reduce, base_reduce, base_global_reduce
<1> DEFINE report == IF op \in {"VEC_REDUCE_ADD_GLOBAL", "VEC_REDUCE_ADD_BASE_GLOBAL"}
                     THEN <<"GLOBAL_REDUCE_ADD", SumUnit(t["in0"].payload)>>
                     ELSE <<"GLOBAL_REDUCE_MUL", 0>>
<1>3. x = [outs |-> IF All(t, {"response"}) THEN [out0 |-> Data(t["response"].payload % M, FALSE)]
                                            ELSE <<>>,
           takes |-> {i \in DOMAIN t : (i = "in0" /\ c) \/ (i = "response" /\ sent)}, done |-> r,
           cmd |-> IF ~(~sent /\ t["in0"] # None) THEN None ELSE report]
  <2>1. /\ op # "VEC_REDUCE_ADD" /\ op # "VEC_REDUCE_ADD_BASE" /\ op # "VEC_REDUCE_MUL"
        /\ op # "VEC_REDUCE_MUL_BASE" /\ op # "VEC_REDUCE_ADD_BASE_GLOBAL"
        /\ op # "VEC_REDUCE_MUL_BASE_GLOBAL"
    BY DEF global_reduce
  <2> QED BY <1>2, <2>1 DEF VectorAllReduce
<1>4. {i \in DOMAIN t : (i = "in0" /\ c) \/ (i = "response" /\ sent)}
      = (IF c THEN {"in0"} ELSE {}) \cup (IF sent THEN {"response"} ELSE {})
  BY DEF Operand
<1>5. All(t, {"response"}) <=> t["response"] # None
  BY DEF All
<1>6. report # None
  BY DEF NoneApart
<1> HIDE DEF x, report
<1> QED BY <1>1, <1>3, <1>4, <1>5, <1>6, NoPorts DEF x

LEMMA ReadyFirstReduces ==
  ASSUME NoneApart, InStep, word.op \in global_reduce, ReadyFirst(word.op), NEW c \in BOOLEAN
  PROVE  LET A == FlexibleFu(TRUE, c) IN
         ~A.done /\ A.takes = {} /\ A.cmd = None /\ DOMAIN A.outs = {} /\ ~Has("VectorAllReduce")
<1>1. list = <<"AluGenMac">>
  BY DEF ReadyFirst, global_reduce
<1>2. ~Has("VectorAllReduce") /\ word.op \in reports
  BY <1>1 DEF Has, reports
<1>3. ASSUME NEW i \in DOMAIN list PROVE Silent(Says(i, TRUE, c))
  <2>1. list[i] # "Ret" /\ list[i] # "VectorAllReduce"
    BY <1>1
  <2> QED BY <1>2, <2>1, OthersStaySilent DEF InStep
<1>4. \A i \in DOMAIN list : /\ ~Says(i, TRUE, c).done /\ Says(i, TRUE, c).takes = {}
                              /\ Says(i, TRUE, c).cmd = None /\ DOMAIN Says(i, TRUE, c).outs = {}
  BY <1>3, NoPorts DEF Silent, Empty
<1> DEFINE A == FlexibleFu(TRUE, c)
<1>5. /\ \A o : o \in DOMAIN A.outs <=> \E i \in DOMAIN list : o \in DOMAIN Says(i, TRUE, c).outs
      /\ \A k : k \in A.takes <=> \E i \in DOMAIN list : k \in Says(i, TRUE, c).takes
      /\ A.done <=> \E i \in DOMAIN list : Says(i, TRUE, c).done
      /\ (\A i \in DOMAIN list : Says(i, TRUE, c).cmd = None) => A.cmd = None
  BY MergeFacts DEF InStep
<1> HIDE DEF A
<1>6. ~A.done /\ A.cmd = None
  BY <1>4, <1>5
<1>7. A.takes = {} /\ DOMAIN A.outs = {}
  BY <1>4, <1>5
<1> QED BY <1>2, <1>6, <1>7 DEF A

LEMMA ContributionActs ==
  ASSUME NoneApart, InStep, word.op \in global_reduce, NEW r \in BOOLEAN, NEW c \in BOOLEAN
  PROVE  LET A == FlexibleFu(r, c)
             sent == regs.already_sent
             unit == Has("VectorAllReduce") IN
         /\ Ready(c) <=> unit /\ "response" \in here
         /\ r /\ Ready(c) => A.done /\ "out0" \in DOMAIN A.outs
         /\ ~r => ~A.done
         /\ "in0" \in A.takes <=> unit /\ c
         /\ "response" \in A.takes <=> unit /\ sent
         /\ A.cmd # None <=> unit /\ ~sent /\ "in0" \in here
<1> DEFINE op == word.op   sent == regs.already_sent   A(s) == FlexibleFu(s, c)
           unit == Has("VectorAllReduce")
<1>1. /\ Reads = {"in0", "response"} /\ op \in reports /\ op \notin returns
      /\ "out0" \in Outports(op) /\ (list # <<"PrlMulAdder">> => Outports(op) = {"out0"})
  BY DEF Reads, Operands, Outports, returns, reports, local_reduce, global_reduce
<1>2. \A k \in {"in0", "response"} : seen[k] # None <=> k \in here
  BY <1>1 DEF seen, Operand, InStep
<1>3. ASSUME NEW i \in DOMAIN list, list[i] # "VectorAllReduce", NEW s \in BOOLEAN
      PROVE  /\ DOMAIN Says(i, s, c).outs = {} /\ Says(i, s, c).takes = {} /\ Says(i, s, c).cmd = None
             /\ ~s => ~Says(i, s, c).done
  <2>1. IF s THEN Silent(Says(i, s, c)) \/ Idles(Says(i, s, c)) ELSE Silent(Says(i, s, c))
    BY <1>1, <1>3, OthersStaySilent DEF InStep
  <2> QED BY <2>1, NoPorts DEF Silent, Idles, Empty
<1>4. CASE ~unit
  <2>1. \A i \in DOMAIN list : list[i] # "VectorAllReduce"
    BY <1>4 DEF Has
  <2>2. \A s \in BOOLEAN : DOMAIN A(s).outs = {} /\ A(s).takes = {} /\ A(s).cmd = None
    BY <1>3, <2>1, MergeFacts DEF InStep
  <2>3. ~A(FALSE).done
    <3>1. \A i \in DOMAIN list : ~Says(i, FALSE, c).done
      BY <1>3, <2>1
    <3> QED BY <3>1, MergeFacts DEF InStep
  <2> HIDE DEF unit
  <2> QED BY <1>1, <1>4, <2>2, <2>3 DEF Ready, unit
<1>5. ASSUME unit
      PROVE  /\ Ready(c) <=> "response" \in here
             /\ r /\ Ready(c) => A(r).done /\ "out0" \in DOMAIN A(r).outs
             /\ ~r => ~A(r).done
             /\ "in0" \in A(r).takes <=> c
             /\ "response" \in A(r).takes <=> sent
             /\ A(r).cmd # None <=> ~sent /\ "in0" \in here
  <2>0. PICK i \in DOMAIN list : list[i] = "VectorAllReduce"
    BY <1>5 DEF Has
  <2>1. \A s \in BOOLEAN : Says(i, s, c) = VectorAllReduce(op, seen, s, c, sent)
    BY <2>0 DEF Says, Answer
  <2>2. DOMAIN seen = Operand /\ sent \in BOOLEAN
    BY DEF seen, InStep
  <2>3. \A s \in BOOLEAN :
          /\ DOMAIN Says(i, s, c).outs = IF "response" \in here THEN {"out0"} ELSE {}
          /\ Says(i, s, c).takes = (IF c THEN {"in0"} ELSE {}) \cup (IF sent THEN {"response"} ELSE {})
          /\ Says(i, s, c).done = s
          /\ Says(i, s, c).cmd # None <=> ~sent /\ "in0" \in here
    BY <1>2, <2>1, <2>2, ReduceUnit
  <2>4. \A j \in DOMAIN list, s \in BOOLEAN : j # i =>
          /\ DOMAIN Says(j, s, c).outs = {} /\ Says(j, s, c).takes = {} /\ Says(j, s, c).cmd = None
          /\ ~s => ~Says(j, s, c).done
    BY <1>3, <2>0, ListFacts DEF InStep
  <2>5. \A s \in BOOLEAN :
          /\ DOMAIN A(s).outs = DOMAIN Says(i, s, c).outs
          /\ A(s).takes = Says(i, s, c).takes
    <3> SUFFICES ASSUME NEW s \in BOOLEAN
                 PROVE  /\ DOMAIN A(s).outs = DOMAIN Says(i, s, c).outs
                        /\ A(s).takes = Says(i, s, c).takes
      OBVIOUS
    <3>1. \A p : p \in DOMAIN A(s).outs <=> p \in DOMAIN Says(i, s, c).outs
      BY <2>4, MergeFacts DEF InStep
    <3>2. \A k : k \in A(s).takes <=> k \in Says(i, s, c).takes
      BY <2>4, MergeFacts DEF InStep
    <3> QED BY <3>1, <3>2
  <2>6. (r => A(r).done) /\ (~r => ~A(r).done)
    BY <2>3, <2>4, MergeFacts DEF InStep
  <2>7. A(r).cmd # None <=> Says(i, r, c).cmd # None
    <3>1. CASE Says(i, r, c).cmd = None
      <4>1. \A j \in DOMAIN list : Says(j, r, c).cmd = None
        BY <2>4, <3>1
      <4> QED BY <3>1, <4>1, MergeFacts DEF InStep
    <3>2. CASE Says(i, r, c).cmd # None
      <4>1. \A j \in DOMAIN list : Says(j, r, c).cmd # None => j = i
        BY <2>4
      <4> QED BY <3>2, <4>1, MergeFacts DEF InStep
    <3> QED BY <3>1, <3>2
  <2>8. Ready(c) <=> "response" \in here
    <3>1. Outports(op) = {"out0"}
      BY <1>1, <2>0
    <3> QED BY <3>1, <2>3, <2>5 DEF Ready
  <2> HIDE DEF A, sent
  <2> QED BY <2>3, <2>5, <2>6, <2>7, <2>8
<1> QED BY <1>4, <1>5

(* A word of a list with first executions offers its result as soon as all *)
(* its operands are there.                                                 *)
LEMMA PhiOffers ==
  ASSUME NEW t, NEW op \in {"PHI_START", "PHI_CONST", "PHI"}, NEW v, NEW first \in BOOLEAN,
         list # <<"AluGenMac">>, All(t, Operands(op, ~first))
  PROVE  "out0" \in DOMAIN Phi(op, t, FALSE, v, first).outs
<1> DEFINE x == Phi(op, t, FALSE, v, first)
<1> SUFFICES "out0" \in DOMAIN x.outs
  OBVIOUS
<1>1. CASE op \in {"PHI", "PHI_START"}
  <2>1. Operands(op, ~first) = IF op = "PHI_START" /\ first THEN {"in0"} ELSE two
    BY <1>1 DEF Operands, local_reduce, global_reduce
  <2>2. Plain(x, t, FALSE, Operands(op, ~first), Operands(op, ~first), {"out0"})
    BY <1>1, <2>1, OpShape DEF Phi
  <2> HIDE DEF x
  <2> QED BY <2>2 DEF Plain
<1>2. CASE op = "PHI_CONST"
  <2> DEFINE R == IF first THEN {"const"} ELSE {"in0"}
  <2>1. R \subseteq Operands(op, ~first)
    BY <1>2 DEF Operands, with_const, local_reduce, global_reduce
  <2>2. All(t, R)
    BY <2>1 DEF All
  <2>3. Plain(x, t, FALSE, R, with_const, {"out0"})
    BY <1>2, OpShape DEF Phi
  <2> HIDE DEF x, R
  <2> QED BY <2>2, <2>3 DEF Plain
<1> QED BY <1>1, <1>2

LEMMA PhiIsReady ==
  ASSUME NoneApart, InStep, word.op \in {"PHI_START", "PHI_CONST", "PHI"}, first_list,
         here = Reads, NEW c \in BOOLEAN
  PROVE  Ready(c)
<1> DEFINE op == word.op   first == regs.first[word.addr]
<1>1. PICK i \in DOMAIN list : list[i] = "Phi"
  BY ListsAssumption DEF ProperList, InStep, first_list
<1>2. list # <<"PrlMulAdder">> /\ list # <<"AluGenMac">>
  BY <1>1
<1>3. Outports(op) = {"out0"}
  BY <1>2 DEF Outports
<1>4. first \in BOOLEAN /\ Reads = Operands(op, ~first)
  <2>1. CASE op \in first_words
    <3>1. CASE first
      <4>1. Ran(word.addr) = FALSE /\ ~first = FALSE
        BY <2>1, <3>1 DEF InStep, Ran
      <4> QED BY <4>1 DEF Reads, InStep
    <3>2. CASE ~first
      <4>1. Ran(word.addr) = TRUE /\ ~first = TRUE
        BY <2>1, <3>2 DEF InStep, Ran
      <4> QED BY <4>1 DEF Reads, InStep
    <3> QED BY <3>1, <3>2
  <2>2. CASE op \notin first_words
    BY <2>2, RanMatters DEF Reads, InStep
  <2> QED BY <2>1, <2>2
<1>5. All(seen, Operands(op, ~first))
  <2>1. All(seen, Reads)
    BY SeenAll DEF InStep
  <2> QED BY <1>4, <2>1
<1>6. Says(i, FALSE, c) = Phi(op, seen, FALSE, rvf, first)
  BY <1>1 DEF Says, Answer
<1>7. "out0" \in DOMAIN Says(i, FALSE, c).outs
  <2> HIDE DEF first, op
  <2>1. "out0" \in DOMAIN Phi(op, seen, FALSE, rvf, first).outs
    BY <1>2, <1>4, <1>5, PhiOffers DEF op
  <2> QED BY <1>6, <2>1
<1>8. "out0" \in DOMAIN FlexibleFu(FALSE, c).outs
  <2>1. list \in FuLists
    BY DEF InStep
  <2> QED BY <2>1, <1>7, MergeFacts
<1> QED BY <1>3, <1>8 DEF Ready
-----------------------------------------------------------------------------
(* One cycle, the readiness of the receivers given. They carry a message   *)
(* together, and a careful word is never stalled.                          *)
Offered(c) == Outports(word.op) # {} /\ (ReadyFirst(word.op) \/ Ready(c))

Driven(rdy, c) ==
  /\ rdy => Offered(c)
  /\ Careful(word) => c /\ (Offered(c) => rdy)

Tick(rdy, c) ==
  LET used == Outports(word.op)   A == FlexibleFu(rdy, c) IN
  /\ phase = "run"
  /\ here' = here \ A.takes
  /\ took' = [i \in Operand |-> took[i] + Cardinality({i} \cap here \cap A.takes)]
  /\ gave' = IF rdy /\ used \subseteq DOMAIN A.outs
             THEN Append(gave, [p \in used |-> A.outs[p]]) ELSE gave
  /\ told' = IF A.cmd # None /\ c THEN Append(told, A.cmd) ELSE told
  /\ regs' = Registers(A, rdy, c)
  /\ phase' = IF A.done THEN "done" ELSE "run"
  /\ UNCHANGED <<job, step, past>>

LEMMA ClockIsTick ==
  ASSUME ~Stalls, NEW ready \in BOOLEAN, NEW c \in BOOLEAN, Clock(ready, c)
  PROVE  \E rdy \in BOOLEAN : Tick(rdy, c) /\ Driven(rdy, c)
<1> DEFINE rdy == ready /\ Offered(c)
<1>1. Careful(word) => ready /\ c
  BY DEF Clock
<1>2. Tick(rdy, c)
  BY DEF Clock, Tick, Ready, Offered
<1>3. rdy \in BOOLEAN
  BY DEF Offered
<1>4. Driven(rdy, c)
  BY <1>1 DEF Driven
<1> QED BY <1>2, <1>3, <1>4

LEMMA StepState ==
  ASSUME FuInv, phase = "run"
  PROVE  InStep
<1>1. here \subseteq Reads
  <2>1. word.op \in global_reduce => Reads = {"in0", "response"}
    BY DEF Reads, Operands, global_reduce, local_reduce
  <2> QED BY <2>1 DEF FuInv, Running, Contributing, Underway
<1>2. \A i \in Reads : args[i] # None
  BY OperandsKnown DEF FuInv, Loaded, Reads
<1>3. list \in FuLists /\ word.op \in Ops[list] /\ word.addr \in Addr
  BY DEF FuInv, Shape, Loaded
<1>4. regs.first[word.addr] \in BOOLEAN /\ regs.already_sent \in BOOLEAN
  BY <1>3 DEF FuInv, Shape
<1>5. ASSUME word.op \in first_words PROVE regs.first[word.addr] <=> ~Ran(word.addr)
  <2>1. first_list
    BY <1>3, <1>5 DEF first_list
  <2>2. past.ran[word.addr] \in {None} \cup first_words
    BY <1>5 DEF FuInv, Loaded, first_words, remembered
  <2> QED BY <1>3, <2>1, <2>2 DEF FuInv, FirstsKept, Ran
<1> QED BY <1>1, <1>2, <1>3, <1>4, <1>5 DEF InStep

LEMMA FactorFacts ==
  ASSUME Shape
  PROVE  factor \in Nat /\ 2^factor \in Nat \ {0} /\ 2^0 = 1
  BY ListsAssumption DEF Shape, ProperList

(* A word that reports nothing is done when its receivers are ready and    *)
(* all its operands there, and leaves everything alone until then.         *)
LEMMA PlainStep ==
  ASSUME NoneApart, FuInv, phase = "run", word.op \notin reports,
         NEW rdy \in BOOLEAN, NEW c \in BOOLEAN, Driven(rdy, c)
  PROVE  LET A == FlexibleFu(rdy, c) IN
         /\ A.done => /\ rdy /\ here = Reads /\ Reads \ leaves(word.op) \subseteq A.takes
                      /\ Outports(word.op) \subseteq DOMAIN A.outs
         /\ ~A.done => A.takes = {} /\ ~(rdy /\ Outports(word.op) \subseteq DOMAIN A.outs)
<1>1. InStep /\ regs.already_sent = FALSE /\ (Careful(word) => here = Reads)
  BY StepState DEF FuInv, Running, Underway, reports
<1>2. CASE ~rdy
  <2>1. Careful(word) /\ ~ReadyFirst(word.op) => ~Ready(c)
    <3>1. Outports(word.op) # {}
      BY FirstPort DEF reports
    <3> QED BY <1>2, <3>1 DEF Driven, Offered
  <2> QED BY <1>1, <1>2, <2>1, WaitsForReceivers
<1>3. CASE rdy /\ ~ReadyFirst(word.op)
  <2>1. Ready(c)
    BY <1>3 DEF Driven, Offered
  <2> QED BY <1>1, <1>3, <2>1, ActsWhenReady
<1>4. CASE rdy /\ ReadyFirst(word.op)
  BY <1>1, <1>4, ActsReadyFirst
<1> QED BY <1>2, <1>3, <1>4

(* A first execution, and a pass that is counted, take a single cycle, so  *)
(* that the registers that follow recv_opt.val see each once.              *)
LEMMA FirstTakesOneCycle ==
  ASSUME NoneApart, FuInv, phase = "run", first_list,
         word.op \in first_words \/ word.last,
         NEW rdy \in BOOLEAN, NEW c \in BOOLEAN, Driven(rdy, c)
  PROVE  FlexibleFu(rdy, c).done
<1>1. InStep
  BY StepState
<1>2. factor \in Nat
  BY FactorFacts DEF FuInv
<1>3. word.op \in {"PHI_START", "PHI_CONST", "PHI"} /\ Careful(word)
  <2>1. CASE word.op \in first_words
    BY <2>1 DEF first_words, Careful
  <2>2. CASE word.last
    <3>1. factor > 0
      BY <1>2, <2>2 DEF FuInv, Loaded
    <3>2. ~(Factors[list] \subseteq {0})
      BY <3>1 DEF FuInv, Shape
    <3>3. Ops[list] \subseteq first_words \cup {"PHI"}
      BY <3>2, ListsAssumption DEF ProperList, first_list, FuInv, Shape
    <3> QED BY <1>1, <2>2, <3>1, <3>3 DEF Careful, InStep, first_words
  <2> QED BY <2>1, <2>2
<1>4. word.op \notin reports
  BY <1>3 DEF reports, returns, global_reduce, base_global_reduce
<1>5. here = Reads /\ regs.already_sent = FALSE
  BY <1>3, <1>4 DEF FuInv, Running, Underway, reports
<1>6. Ready(c)
  BY <1>1, <1>3, <1>5, PhiIsReady
<1>7. rdy
  BY <1>3, <1>4, <1>6, FirstPort DEF Driven, Offered, reports
<1>8. ~ReadyFirst(word.op)
  <2>1. PICK i \in DOMAIN list : list[i] = "Phi"
    BY <1>1, ListsAssumption DEF ProperList, InStep, first_list
  <2> QED BY <1>3, <2>1 DEF ReadyFirst
<1> QED BY <1>1, <1>4, <1>5, <1>6, <1>7, <1>8, ActsWhenReady

LEMMA PassIsReached ==
  ASSUME FuInv, phase # "done", first_list
  PROVE  rvf <=> Reached
<1>1. factor \in Nat /\ 2^factor \in Nat \ {0} /\ 2^0 = 1
  BY FactorFacts DEF FuInv
<1>2. regs.counter = past.passes /\ past.passes \in Nat /\ past.passes < 2^factor
  BY DEF FuInv, Shape, PassesCounted
<1> DEFINE top == 2^factor
<1>3. rvf <=> past.passes + 1 >= top
  BY <1>1, <1>2 DEF rvf, reached_vector_factor
<1> HIDE DEF top
<1> QED BY <1>1, <1>2, <1>3 DEF Reached, top

LEMMA RegistersMove ==
  ASSUME Shape, NEW rdy \in BOOLEAN, NEW c \in BOOLEAN, Tick(rdy, c)
  PROVE  LET A == FlexibleFu(rdy, c) IN
         /\ DOMAIN regs' = DOMAIN regs
         /\ regs'.counter = vector_factor_counter(regs.counter, 0, factor, word.last)
         /\ regs'.first = record_first_execution
         /\ regs'.already_done = update_already_done(A, c)
         /\ regs'.already_sent =
              already_sent_to_controller(word.op, regs.already_sent, A.cmd # None /\ c, A.done)
  BY DEF Shape, Tick, Registers

LEMMA Counted ==
  ASSUME NEW i, NEW S, NEW T
  PROVE  Cardinality({i} \cap S \cap T) = IF i \in S /\ i \in T THEN 1 ELSE 0
<1>1. {i} \cap S \cap T = IF i \in S /\ i \in T THEN {i} ELSE {}
  OBVIOUS
<1> QED BY <1>1, FS_EmptySet, FS_Singleton

(* What a cycle takes, counted.                                            *)
LEMMA TickTakes ==
  ASSUME Shape, NEW rdy \in BOOLEAN, NEW c \in BOOLEAN, Tick(rdy, c)
  PROVE  /\ took' \in [Operand -> Nat]
         /\ \A i \in Operand :
              took'[i] = took[i] + (IF i \in here /\ i \in FlexibleFu(rdy, c).takes THEN 1 ELSE 0)
<1> DEFINE T == FlexibleFu(rdy, c).takes
           more(i) == IF i \in here /\ i \in T THEN 1 ELSE 0
<1>1. took' = [i \in Operand |-> took[i] + more(i)]
  <2>1. took' = [i \in Operand |-> took[i] + Cardinality({i} \cap here \cap T)]
    BY DEF Tick
  <2>2. \A i \in Operand : Cardinality({i} \cap here \cap T) = more(i)
    BY Counted
  <2> QED BY <2>1, <2>2
<1>2. \A i \in Operand : took[i] \in Nat /\ more(i) \in Nat
  BY DEF Shape
<1> QED BY <1>1, <1>2

LEMMA TickKeepsStep ==
  ASSUME NEW rdy \in BOOLEAN, NEW c \in BOOLEAN, Tick(rdy, c)
  PROVE  /\ list' = list /\ factor' = factor /\ word' = word /\ args' = args /\ past' = past
         /\ Reads' = Reads /\ (Reached' <=> Reached) /\ (first_list' <=> first_list)
         /\ leaves(word.op)' = leaves(word.op) /\ Outports(word.op)' = Outports(word.op)
         /\ Careful(word)' <=> Careful(word)
<1>1. list' = list /\ factor' = factor /\ word' = word /\ args' = args /\ past' = past
  BY DEF Tick, job, step
<1> QED BY <1>1 DEF Reads, Reached, first_list, leaves, Outports, Careful, Operands, Ran, Has

LEMMA OneMessage == \A x : Len(Append(<<>>, x)) = 1
  OBVIOUS

(* A cycle keeps the invariant, for the three kinds of words.              *)
LEMMA PlainTick ==
  ASSUME NoneApart, FuInv, NEW rdy \in BOOLEAN, NEW c \in BOOLEAN, Tick(rdy, c), Driven(rdy, c),
         word.op \notin reports
  PROVE  Running' /\ Finished'
<1> DEFINE A == FlexibleFu(rdy, c)   op == word.op
<1>1. phase = "run" /\ Shape
  BY DEF Tick, FuInv
<1>2. /\ A.done => /\ rdy /\ here = Reads /\ Reads \ leaves(op) \subseteq A.takes
                   /\ Outports(op) \subseteq DOMAIN A.outs
      /\ ~A.done => A.takes = {} /\ ~(rdy /\ Outports(op) \subseteq DOMAIN A.outs)
  BY <1>1, PlainStep
<1>3. /\ Untouched /\ regs.already_sent = FALSE /\ gave = <<>>
      /\ here \subseteq Reads /\ (Careful(word) => here = Reads)
      /\ op \notin returns /\ op \notin global_reduce /\ op \notin base_global_reduce
  BY <1>1 DEF FuInv, Running, Underway, reports
<1>4. regs'.already_sent = FALSE
  BY <1>1, <1>3, RegistersMove DEF already_sent_to_controller
<1>5. Reads \subseteq Operand
  BY OperandsKnown DEF Reads
<1>6. CASE A.done
  <2>1. phase' = "done"
    BY <1>6 DEF Tick
  <2>2. \A i \in Reads \ leaves(op) : took'[i] = 1
    <3> SUFFICES ASSUME NEW i \in Reads \ leaves(op) PROVE took'[i] = 1
      OBVIOUS
    <3>1. i \in Operand /\ i \in here /\ i \in A.takes /\ took[i] = 0
      BY <1>2, <1>3, <1>5, <1>6 DEF Untouched
    <3> QED BY <1>1, <3>1, TickTakes
  <2>3. Len(gave') = 1
    <3>1. gave' = Append(gave, [p \in Outports(op) |-> A.outs[p]])
      BY <1>2, <1>6 DEF Tick
    <3> QED BY <1>3, <3>1, OneMessage
  <2>4. Outports(op) # {}
    BY <1>3, FirstPort
  <2> HIDE DEF A
  <2> QED BY <1>3, <1>4, <2>1, <2>2, <2>3, <2>4, TickKeepsStep DEF Running, Finished
<1>7. CASE ~A.done
  <2>1. phase' = "run" /\ gave' = <<>>
    BY <1>2, <1>3, <1>7 DEF Tick
  <2>2. here' = here
    BY <1>2, <1>7 DEF Tick
  <2>3. Untouched'
    <3>1. \A i \in Operand : took'[i] = 0
      BY <1>1, <1>2, <1>3, <1>7, TickTakes DEF Untouched
    <3> QED BY <3>1 DEF Untouched
  <2> HIDE DEF A
  <2> QED BY <1>3, <1>4, <2>1, <2>2, <2>3, TickKeepsStep DEF Running, Finished, Underway
<1> QED BY <1>6, <1>7

LEMMA ReturnTick ==
  ASSUME NoneApart, FuInv, NEW rdy \in BOOLEAN, NEW c \in BOOLEAN, Tick(rdy, c), Driven(rdy, c),
         word.op \in returns
  PROVE  /\ Running' /\ Finished'
         /\ regs'.already_done[word.addr] <=>
              \/ past.returned[word.addr]
              \/ phase' = "done" /\ args["in0"].predicate
<1> DEFINE A == FlexibleFu(rdy, c)   op == word.op   ended == regs.already_done[word.addr]
           reported == A.cmd # None /\ c
<1>1. phase = "run" /\ Shape /\ InStep /\ word.addr \in Addr /\ op \in Ops[list]
  BY StepState DEF Tick, FuInv, Loaded
<1>2. /\ op \notin global_reduce /\ op \notin base_global_reduce /\ Outports(op) = {}
      /\ Reads = {"in0"} /\ rdy = FALSE
  <2>1. Outports(op) = {}
    BY DEF Outports, returns
    <2> QED BY <2>1 DEF Reads, Operands, Driven, Offered, returns, global_reduce, local_reduce,
             base_global_reduce
<1>3. /\ Untouched /\ regs.already_sent = FALSE /\ gave = <<>> /\ told = <<>>
      /\ here \subseteq Reads /\ (Careful(word) => here = Reads)
  BY <1>1, <1>2 DEF FuInv, Running, Underway
<1>4. /\ ended \in BOOLEAN /\ (ended <=> past.returned[word.addr])
      /\ past.returned[word.addr] \in BOOLEAN
  <2>1. Ops[list] \cap returns # {}
    BY <1>1
  <2> QED BY <1>1, <2>1 DEF FuInv, Shape, ReturnsKept
<1>5. /\ A.done => here = {"in0"} /\ "in0" \in A.takes
      /\ ~A.done => A.takes = {}
      /\ A.cmd # None => ~ended /\ args["in0"].predicate /\ (c => A.done)
      /\ A.done /\ ~ended /\ args["in0"].predicate => A.cmd # None /\ c
  BY <1>1, <1>2, <1>3, <1>4, ReturnActs
<1>6. /\ reported => A.done /\ ~ended /\ args["in0"].predicate
      /\ A.done /\ ~ended /\ args["in0"].predicate => reported
  BY <1>5
<1>7. regs'.already_done[word.addr] <=> ended \/ reported
  <2>1. regs'.already_done = update_already_done(A, c)
    BY <1>1, RegistersMove
  <2>2. regs.already_done \in [Addr -> BOOLEAN]
    BY <1>1 DEF Shape
  <2> HIDE DEF A
  <2> QED BY <1>1, <2>1, <2>2 DEF update_already_done, returns
<1>8. regs'.already_sent = FALSE
  BY <1>1, <1>2, <1>3, RegistersMove DEF already_sent_to_controller
<1>9. gave' = <<>> /\ told' = (IF reported THEN Append(told, A.cmd) ELSE told)
  BY <1>2, <1>3 DEF Tick
<1>10. phase' = IF A.done THEN "done" ELSE "run"
  BY DEF Tick
<1>11. Len(told') = IF reported THEN 1 ELSE 0
  BY <1>3, <1>9
<1>12. CASE A.done
  <2>1. took'["in0"] = 1
    BY <1>1, <1>3, <1>5, <1>12, TickTakes DEF Untouched, Operand
  <2>2. Len(told') = Bool(args["in0"].predicate /\ ~past.returned[word.addr])
    BY <1>4, <1>6, <1>11, <1>12 DEF Bool
  <2>3. Len(gave') = 0
    BY <1>9
  <2>4. Finished' /\ Running'
    <3> HIDE DEF A, reported
    <3> QED BY <1>2, <1>8, <1>10, <1>12, <2>1, <2>2, <2>3, TickKeepsStep DEF Running, Finished
  <2>5. phase' = "done"
    BY <1>10, <1>12
  <2> HIDE DEF A, reported, ended
  <2> QED BY <1>4, <1>6, <1>7, <1>12, <2>4, <2>5
<1>13. CASE ~A.done
  <2>1. phase' = "run" /\ here' = here /\ told' = <<>>
    BY <1>3, <1>5, <1>6, <1>9, <1>10, <1>13 DEF Tick
  <2>2. Untouched'
    <3>1. \A i \in Operand : took'[i] = 0
      BY <1>1, <1>3, <1>5, <1>13, TickTakes DEF Untouched
    <3> QED BY <3>1 DEF Untouched
  <2>3. Running' /\ Finished'
    <3> HIDE DEF A, reported
    <3> QED BY <1>2, <1>3, <1>8, <1>9, <2>1, <2>2, TickKeepsStep DEF Running, Finished, Underway
  <2> HIDE DEF A, reported, ended
  <2> QED BY <1>4, <1>6, <1>7, <1>13, <2>1, <2>3
<1> QED BY <1>12, <1>13

LEMMA ReductionTick ==
  ASSUME NoneApart, FuInv, NEW rdy \in BOOLEAN, NEW c \in BOOLEAN, Tick(rdy, c), Driven(rdy, c),
         word.op \in global_reduce
  PROVE  Running' /\ Finished'
<1> DEFINE A == FlexibleFu(rdy, c)   op == word.op   sent == regs.already_sent
           unit == Has("VectorAllReduce")
<1>1. phase = "run" /\ Shape /\ InStep /\ sent \in BOOLEAN
  BY StepState DEF Tick, FuInv, Shape
<1>2. Reads = {"in0", "response"} /\ op \notin returns /\ c /\ "out0" \in Outports(op)
  <2>1. Careful(word)
    BY DEF Careful
  <2> QED BY <2>1, FirstPort DEF Reads, Operands, Driven, returns, global_reduce, local_reduce
<1>3. /\ "in0" \in A.takes <=> unit
      /\ "response" \in A.takes <=> unit /\ sent
      /\ A.cmd # None <=> unit /\ ~sent /\ "in0" \in here
  BY <1>1, <1>2, ContributionActs
<1>4. A.done <=> unit /\ "response" \in here
  <2>1. Ready(c) <=> unit /\ "response" \in here
    BY <1>1, ContributionActs
  <2>2. CASE ReadyFirst(op)
    <3>1. rdy
      BY <1>2, <2>2 DEF Driven, Offered, Careful
    <3> QED BY <1>1, <2>2, <3>1, ReadyFirstReduces
  <2>3. CASE ~ReadyFirst(op)
    <3>1. rdy <=> Ready(c)
      BY <1>2, <2>3 DEF Driven, Offered, Careful
    <3> QED BY <1>1, <2>1, <3>1, ContributionActs
  <2> QED BY <2>2, <2>3
<1>5. gave = <<>> /\ Contributing
  BY <1>1 DEF FuInv, Running
<1>6. Len(gave') = (IF A.done THEN 1 ELSE 0) /\ (~A.done => gave' = <<>>)
  <2>1. CASE ~unit
    <3>1. ~A.done /\ ~(rdy /\ Outports(op) \subseteq DOMAIN A.outs)
      <4>1. CASE ReadyFirst(op) /\ rdy
        BY <1>1, <1>2, <4>1, ReadyFirstReduces
      <4>2. CASE ~ReadyFirst(op) \/ ~rdy
        <5>1. ~Ready(c)
          BY <1>1, <2>1, ContributionActs
        <5> QED BY <1>4, <2>1, <4>2, <5>1 DEF Driven, Offered
      <4> QED BY <4>1, <4>2
    <3>2. gave' = <<>>
      BY <1>5, <3>1 DEF Tick
    <3> QED BY <3>1, <3>2
  <2>2. CASE unit
    <3>1. list # <<"AluGenMac">> /\ list # <<"PrlMulAdder">>
      BY <2>2 DEF Has
    <3>2. ~ReadyFirst(op) /\ Outports(op) = {"out0"}
      BY <3>1 DEF ReadyFirst, Outports, global_reduce
    <3>3. rdy <=> Ready(c)
      BY <1>2, <3>2 DEF Driven, Offered, Careful
    <3>4. rdy <=> A.done
      BY <1>1, <1>4, <3>3, ContributionActs
    <3>5. rdy => Outports(op) \subseteq DOMAIN A.outs
      BY <1>1, <3>2, <3>3, ContributionActs
    <3>6. CASE rdy
      <4>1. gave' = Append(<<>>, [p \in Outports(op) |-> A.outs[p]])
        BY <1>5, <3>5, <3>6 DEF Tick
      <4> QED BY <3>4, <3>6, <4>1, OneMessage
    <3>7. CASE ~rdy
      <4>1. gave' = <<>>
        BY <1>5, <3>7 DEF Tick
      <4> QED BY <3>4, <3>7, <4>1
    <3> QED BY <3>6, <3>7
  <2> QED BY <2>1, <2>2
<1>7. /\ here' = here \ A.takes
      /\ told' = IF A.cmd # None THEN Append(told, A.cmd) ELSE told
      /\ phase' = IF A.done THEN "done" ELSE "run"
      /\ regs'.already_sent = IF ~sent THEN A.cmd # None ELSE ~A.done
  <2>1. regs'.already_sent = already_sent_to_controller(op, sent, A.cmd # None /\ c, A.done)
    BY <1>1, RegistersMove
  <2> QED BY <1>2, <2>1 DEF Tick, already_sent_to_controller
<1>8. \A i \in Operand : took'[i] = took[i] + (IF i \in here /\ i \in A.takes THEN 1 ELSE 0)
  BY <1>1, TickTakes
<1>9. ASSUME Contributing' PROVE (phase' = "run" => Running') /\ (phase' = "run" => Finished')
  <2>1. word'.op \in global_reduce
    BY TickKeepsStep
  <2>2. phase' = "run" => gave' = <<>>
    BY <1>6, <1>7
  <2> HIDE DEF A
  <2> QED BY <1>9, <2>1, <2>2 DEF Running, Finished
<1> HIDE DEF A, unit
<1>10. CASE told = <<>> /\ ~sent /\ here = {"in0"} /\ Untouched
  <2>1. ~A.done /\ phase' = "run"
    BY <1>4, <1>7, <1>10
  <2>2. CASE unit
    <3>1. Len(told') = 1
      BY <1>3, <1>7, <1>10, <2>2, OneMessage
    <3>2. regs'.already_sent /\ here' = {}
      BY <1>3, <1>7, <1>10, <2>2
    <3>3. \A i \in Operand : took'[i] = IF i = "in0" THEN 1 ELSE 0
      BY <1>3, <1>8, <1>10, <2>2 DEF Untouched
    <3>4. Contributing'
      BY <3>1, <3>2, <3>3 DEF Contributing
    <3> QED BY <1>9, <2>1, <3>4
  <2>3. CASE ~unit
    <3>1. told' = <<>> /\ ~regs'.already_sent /\ here' = {"in0"}
      BY <1>3, <1>7, <1>10, <2>3
    <3>2. \A i \in Operand : took'[i] = 0
      BY <1>3, <1>8, <1>10, <2>3 DEF Untouched
    <3>3. Contributing'
      BY <3>1, <3>2 DEF Contributing, Untouched
    <3> QED BY <1>9, <2>1, <3>3
  <2> QED BY <2>2, <2>3
<1>11. CASE /\ Len(told) = 1 /\ sent /\ here \subseteq {"response"}
            /\ \A i \in Operand : took[i] = IF i = "in0" THEN 1 ELSE 0
  <2>1. told' = told /\ regs'.already_sent = ~A.done
    BY <1>3, <1>7, <1>11
  <2>2. CASE A.done
    <3>1. unit /\ "response" \in here /\ "response" \in A.takes
      BY <1>3, <1>4, <1>11, <2>2
    <3>2. took'["in0"] = 1 /\ took'["response"] = 1
      BY <1>8, <1>11, <3>1 DEF Operand
    <3>3. Len(gave') = 1 /\ phase' = "done" /\ Len(told') = 1 /\ ~regs'.already_sent
      BY <1>6, <1>7, <1>11, <2>1, <2>2
    <3>4. \A i \in Reads \ leaves(op) : took'[i] = 1
      BY <1>2, <3>2
    <3>5. Outports(op) # {}
      BY <1>2
    <3> QED BY <1>2, <3>3, <3>4, <3>5, TickKeepsStep DEF Running, Finished
  <2>3. CASE ~A.done
    <3>1. here' \subseteq {"response"} /\ regs'.already_sent /\ phase' = "run" /\ Len(told') = 1
      BY <1>7, <1>11, <2>1, <2>3
    <3>2. \A i \in here : i \notin A.takes
      BY <1>3, <1>4, <1>11, <2>3
    <3>3. \A i \in Operand : took'[i] = IF i = "in0" THEN 1 ELSE 0
      <4> SUFFICES ASSUME NEW i \in Operand PROVE took'[i] = IF i = "in0" THEN 1 ELSE 0
        OBVIOUS
      <4>1. took'[i] = took[i] + 0
        BY <1>8, <3>2
      <4>2. took[i] = IF i = "in0" THEN 1 ELSE 0
        BY <1>11
      <4> QED BY <4>1, <4>2
    <3>4. Contributing'
      BY <3>1, <3>3 DEF Contributing
    <3> QED BY <1>9, <3>1, <3>4
  <2> QED BY <2>2, <2>3
<1> QED BY <1>5, <1>10, <1>11 DEF Contributing

(* The registers that remember addresses and count passes.                 *)
LEMMA TickKeepsRegisters ==
  ASSUME NoneApart, FuInv, NEW rdy \in BOOLEAN, NEW c \in BOOLEAN, Tick(rdy, c), Driven(rdy, c)
  PROVE  Shape' /\ Loaded' /\ Resting' /\ FirstsKept' /\ PassesCounted'
<1> DEFINE A == FlexibleFu(rdy, c)
<1>1. /\ DOMAIN regs' = DOMAIN regs
      /\ regs'.counter = vector_factor_counter(regs.counter, 0, factor, word.last)
      /\ regs'.first = record_first_execution
      /\ regs'.already_done = update_already_done(A, c)
      /\ regs'.already_sent =
           already_sent_to_controller(word.op, regs.already_sent, A.cmd # None /\ c, A.done)
  BY RegistersMove DEF FuInv
<1>2. phase = "run" /\ phase' = IF A.done THEN "done" ELSE "run"
  BY DEF Tick
<1>3. Shape /\ word.addr \in Addr
  BY <1>2 DEF FuInv, Loaded
<1> HIDE DEF A
<1>4. Shape'
  <2>1. regs'.counter \in Nat
    <3>1. regs.counter \in Nat /\ 2^0 = 1
      BY <1>3, FactorFacts DEF Shape
    <3> QED BY <1>1, <3>1 DEF vector_factor_counter
  <2>2. regs'.already_sent \in BOOLEAN
    BY <1>1, <1>3 DEF already_sent_to_controller, Shape
  <2>3. regs'.first \in [Addr -> BOOLEAN] /\ regs'.already_done \in [Addr -> BOOLEAN]
    BY <1>1, <1>3 DEF record_first_execution, update_already_done, Shape
  <2>4. took' \in [Operand -> Nat]
    BY <1>3, TickTakes
  <2> QED BY <1>1, <1>2, <1>3, <2>1, <2>2, <2>3, <2>4, TickKeepsStep DEF Shape
<1>5. Loaded'
  BY <1>2, TickKeepsStep DEF FuInv, Loaded
<1>6. Resting'
  BY <1>2 DEF Resting
<1>7. ASSUME first_list PROVE FirstsKept' /\ PassesCounted'
  <2>1. rvf <=> Reached
    BY <1>2, <1>7, PassIsReached DEF FuInv
  <2>2. word.op \in first_words \/ word.last => phase' = "done"
    BY <1>2, <1>7, FirstTakesOneCycle DEF A
  <2>3. ASSUME NEW a \in Addr, past.ran[a] \in {None} \cup first_words
        PROVE  regs'.first[a] <=>
                 /\ past.ran[a] = None
                 /\ ~(phase' = "done" /\ a = word.addr /\ word.op \in first_words /\ Reached)
    <3>1. regs.first \in [Addr -> BOOLEAN]
      BY <1>3 DEF Shape
    <3>2. regs.first[a] <=> past.ran[a] = None
      BY <1>2, <1>7, <2>3 DEF FuInv, FirstsKept
    <3>3. regs'.first[a] <=> regs.first[a] /\ ~(a = word.addr /\ word.op \in first_words /\ rvf)
      BY <1>1, <1>3, <3>1 DEF record_first_execution, first_words
    <3> QED BY <2>1, <2>2, <3>2, <3>3
  <2>4. FirstsKept'
    BY <2>3, TickKeepsStep DEF FirstsKept
  <2>5. factor \in Nat /\ 2^factor \in Nat \ {0} /\ 2^0 = 1
    BY <1>3, FactorFacts
  <2>6. regs.counter = past.passes /\ past.passes \in Nat /\ past.passes < 2^factor
    BY <1>2, <1>3, <1>7 DEF FuInv, Shape, PassesCounted
  <2>7. regs'.counter = IF phase' = "done" /\ word.last THEN (past.passes + 1) % 2^factor
                                                       ELSE past.passes
    <3>1. CASE ~word.last
      BY <1>1, <2>6, <3>1 DEF vector_factor_counter
    <3>2. CASE word.last
      <4>1. regs'.counter = IF Reached THEN 0 ELSE past.passes + 1
        BY <1>1, <2>1, <2>5, <2>6, <3>2 DEF vector_factor_counter, rvf
      <4> DEFINE top == 2^factor
      <4>2. (past.passes + 1) % top = IF past.passes + 1 = top THEN 0 ELSE past.passes + 1
        <5> HIDE DEF top
        <5>1. top \in Nat \ {0} /\ past.passes \in Nat /\ past.passes < top
          BY <2>5, <2>6 DEF top
        <5> QED BY <5>1
      <4> QED BY <2>2, <3>2, <4>1, <4>2 DEF Reached
    <3> QED BY <3>1, <3>2
  <2>8. PassesCounted'
    BY <2>6, <2>7, TickKeepsStep DEF PassesCounted
  <2> QED BY <2>4, <2>8
<1>8. ASSUME ~first_list PROVE FirstsKept' /\ PassesCounted'
  BY <1>8, TickKeepsStep DEF FirstsKept, PassesCounted
<1> QED BY <1>4, <1>5, <1>6, <1>7, <1>8

LEMMA ClockKeeps ==
  ASSUME ~Stalls, NoneApart, FuInv, NEW ready \in BOOLEAN, NEW c \in BOOLEAN, Clock(ready, c)
  PROVE  FuInv'
<1>1. PICK rdy \in BOOLEAN : Tick(rdy, c) /\ Driven(rdy, c)
  BY ClockIsTick
<1> DEFINE A == FlexibleFu(rdy, c)
<1>2. phase = "run" /\ Shape /\ word.op \in Ops[list] /\ word.addr \in Addr
  BY <1>1 DEF Tick, FuInv, Loaded
<1>3. word.op \notin base_global_reduce
  BY <1>2, ListsAssumption DEF ProperList, Shape
<1>4. Running' /\ Finished'
  <2>1. CASE word.op \in returns
    BY <1>1, <2>1, ReturnTick
  <2>2. CASE word.op \in global_reduce
    BY <1>1, <2>2, ReductionTick
  <2>3. CASE word.op \notin reports
    BY <1>1, <2>3, PlainTick
  <2> QED BY <1>3, <2>1, <2>2, <2>3 DEF reports
<1>5. Shape' /\ Loaded' /\ Resting' /\ FirstsKept' /\ PassesCounted'
  BY <1>1, TickKeepsRegisters
<1>6. ReturnsKept'
  <2>1. ASSUME Ops[list] \cap returns # {}, NEW a \in Addr
        PROVE  regs'.already_done[a] <=>
                 \/ past.returned[a]
                 \/ phase' = "done" /\ a = word.addr /\ word.op \in returns /\ args["in0"].predicate
    <3>1. regs'.already_done = update_already_done(A, c)
      BY <1>1, <1>2, RegistersMove
    <3>2. regs.already_done \in [Addr -> BOOLEAN] /\ (regs.already_done[a] <=> past.returned[a])
      BY <1>2, <2>1 DEF FuInv, Shape, ReturnsKept
    <3> HIDE DEF A
    <3>3. ASSUME a # word.addr \/ word.op \notin returns
          PROVE  regs'.already_done[a] <=> regs.already_done[a]
      BY <1>2, <3>1, <3>2, <3>3 DEF update_already_done, returns
    <3>4. CASE a = word.addr /\ word.op \in returns
      BY <1>1, <3>4, ReturnTick
    <3> QED BY <3>2, <3>3, <3>4
  <2> QED BY <1>1, <2>1, TickKeepsStep DEF ReturnsKept
<1> QED BY <1>4, <1>5, <1>6 DEF FuInv
-----------------------------------------------------------------------------
(* The other actions.                                                      *)
LEMMA OnlyReductionsAreAnswered ==
  ASSUME NEW op, NEW ran
  PROVE  /\ op \in global_reduce => Operands(op, ran) = {"in0", "response"}
         /\ op \notin global_reduce => "response" \notin Operands(op, ran)
  BY DEF Operands, global_reduce, local_reduce, two, three, loop, with_const

LEMMA BeginKeeps ==
  ASSUME ~Stalls, NoneApart, FuInv, Begin
  PROVE  FuInv'
<1>1. PICK op \in Ops[list], a \in Addr, last \in IF factor = 0 THEN {FALSE} ELSE BOOLEAN :
        LET w == [op |-> op, addr |-> a, last |-> last]
            S == Operands(op, Ran(a)) IN
        \E f \in [S -> TokensFor(Cardinality(S))] :
          /\ Legal(w, f)
          /\ word' = w
          /\ args' = Join(f, NoArgs)
          /\ here' = IF Careful(w) /\ ~Stalls THEN S \ {"response"} ELSE {}
          /\ regs' = [regs EXCEPT !.fed = Feeds(w, f)]
  BY DEF Begin
<1> DEFINE w == [op |-> op, addr |-> a, last |-> last]
           S == Operands(op, Ran(a))
<1>2. PICK f \in [S -> TokensFor(Cardinality(S))] :
        /\ Legal(w, f)
        /\ word' = w
        /\ args' = Join(f, NoArgs)
        /\ here' = IF Careful(w) /\ ~Stalls THEN S \ {"response"} ELSE {}
        /\ regs' = [regs EXCEPT !.fed = Feeds(w, f)]
  BY <1>1
<1>3. /\ phase = "idle" /\ phase' = "run" /\ list' = list /\ factor' = factor
      /\ took' = took /\ gave' = gave /\ told' = told /\ past' = past
  BY DEF Begin, job, history
<1>4. /\ word'.op = op /\ word'.addr = a /\ word'.last = last
  BY <1>2
<1>5. Reads' = S
  BY <1>3, <1>4 DEF Reads, Operands, Ran
<1>6. (Careful(word)' <=> Careful(w)) /\ (op \in global_reduce => Careful(w))
  BY <1>2, <1>3 DEF Careful, Has
<1> HIDE DEF S
<1>7. /\ DOMAIN regs' = DOMAIN regs /\ regs'.counter = regs.counter
      /\ regs'.first = regs.first /\ regs'.already_done = regs.already_done
      /\ regs'.already_sent = regs.already_sent
  BY <1>2 DEF FuInv, Shape
<1>8. Untouched /\ gave = <<>> /\ told = <<>> /\ ~regs.already_sent
  BY <1>3 DEF FuInv, Resting
<1>9. Shape'
  BY <1>3, <1>7 DEF FuInv, Shape
<1>10. Loaded'
  <2>1. last \in BOOLEAN /\ (factor = 0 => ~last)
    OBVIOUS
  <2>2. \A i \in Operand : args'[i] # None <=> i \in S
    <3> SUFFICES ASSUME NEW i \in Operand PROVE args'[i] # None <=> i \in S
      OBVIOUS
    <3>1. DOMAIN f = S /\ DOMAIN NoArgs = Operand
      BY DEF NoArgs
    <3>2. args'[i] = IF i \in S THEN f[i] ELSE NoArgs[i]
      BY <1>2, <3>1 DEF Join
    <3>3. NoArgs[i] = None
      BY DEF NoArgs
    <3>4. ASSUME i \in S PROVE f[i] # None
      <4>1. f[i] \in TokensFor(Cardinality(S))
        BY <3>4
      <4>2. \E x, p : f[i] = Data(x, p)
        BY <4>1 DEF TokensFor
      <4> QED BY <4>2 DEF NoneApart
    <3> QED BY <3>2, <3>3, <3>4
  <2>3. op \in remembered => past.ran[a] \in {None, op}
    BY <1>2 DEF Legal
  <2> HIDE DEF w
  <2> QED BY <1>3, <1>4, <1>5, <2>1, <2>2, <2>3 DEF Loaded
<1>11. Running'
  <2>1. CASE op \in global_reduce
    <3>1. S = {"in0", "response"}
      BY <2>1, OnlyReductionsAreAnswered DEF S
    <3>2. here' = {"in0"}
      BY <1>2, <1>6, <2>1, <3>1
    <3>3. Contributing'
      BY <1>3, <1>7, <1>8, <3>2 DEF Contributing, Untouched
    <3> QED BY <1>3, <1>4, <1>8, <2>1, <3>3 DEF Running
  <2>2. CASE op \notin global_reduce
    <3>1. "response" \notin S
      BY <2>2, OnlyReductionsAreAnswered DEF S
    <3>2. here' \subseteq S /\ (Careful(w) => here' = S)
      BY <1>2, <3>1
    <3>3. Underway'
      BY <1>3, <1>5, <1>6, <1>7, <1>8, <3>2 DEF Underway, Untouched
    <3> QED BY <1>3, <1>4, <1>8, <2>2, <3>3 DEF Running
  <2> QED BY <2>1, <2>2
<1>12. Resting' /\ Finished'
  BY <1>3 DEF Resting, Finished
<1>13. ReturnsKept'
  BY <1>3, <1>7 DEF FuInv, ReturnsKept
<1>14. FirstsKept' /\ PassesCounted'
  BY <1>3, <1>7 DEF FuInv, FirstsKept, PassesCounted, first_list
<1> QED BY <1>9, <1>10, <1>11, <1>12, <1>13, <1>14 DEF FuInv

LEMMA ArriveKeeps ==
  ASSUME FuInv, NEW i \in Operand, Arrive(i)
  PROVE  FuInv'
<1>1. /\ phase = "run" /\ args[i] # None /\ i \notin here /\ took[i] = 0
      /\ i = "response" => told # <<>>
      /\ here' = here \cup {i}
      /\ list' = list /\ factor' = factor /\ phase' = phase /\ word' = word /\ args' = args
      /\ regs' = regs /\ took' = took /\ gave' = gave /\ told' = told /\ past' = past
  BY DEF Arrive, job, step, history
<1>2. i \in Reads
  BY <1>1 DEF FuInv, Loaded
<1>3. Reads' = Reads /\ (Careful(word)' <=> Careful(word))
  BY <1>1 DEF Reads, Operands, Ran, Careful, Has
<1>4. Running'
  <2>1. CASE word.op \in global_reduce
    <3>1. i \in {"in0", "response"}
      BY <1>2, <2>1, OnlyReductionsAreAnswered DEF Reads
    <3>2. Contributing'
      BY <1>1, <2>1, <3>1 DEF FuInv, Running, Contributing, Untouched
    <3> QED BY <1>1, <2>1, <3>2 DEF FuInv, Running
  <2>2. CASE word.op \notin global_reduce
    <3>1. Underway'
      BY <1>1, <1>2, <1>3, <2>2 DEF FuInv, Running, Underway, Untouched
    <3> QED BY <1>1, <2>2, <3>1 DEF FuInv, Running
  <2> QED BY <2>1, <2>2
<1>5. Shape' /\ Loaded' /\ Resting' /\ Finished'
  BY <1>1, <1>3 DEF FuInv, Shape, Loaded, Resting, Finished
<1>6. ReturnsKept' /\ FirstsKept' /\ PassesCounted'
  BY <1>1 DEF FuInv, ReturnsKept, FirstsKept, PassesCounted, first_list, Reached
<1> QED BY <1>4, <1>5, <1>6 DEF FuInv

LEMMA EndKeeps ==
  ASSUME NoneApart, FuInv, End
  PROVE  FuInv'
<1>1. /\ phase = "done" /\ phase' = "idle" /\ list' = list /\ factor' = factor /\ regs' = regs
      /\ took' = [i \in Operand |-> 0] /\ gave' = <<>> /\ told' = <<>>
  BY DEF End, job
<1>2. Shape /\ word.op \in Ops[list] /\ word.addr \in Addr /\ ~regs.already_sent
  BY <1>1 DEF FuInv, Loaded, Finished
<1>3. /\ DOMAIN past' = DOMAIN past
      /\ past'.ran = [past.ran EXCEPT ![word.addr] =
                        IF word.op \in remembered /\ Reached THEN word.op ELSE @]
      /\ past'.returned = [past.returned EXCEPT ![word.addr] =
                             @ \/ (word.op \in returns /\ args["in0"].predicate /\ Reached)]
      /\ past'.passes = IF word.last THEN (past.passes + 1) % 2^factor ELSE past.passes
  BY <1>2 DEF End, Shape, Reached, returns
<1>4. factor \in Nat /\ 2^factor \in Nat \ {0} /\ 2^0 = 1 /\ past.passes \in Nat
  BY <1>2, FactorFacts DEF Shape
<1>5. past'.passes \in Nat /\ (factor = 0 => past'.passes = 0)
  <2>1. factor = 0 => ~word.last /\ past.passes = 0
    BY <1>1, <1>2 DEF FuInv, Loaded, Shape
  <2> DEFINE top == 2^factor
  <2>2. (past.passes + 1) % top \in Nat
    <3> HIDE DEF top
    <3>1. top \in Nat \ {0}
      BY <1>4 DEF top
    <3> QED BY <1>4, <3>1
  <2> QED BY <1>3, <1>4, <2>1, <2>2
<1>6. Shape'
  <2>1. past'.returned \in [Addr -> BOOLEAN]
    BY <1>2, <1>3 DEF Shape
  <2>2. DOMAIN past'.ran = Addr
    BY <1>2, <1>3 DEF Shape
  <2>3. took' \in [Operand -> Nat]
    BY <1>1
  <2> QED BY <1>1, <1>2, <1>3, <1>5, <2>1, <2>2, <2>3 DEF Shape
<1>7. Resting'
  BY <1>1, <1>2 DEF Resting, Untouched
<1>8. ReturnsKept'
  <2> SUFFICES ASSUME Ops[list] \cap returns # {}, NEW a \in Addr
               PROVE  regs.already_done[a] <=> past'.returned[a]
    BY <1>1 DEF ReturnsKept
  <2>1. Reached
    <3>1. factor = 0
      BY <1>2, ListsAssumption DEF ProperList, Shape
    <3> QED BY <1>2, <1>4, <3>1 DEF Shape, Reached
  <2>2. regs.already_done[a] <=>
          \/ past.returned[a]
          \/ a = word.addr /\ word.op \in returns /\ args["in0"].predicate
    BY <1>1 DEF FuInv, ReturnsKept
  <2>3. past.returned \in [Addr -> BOOLEAN]
    BY <1>2 DEF Shape
  <2>4. past'.returned[a] <=>
          \/ past.returned[a]
          \/ a = word.addr /\ word.op \in returns /\ args["in0"].predicate
    BY <1>2, <1>3, <2>1, <2>3
  <2> QED BY <2>2, <2>4
<1>9. ASSUME first_list PROVE FirstsKept' /\ PassesCounted'
  <2>1. past.passes < 2^factor /\ regs.counter = past'.passes
    BY <1>1, <1>3, <1>9 DEF FuInv, PassesCounted
  <2>2. past'.passes < 2^factor
    <3> DEFINE top == 2^factor
    <3>1. (past.passes + 1) % top < top
      <4> HIDE DEF top
      <4>1. top \in Nat \ {0}
        BY <1>4 DEF top
      <4> QED BY <1>4, <4>1
    <3> QED BY <1>3, <2>1, <3>1
  <2>3. PassesCounted'
    BY <1>1, <2>1, <2>2 DEF PassesCounted
  <2>4. ASSUME NEW a \in Addr, past'.ran[a] \in {None} \cup first_words
        PROVE  regs.first[a] <=> past'.ran[a] = None
    <3>1. word.op \in remembered => past.ran[word.addr] \in {None, word.op}
      BY <1>1 DEF FuInv, Loaded
    <3>2. first_words \subseteq remembered /\ None \notin remembered
      BY DEF NoneApart, first_words, remembered
    <3>3. past.ran[a] \in {None} \cup first_words =>
            (regs.first[a] <=> past.ran[a] = None /\ ~(a = word.addr /\ word.op \in first_words /\ Reached))
      BY <1>1, <1>9 DEF FuInv, FirstsKept
    <3>4. CASE a = word.addr /\ word.op \in remembered /\ Reached
      <4>1. past'.ran[a] = word.op
        BY <1>2, <1>3, <3>4 DEF Shape
      <4>2. word.op \in first_words
        BY <2>4, <3>2, <3>4, <4>1
      <4> QED BY <3>1, <3>2, <3>3, <3>4, <4>1, <4>2
    <3>5. CASE ~(a = word.addr /\ word.op \in remembered /\ Reached)
      <4>1. past'.ran[a] = past.ran[a]
        BY <1>2, <1>3, <3>5 DEF Shape
      <4> QED BY <2>4, <3>2, <3>3, <3>5, <4>1
    <3> QED BY <3>4, <3>5
  <2>5. FirstsKept'
    BY <1>1, <2>4 DEF FirstsKept
  <2> QED BY <2>3, <2>5
<1>10. ASSUME ~first_list PROVE FirstsKept' /\ PassesCounted'
  BY <1>1, <1>10 DEF FirstsKept, PassesCounted, first_list
<1>11. Loaded' /\ Running' /\ Finished'
  BY <1>1 DEF Loaded, Running, Finished
<1> QED BY <1>6, <1>7, <1>8, <1>9, <1>10, <1>11 DEF FuInv

LEMMA ClearKeeps ==
  ASSUME FuInv, Clear
  PROVE  FuInv'
<1>1. /\ phase = "idle" /\ phase' = phase /\ list' = list /\ factor' = factor /\ word' = word
      /\ took' = took /\ gave' = gave /\ told' = told /\ Shape
  BY DEF Clear, job, step, history, FuInv
<1>2. /\ DOMAIN regs' = DOMAIN regs /\ regs'.already_sent = regs.already_sent
      /\ regs'.counter = 0 /\ regs'.first = [a \in Addr |-> TRUE]
      /\ regs'.already_done = [a \in Addr |-> FALSE]
  BY <1>1 DEF Clear, Shape
<1>3. /\ DOMAIN past' = DOMAIN past /\ past'.passes = 0
      /\ past'.ran = [a \in Addr |-> None] /\ past'.returned = [a \in Addr |-> FALSE]
  BY <1>1 DEF Clear, Shape
<1>4. 0 < 2^factor
  <2> DEFINE top == 2^factor
  <2>1. top \in Nat \ {0}
    BY <1>1, FactorFacts
  <2> HIDE DEF top
  <2> QED BY <2>1 DEF top
<1>5. Shape' /\ Resting'
  BY <1>1, <1>2, <1>3 DEF FuInv, Shape, Resting, Untouched
<1>6. Loaded' /\ Running' /\ Finished'
  BY <1>1 DEF Loaded, Running, Finished
<1>7. ReturnsKept' /\ FirstsKept' /\ PassesCounted'
  BY <1>1, <1>2, <1>3, <1>4 DEF ReturnsKept, FirstsKept, PassesCounted
<1> QED BY <1>5, <1>6, <1>7 DEF FuInv

LEMMA StrideKeeps ==
  ASSUME FuInv, update_stride
  PROVE  FuInv'
<1>1. /\ phase = "idle" /\ phase' = phase /\ list' = list /\ factor' = factor /\ word' = word
      /\ took' = took /\ gave' = gave /\ told' = told /\ past' = past /\ Shape
  BY DEF update_stride, job, step, history, FuInv
<1>2. /\ DOMAIN regs' = DOMAIN regs /\ regs'.already_sent = regs.already_sent
      /\ regs'.counter = regs.counter /\ regs'.first = regs.first
      /\ regs'.already_done = regs.already_done
  BY <1>1 DEF update_stride, Shape
<1>3. Shape' /\ Resting'
  BY <1>1, <1>2 DEF FuInv, Shape, Resting, Untouched
<1>4. Loaded' /\ Running' /\ Finished'
  BY <1>1 DEF Loaded, Running, Finished
<1>5. ReturnsKept' /\ FirstsKept' /\ PassesCounted'
  BY <1>1, <1>2 DEF FuInv, ReturnsKept, FirstsKept, PassesCounted, first_list
<1> QED BY <1>3, <1>4, <1>5 DEF FuInv

LEMMA FuInit ==
  ASSUME Init
  PROVE  FuInv
<1>1. factor \in Nat /\ 2^factor \in Nat \ {0}
  BY ListsAssumption DEF Init, ProperList
<1>2. 0 < 2^factor
  <2> DEFINE top == 2^factor
  <2> HIDE DEF top
  <2> QED BY <1>1 DEF top
<1>3. Shape /\ Resting
  BY DEF Init, Shape, Resting, Untouched
<1>4. Loaded /\ Running /\ Finished
  BY DEF Init, Loaded, Running, Finished
<1>5. ReturnsKept /\ FirstsKept /\ PassesCounted
  BY <1>2 DEF Init, ReturnsKept, FirstsKept, PassesCounted
<1> QED BY <1>3, <1>4, <1>5 DEF FuInv

(* The invariant holds as long as nothing stalls the words that cannot be  *)
(* stalled.                                                                *)
THEOREM FuInvariance ==
  ASSUME ~Stalls, NoneApart
  PROVE  Spec => []FuInv
<1>1. FuInv /\ [Next]_vars => FuInv'
  <2> SUFFICES ASSUME FuInv, [Next]_vars PROVE FuInv'
    OBVIOUS
  <2>1. CASE Begin
    BY <2>1, BeginKeeps
  <2>2. CASE \E i \in Operand : Arrive(i)
    BY <2>2, ArriveKeeps
  <2>3. CASE \E r, c \in BOOLEAN : Clock(r, c)
    BY <2>3, ClockKeeps
  <2>4. CASE End
    BY <2>4, EndKeeps
  <2>5. CASE Clear
    BY <2>5, ClearKeeps
  <2>6. CASE update_stride
    BY <2>6, StrideKeeps
  <2>7. CASE UNCHANGED vars
    <3>1. /\ list' = list /\ factor' = factor /\ phase' = phase /\ word' = word /\ args' = args
          /\ here' = here /\ regs' = regs /\ took' = took /\ gave' = gave /\ told' = told
          /\ past' = past
      BY <2>7 DEF vars, job, step, history
    <3>2. Shape' /\ Loaded' /\ Resting'
      BY <3>1 DEF FuInv, Shape, Loaded, Resting, Untouched, Reads, Operands, Ran
    <3>3. Running'
            BY <3>1 DEF FuInv, Running, Contributing, Underway, Untouched, Reads, Operands, Ran,
         Careful, Has
    <3>4. Finished'
      BY <3>1 DEF FuInv, Finished, Reads, Operands, Ran, leaves, Outports
    <3>5. ReturnsKept' /\ FirstsKept' /\ PassesCounted'
      BY <3>1 DEF FuInv, ReturnsKept, FirstsKept, PassesCounted, first_list, Reached
    <3> QED BY <3>2, <3>3, <3>4, <3>5 DEF FuInv
  <2> QED BY <2>1, <2>2, <2>3, <2>4, <2>5, <2>6, <2>7 DEF Next
<1> QED BY <1>1, FuInit, PTL DEF Spec

(* A finished step did each of its parts once, in whatever order operands  *)
(* came and receivers were ready (FlexibleFu,                              *)
(* fu/flexible/FlexibleFuRTL.py, line 135).                                *)
THEOREM StepsActOnce ==
  ASSUME ~Stalls, NoneApart
  PROVE  Spec => []ActsOncePerStep
<1>1. FuInv => ActsOncePerStep
  <2> SUFFICES ASSUME FuInv PROVE ActsOncePerStep
    OBVIOUS
  <2>1. ASSUME phase = "run", NEW i \in Operand PROVE took[i] <= 1
    BY <2>1 DEF FuInv, Running, Contributing, Underway, Untouched
  <2> QED BY <2>1 DEF FuInv, Finished, ActsOncePerStep, Reads, returns
<1> QED BY <1>1, FuInvariance, PTL
=============================================================================
