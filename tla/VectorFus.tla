------------------------------ MODULE VectorFus ------------------------------
(***************************************************************************)
(* The vector units (fu/vector): a payload is Lanes numbers of B bits, or  *)
(* one number of W bits.  None of them looks at reached_vector_factor, and *)
(* two of them hand on the readiness of the receiver whatever the word is. *)
(***************************************************************************)
EXTENDS ScalarFus

LaneIds == 0..(Lanes - 1)

FromLanes(f) == MapThenSumSet(LAMBDA i : f[i] * 2^(i * B), LaneIds)

Carry(sum) == (sum \div 2^B) % 2

(* VectorAdderRTL: one lane, a bit wider than its operands so that the top *)
(* bit of the result is the carry (or the borrow) for the next lane.       *)
Bug_VectorAdder(op, x, y, carry_in, combine) ==  \* a borrow that adds
  (IF op = "ADD" THEN x + y + carry_in ELSE x - y + carry_in) % 2^(B + 1)

VectorAdder(op, x, y, carry_in, combine) ==
  LET c == IF combine THEN carry_in ELSE 0 IN
  (IF op = "ADD" THEN x + y + c ELSE x - y - c) % 2^(B + 1)

AdderChain(op, a, b, combine) ==
  LET sum[i \in LaneIds] ==
        VectorAdder(op, Lane(a, i), Lane(b, i), IF i = 0 THEN 0 ELSE Carry(sum[i - 1]), combine)
  IN FromLanes([i \in LaneIds |-> sum[i] % 2^B])

(* VEC_ADD_CONST_COMBINED asks for VEC_ADD_COMBINED and so never combines. *)
VectorAdderCombo(op, t, rdy) ==
  LET a == t["in0"].payload   b == t["in1"].payload   c == t["const"].payload
      alone(x) == OpIf(t, rdy, with_const, x, t["in0"].predicate) IN
  CASE op = "VEC_ADD"                -> Op(t, rdy, TRUE, two, AdderChain("ADD", a, b, FALSE))
    [] op = "VEC_ADD_COMBINED"       -> Op(t, rdy, TRUE, two, AdderChain("ADD", a, b, TRUE))
    [] op = "VEC_SUB"                -> Op(t, rdy, TRUE, two, AdderChain("SUB", a, b, FALSE))
    [] op = "VEC_SUB_COMBINED"       -> Op(t, rdy, TRUE, two, AdderChain("SUB", a, b, TRUE))
    [] op \in {"VEC_ADD_CONST", "VEC_ADD_CONST_COMBINED"} ->
                                        alone(AdderChain("ADD", a, c, FALSE))
    [] op = "VEC_SUB_CONST"          -> alone(AdderChain("SUB", a, c, FALSE))
    [] op = "VEC_SUB_CONST_COMBINED" -> alone(AdderChain("SUB", a, c, TRUE))
    [] OTHER                         -> Quiet

VectorMul(x, y) == x * y             \* VectorMulRTL: 2 * B bits

(* VEC_MUL adds the products at their lanes' places; VEC_MUL_COMBINED      *)
(* multiplies the lower two lanes of both operands from four lane products.*)
VectorMulCombo(op, t, rdy) ==
  LET a(i) == Lane(t["in0"].payload, i)
      b(i) == Lane(t["in1"].payload, i)
      combined == VectorMul(a(0), b(0)) + (VectorMul(a(0), b(1)) + VectorMul(a(1), b(0))) * 2^B
                  + VectorMul(a(1), b(1)) * 2^(2 * B)
      separate == MapThenSumSet(LAMBDA i : VectorMul(a(i), b(i)) * 2^(i * B), 0..3) IN
  CASE op = "VEC_MUL"          -> Op(t, rdy, TRUE, two, separate % M)
    [] op = "VEC_MUL_COMBINED" -> Op(t, rdy, TRUE, two, combined % M)
    [] OTHER                   -> [Quiet EXCEPT !.done = rdy]

SumUnit(x) == MapThenSumSet(LAMBDA i : Lane(x, i), LaneIds) % M

ReduceMulUnit(x) ==
  LET product[i \in LaneIds] ==
        (Lane(x, i) * (IF i = 0 THEN 1 ELSE product[i - 1])) % M
  IN product[Lanes - 1]

local_reduce == {"VEC_REDUCE_ADD", "VEC_REDUCE_MUL"}
base_reduce == {"VEC_REDUCE_ADD_BASE", "VEC_REDUCE_MUL_BASE"}
global_reduce == {"VEC_REDUCE_ADD_GLOBAL", "VEC_REDUCE_MUL_GLOBAL"}
base_global_reduce == {"VEC_REDUCE_ADD_BASE_GLOBAL", "VEC_REDUCE_MUL_BASE_GLOBAL"}

(* A local reduction ends here; a global one sends the sum to the          *)
(* controller (for a product the adder's output, 0), and ends with the     *)
(* response once already_sent_to_controller.  With a base, it sends again  *)
(* in every cycle both operands are there.                                 *)
VectorAllReduce(op, t, rdy, ctrl_rdy, already_sent) ==
  LET a == t["in0"].payload   b == t["in1"].payload   r == t["response"].payload
      value == CASE op = "VEC_REDUCE_ADD"             -> SumUnit(a)
                 [] op = "VEC_REDUCE_ADD_BASE"        -> SumUnit(a) + b
                 [] op = "VEC_REDUCE_MUL"             -> ReduceMulUnit(a)
                 [] op = "VEC_REDUCE_MUL_BASE"        -> ReduceMulUnit(a) * b
                 [] op \in global_reduce              -> r
                 [] op = "VEC_REDUCE_ADD_BASE_GLOBAL" -> r + b
                 [] op = "VEC_REDUCE_MUL_BASE_GLOBAL" -> r * b
      reads == CASE op \in local_reduce       -> {"in0"}
                 [] op \in base_reduce        -> two
                 [] op \in global_reduce      -> {"response"}
                 [] op \in base_global_reduce -> {"response", "in1"}
      p == CASE op \in global_reduce      -> FALSE
             [] op \in base_global_reduce -> Granted(t, {"response", "in1"})
             [] OTHER                     -> Granted(t, reads)
      sends == \/ op \in global_reduce /\ ~already_sent /\ t["in0"] # None
               \/ op \in base_global_reduce /\ All(t, two)
      takes == {i \in DOMAIN t :
                  \/ i \in reads /\ rdy /\ op \in local_reduce \cup base_reduce
                  \/ i = "in0" /\ ctrl_rdy /\ op \in global_reduce \cup base_global_reduce
                  \/ i = "in1" /\ ctrl_rdy /\ op = "VEC_REDUCE_MUL_BASE_GLOBAL"
                  \/ i = "response" /\ already_sent}
  IN
  IF op \in local_reduce \cup base_reduce \cup global_reduce \cup base_global_reduce
  THEN
       [outs  |-> IF All(t, reads) THEN [out0 |-> Data(value % M, p)] ELSE <<>>,
        takes |-> takes, done |-> rdy,
        cmd   |-> IF ~sends THEN None
                  ELSE IF op \in {"VEC_REDUCE_ADD_GLOBAL", "VEC_REDUCE_ADD_BASE_GLOBAL"}
                  THEN <<"GLOBAL_REDUCE_ADD", SumUnit(a)>> ELSE <<"GLOBAL_REDUCE_MUL", 0>>]
  ELSE [Quiet EXCEPT !.done = rdy]

(* update_already_sent_to_controller.                                      *)
already_sent_to_controller(op, sent, sends, done) ==
  IF op \notin global_reduce \cup base_global_reduce THEN sent
  ELSE IF ~sent THEN sends ELSE ~done
=============================================================================
