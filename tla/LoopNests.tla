----------------------------- MODULE LoopNests -----------------------------
(* Configurations of loop nests: the topologies of LoopControllerRTL_test. *)
EXTENDS Sequences, Integers

Local(a) == [addr |-> a, remote |-> FALSE, shadow |-> FALSE]
Remote(a) == [addr |-> a, remote |-> TRUE, shadow |-> FALSE]
Delivery(a) == [addr |-> a, remote |-> FALSE, shadow |-> TRUE]

Ccu(c, lower, upper, step, child_count, root, parent) ==
  << [cmd |-> "LOWER", ccu |-> c, n |-> lower],
     [cmd |-> "UPPER", ccu |-> c, n |-> upper],
     [cmd |-> "STEP", ccu |-> c, n |-> step],
     [cmd |-> "CHILD_COUNT", ccu |-> c, n |-> child_count],
     [cmd |-> "PARENT", ccu |-> c, root |-> root, parent |-> parent] >>

Targets(c, ts) == [i \in 1 .. Len(ts) |-> [cmd |-> "TARGET", ccu |-> c, target |-> ts[i]]]

Launch == << [cmd |-> "LAUNCH"] >>

(* test_sibling_barrier, with a delivery counter.                          *)
Barrier == Ccu(0, 0, 2, 1, 2, TRUE, 0)
             \o Targets(0, <<Local(0), Delivery(2), Local(1)>>) \o Launch

(* Two independent chains; the step of the second does not divide its range*)
Chains == Ccu(0, 0, 3, 1, 1, TRUE, 0) \o Targets(0, <<Local(0)>>)
            \o Ccu(1, 1, 4, 2, 1, TRUE, 0) \o Targets(1, <<Local(1), Delivery(2)>>) \o Launch

(* test_cross_cgra_2_layer_loop.                                           *)
CrossCgra == Ccu(0, 0, 3, 1, 1, TRUE, 0) \o Targets(0, <<Remote(0), Delivery(2)>>) \o Launch

(* test_3_layer_loop with outer trip counts n.                             *)
ThreeLayers(n) ==
  Ccu(0, 0, n, 1, 1, TRUE, 0) \o Targets(0, <<Delivery(1)>>)
    \o Ccu(1, 0, 3, 1, 1, FALSE, 0) \o Targets(1, <<Local(0), Delivery(2)>>) \o Launch

(* An outer loop over two inner ones, each with a leaf of its own.         *)
SubNests == Ccu(0, 0, 1, 1, 2, TRUE, 0) \o Targets(0, <<Delivery(2)>>)
              \o Ccu(1, 0, 2, 1, 1, FALSE, 0) \o Targets(1, <<Local(0)>>)
              \o Ccu(2, 0, 3, 1, 1, FALSE, 0) \o Targets(2, <<Local(1)>>) \o Launch

(* One CCU over a local and a remote leaf.                                 *)
MixedBarrier == Ccu(0, 0, 2, 1, 2, TRUE, 0) \o Targets(0, <<Local(0), Remote(1)>>) \o Launch

PassingNests == {Barrier, Chains, CrossCgra, ThreeLayers(1), SubNests}
ThreeLayerNest == {ThreeLayers(2)}
MixedNest == {MixedBarrier}
=============================================================================
