------------------------------ MODULE PartsMC -------------------------------
(***************************************************************************)
(* The parts that are complete on their own, for model checking: queues,   *)
(* channel, crossbar and global reduce unit.  The initial state picks one  *)
(* of them; its clock runs and the others stay as they are after reset.    *)
(* Crossbar, links and reduce unit are extended, and keep their names.     *)
(***************************************************************************)
EXTENDS Crossbar, Links, ReduceUnit

VARIABLE
  design                         (* whose clock runs; never changes        *)

ring == <<head, tail, count, regs, inp, out, cleared, offer>>
one == <<full, entry, inp1, out1, cleared1>>
chain == <<queues, send_rdy, inp2, out2, cleared2>>
reduce == <<target_count, receiving_count, sending_count, queue, reduce_add_value,
            reduce_mul_value, waiting, result>>
allvars == <<design, kind, ring, one, chain, vars, reduce>>
-----------------------------------------------------------------------------
(* Three contributors: a round of sums that overflows, one of products and *)
(* another of sums.                                                        *)
MCTile == {"tile1", "tile2", "tile3"}
MCCmd == <<"ADD", "MUL", "ADD">>
MCOperand == <<[tile1 |-> 3, tile2 |-> 5, tile3 |-> 6],
               [tile1 |-> 3, tile2 |-> 5, tile3 |-> 7],
               [tile1 |-> 1, tile2 |-> 0, tile3 |-> 4]>>

(* What a part whose clock does not run is like, where reset leaves it     *)
(* open.                                                                   *)
Some(S) == CHOOSE x \in S : TRUE

Idle(d) ==
  CASE d = "ring"     -> \A s \in Slots : regs[s] = Some(Msg)
    [] d = "one"      -> entry = Some(Msg)
    [] d = "channel"  -> ~send_rdy
    [] d = "crossbar" -> /\ route = Some([Addr -> Route])
                         /\ limit = Some([Addr -> [In -> 0 .. MaxPrologue]])
                         /\ addr = Some(Addr) /\ rdy = {}
    [] d = "reduce"   -> TRUE

Designs == {"ring", "one", "channel", "crossbar", "reduce"}

MCInit ==
  /\ design \in Designs
  /\ RingInit /\ One!Init /\ Chain!Init /\ Init /\ Reduce!Init
  /\ \A d \in Designs \ {design} : Idle(d)
  /\ design = "channel" => kind \in {"normal", "clear"}
  /\ design \notin {"ring", "one", "channel"} => kind = "clear"

RingCycle == design = "ring" /\ RingNext /\ UNCHANGED <<design, one, chain, vars, reduce>>
OneCycle == design = "one" /\ One!Next /\ UNCHANGED <<design, ring, chain, vars, reduce>>
ChannelCycle ==
  design = "channel" /\ UNCHANGED <<design, kind, ring, one, vars, reduce>> /\ Chain!Next
CrossbarCycle ==
  design = "crossbar" /\ Next /\ UNCHANGED <<design, kind, ring, one, chain, reduce>>
ReduceCycle(arrives, ready) ==
  /\ design = "reduce"
  /\ arrives \in Reduce!Offering \cup {"count", NoTile}
  /\ Reduce!Cycle(arrives, ready)
  /\ UNCHANGED <<design, kind, ring, one, chain, vars>>

MCNext ==
  \/ RingCycle \/ OneCycle \/ ChannelCycle \/ CrossbarCycle
  \/ \E arrives \in Tile \cup {"count", NoTile}, ready \in BOOLEAN : ReduceCycle(arrives, ready)

(* The clock runs.  The receivers of the channel and of the crossbar are   *)
(* ready again and again, though perhaps never two together; the inports   *)
(* of the crossbar get data.  The reduce unit gets the count, every        *)
(* contribution comes up at its port and its answers are taken.            *)
MCSpec ==
  /\ MCInit /\ [][MCNext]_allvars
  /\ WF_allvars(ChannelCycle) /\ WF_allvars(CrossbarCycle)
  /\ []<>(design = "channel" => send_rdy)
  /\ \A o \in Out : []<>(design = "crossbar" => o \in rdy)
  /\ \A i \in In : []<>(design = "crossbar" => recv_data[i] # Empty)
  /\ \A t \in Tile \cup {"count"} : WF_allvars(\E ready \in BOOLEAN : ReduceCycle(t, ready))
  /\ WF_allvars(\E t \in Tile \cup {"count", NoTile} : ReduceCycle(t, TRUE))
-----------------------------------------------------------------------------
(* Every round is answered to every contributor (GlobalReduce).            *)
RoundsComplete == design = "reduce" => Reduce!RoundsComplete
=============================================================================
