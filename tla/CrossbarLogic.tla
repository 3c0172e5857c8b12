--------------------------- MODULE CrossbarLogic ---------------------------
(***************************************************************************)
(* The combinational part of noc/CrossbarRTL.py, as operators on sets of   *)
(* ports.  In one cycle the crossbar sees                                  *)
(*   dir         the source of each outport (crossbar_outport), or None    *)
(*   prologue    the inports whose prologue at this ctrl address is not    *)
(*               over yet                                                  *)
(*   val         the inports that offer a message                          *)
(*   rdy         the outports whose receiver is ready                      *)
(*   accepted    send_accepted: the outports already served in this step   *)
(*   done        compute_done                                              *)
(***************************************************************************)
CONSTANTS
  In,          (* inports                                                  *)
  Out,         (* outports                                                 *)
  LocalOut,    (* outports >= outport_towards_local_base_id, towards the   *)
               (* FU operands and the register banks                       *)
  None         (* an outport that nothing drives                           *)

ASSUME CrossbarLogicAssumption == LocalOut \subseteq Out /\ None \notin In

Route == [Out -> In \cup {None}]

(* Outports that must be served, and inports that must be consumed: a port *)
(* in its prologue is bypassed on both sides.                              *)
send_required(dir, prologue) == {o \in Out : dir[o] # None /\ dir[o] \notin prologue}
recv_required(dir, prologue) == {dir[o] : o \in send_required(dir, prologue)}

(* reduce_and(recv_valid_or_during_prologue_allowing_vector): nothing      *)
(* moves before every required input is there.                             *)
all_recv_valid(dir, prologue, val) == recv_required(dir, prologue) \subseteq val

(* An output is satisfied when it was served in an earlier cycle, is being *)
(* served now, or leads to the FU after the FU has finished.               *)
Bug_all_send_accepted(dir, prologue, rdy, accepted, done) ==
  \A o \in send_required(dir, prologue) : o \in accepted \cup rdy \/ done

Bug_all_at_once(dir, prologue, rdy, accepted, done) ==   \* no memory
  send_required(dir, prologue) \subseteq rdy

all_send_accepted(dir, prologue, rdy, accepted, done) ==
  \A o \in send_required(dir, prologue) \ accepted :
    o \in rdy \/ (done /\ o \in LocalOut)

(* send_data[i].val                                                        *)
Bug_offered(dir, prologue, val, accepted) ==
  IF all_recv_valid(dir, prologue, val) THEN send_required(dir, prologue) ELSE {}

offered(dir, prologue, val, accepted) ==
  IF all_recv_valid(dir, prologue, val)
    THEN send_required(dir, prologue) \ accepted ELSE {}

(* recv_opt.rdy: the crossbar's part of the step is over.                  *)
opt_rdy(dir, prologue, val, rdy, accepted, done) ==
  /\ all_recv_valid(dir, prologue, val)
  /\ all_send_accepted(dir, prologue, rdy, accepted, done)

(* recv_data[i].rdy: the inputs are consumed together, at the end.         *)
dequeued(dir, prologue, val, rdy, accepted, done) ==
  IF opt_rdy(dir, prologue, val, rdy, accepted, done)
    THEN recv_required(dir, prologue) ELSE {}

Bug_send_accepted_next(dir, prologue, val, rdy, accepted, done) ==
  IF opt_rdy(dir, prologue, val, rdy, accepted, done) THEN {}
    ELSE accepted \cup offered(dir, prologue, val, accepted)   \* rdy ignored

(* send_accepted_next while a step is active.                              *)
send_accepted_next(dir, prologue, val, rdy, accepted, done) ==
  IF opt_rdy(dir, prologue, val, rdy, accepted, done) THEN {}
    ELSE accepted \cup (offered(dir, prologue, val, accepted) \cap rdy)
=============================================================================
