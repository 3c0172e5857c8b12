----------------------------- MODULE DataMemory -----------------------------
(***************************************************************************)
(* The scratchpads of a multi-CGRA: every CGRA's banks behind a read, a    *)
(* write and a response crossbar (mem/data/DataMemControllerRTL.py), the   *)
(* tiles' memory units and the DMA engine in front of them, and the way of *)
(* remote accesses and of the CPU's through the controllers and the        *)
(* network (controller/ControllerRTL.py).                                  *)
(*                                                                         *)
(* One action per handshake.  A queue behind a queue is one queue; what a  *)
(* bypass queue lets through in the cycle it came is an action right after *)
(* the other; of accesses in one cycle, reads come before writes.          *)
(***************************************************************************)
EXTENDS Integers, Sequences, FiniteSets

CONSTANTS
  NumCgras,
  num_rd_tiles,      (* tile ports per CGRA                                *)
  num_banks,
  bank_size,         (* data_mem_size_per_bank                             *)
  Host,              (* the CGRA whose controller has the CPU              *)
  Capacity,          (* of every queue                                     *)
  Requesters,        (* the ports in use: <<cgra, port>>, and the CPU      *)
  Targets,           (* the addresses each of them uses                    *)
  MaxLoads,          (* of all requesters together                         *)
  MaxStores,         (* of each of them                                    *)
  None

ASSUME MemoryAssumption ==
  /\ {NumCgras, num_rd_tiles, num_banks, bank_size, Capacity} \subseteq Nat \ {0}
  /\ Host \in 0..(NumCgras - 1)

Cgra == 0..(NumCgras - 1)
Noc == num_rd_tiles                 \* crossbar ports behind the tiles'
Dma == num_rd_tiles + 1
Port == 0..Dma
Bank == 0..(num_banks - 1)
Away == num_banks                   \* the outport towards the controller
Cpu == num_rd_tiles + 2             \* not a port: src_tile_id = num_tiles

Address == 0..(NumCgras * num_banks * bank_size - 1)

VARIABLES
  rd,          (* read_crossbar.recv                                       *)
  wr,          (* write_crossbar.recv                                      *)
  resp,        (* response_crossbar.recv: the banks, and from the NoC      *)
  memory,      (* the register files of the wrappers                       *)
  out,         (* the controller's queues towards the NoC                  *)
  net,         (* packets between two controllers, in order                *)
  ask,         (* the address a requester waits for                        *)
  issued,      (* stores of a requester so far (history)                   *)
  seen,        (* what that address held while it waited (history)         *)
  landed,      (* the last store of a requester at an address (history)    *)
  loads        (* their number, for MaxLoads                               *)

queues == <<rd, wr, resp, out, net>>
history == <<issued, seen, landed, loads>>
vars == <<queues, memory, ask, history>>

Room(q) == Len(q) < Capacity
-----------------------------------------------------------------------------
(* Every CGRA owns a range of addresses, dealt to its banks in blocks.     *)
address_lower(c) == c * num_banks * bank_size
address_upper(c) == address_lower(c) + num_banks * bank_size - 1

Bug_bank_index(c, a) ==       \* the last address is taken for another CGRA's
  IF a \in address_lower(c)..(address_upper(c) - 1)
  THEN (a - address_lower(c)) \div bank_size ELSE Away

bank_index(c, a) ==
  IF a \in address_lower(c)..address_upper(c)
  THEN (a - address_lower(c)) \div bank_size ELSE Away

addr2controller_lut(a) == a \div (num_banks * bank_size)

(* Where an address is kept. *)
Place(a) ==
  LET offset == a % (num_banks * bank_size) IN
  <<addr2controller_lut(a), offset \div bank_size, a % bank_size>>

(* remote_src_port has clog2(num_rd_tiles + 1) bits.                       *)
NocRemoteSrcPortType(p) ==
  p % (CHOOSE n \in {2^k : k \in 0..(num_rd_tiles + 1)} : n \in (num_rd_tiles + 1)..(2 * num_rd_tiles + 1))

(* Who loads and stores, and where.  The port of a load that leaves its    *)
(* CGRA travels in the packet and has to fit: those of the tiles do, that  *)
(* of the DMA engine only where the field has a value to spare.            *)
ASSUME RequesterAssumption ==
  /\ Requesters \subseteq (Cgra \X (Port \ {Noc})) \cup {<<Host, Cpu>>}
  /\ Targets \in [Requesters -> SUBSET Address]
  /\ \A r \in Requesters : \A a \in Targets[r] :
       r[2] # Cpu /\ addr2controller_lut(a) # r[1] => NocRemoteSrcPortType(r[2]) = r[2]
  /\ None \notin Address

(* assemble_xbar_pkt.  What comes from the NoC keeps the requester's data. *)
ReadPkt(c, p, a) ==
  [src |-> p, addr |-> a, src_cgra |-> c, src_tile |-> 0, remote_src_port |-> p]

Packet(cmd, src, dst, from_tile, to_tile, port, a, d) ==
  [cmd |-> cmd, src |-> src, dst |-> dst, src_tile |-> from_tile, dst_tile |-> to_tile,
   remote_src_port |-> port, addr |-> a, data |-> d]
-----------------------------------------------------------------------------
(* MemUnitRTL: a load asks once (already_sent_raddr) and waits for its     *)
(* answer, a store is done when the crossbar took it.  With a predicate of *)
(* 0 nothing reaches the memory.                                           *)
Load(r, a) ==
  /\ loads < MaxLoads /\ ask[r] = None
  /\ IF r[2] = Cpu
     THEN /\ Room(out[<<Host, "cpu">>])
          /\ out' = [out EXCEPT ![<<Host, "cpu">>] =
               Append(@, Packet("LOAD_REQUEST", Host, None, Cpu, 0, 0, a, None))]
          /\ UNCHANGED rd
     ELSE /\ Room(rd[r])
          /\ rd' = [rd EXCEPT ![r] = Append(@, ReadPkt(r[1], r[2], a))]
          /\ UNCHANGED out
  /\ ask' = [ask EXCEPT ![r] = a]
  /\ seen' = [seen EXCEPT ![r] = {memory[Place(a)]}]
  /\ loads' = loads + 1
  /\ UNCHANGED <<wr, resp, net, memory, issued, landed>>

Store(r, a) ==
  LET d == <<r, issued[r] + 1>> IN
  /\ ask[r] = None /\ issued[r] < MaxStores[r]
  /\ IF r[2] = Cpu
     THEN /\ Room(out[<<Host, "cpu">>])
          /\ out' = [out EXCEPT ![<<Host, "cpu">>] =
               Append(@, Packet("STORE_REQUEST", Host, None, Cpu, 0, 0, a, d))]
          /\ UNCHANGED wr
     ELSE /\ Room(wr[r])
          /\ wr' = [wr EXCEPT ![r] = Append(@, [src |-> r[2], addr |-> a, data |-> d])]
          /\ UNCHANGED out
  /\ issued' = [issued EXCEPT ![r] = @ + 1]
  /\ UNCHANGED <<rd, resp, net, memory, ask, seen, landed, loads>>
-----------------------------------------------------------------------------
(* A read leaves the crossbar for a bank, and the word for the response    *)
(* crossbar with source and destination swapped (DataMemWrapperRTL) ...    *)
ReadAccess(c, p) ==
  /\ rd[<<c, p>>] # <<>>
  /\ LET m == Head(rd[<<c, p>>])   b == bank_index(c, m.addr) IN
     /\ b # Away /\ Room(resp[<<c, b>>])
     /\ resp' = [resp EXCEPT ![<<c, b>>] = Append(@,
          [dst |-> m.src, addr |-> m.addr, data |-> memory[<<c, b, m.addr % bank_size>>],
           src_cgra |-> m.src_cgra, src_tile |-> m.src_tile,
           remote_src_port |-> m.remote_src_port])]
  /\ rd' = [rd EXCEPT ![<<c, p>>] = Tail(@)]
  /\ UNCHANGED <<wr, out, net, memory, ask, history>>

Bug_ReadAway(c, p) ==           \* the port left out of the packet
  /\ rd[<<c, p>>] # <<>> /\ Room(out[<<c, "load">>])
  /\ LET m == Head(rd[<<c, p>>]) IN
     /\ bank_index(c, m.addr) = Away
     /\ out' = [out EXCEPT ![<<c, "load">>] =
          Append(@, Packet("LOAD_REQUEST", c, None, 0, 0, 0, m.addr, None))]
  /\ rd' = [rd EXCEPT ![<<c, p>>] = Tail(@)]
  /\ UNCHANGED <<wr, resp, net, memory, ask, history>>

(* ... or for another CGRA.  Later loads may overtake its answer.          *)
ReadAway(c, p) ==
  /\ rd[<<c, p>>] # <<>> /\ Room(out[<<c, "load">>])
  /\ LET m == Head(rd[<<c, p>>]) IN
     /\ bank_index(c, m.addr) = Away
     /\ out' = [out EXCEPT ![<<c, "load">>] =
          Append(@, Packet("LOAD_REQUEST", c, None, 0, 0, NocRemoteSrcPortType(m.src), m.addr, None))]
  /\ rd' = [rd EXCEPT ![<<c, p>>] = Tail(@)]
  /\ UNCHANGED <<wr, resp, net, memory, ask, history>>

WriteAccess(c, p) ==
  /\ wr[<<c, p>>] # <<>>
  /\ LET m == Head(wr[<<c, p>>])   b == bank_index(c, m.addr) IN
     /\ b # Away
     /\ memory' = [memory EXCEPT ![<<c, b, m.addr % bank_size>>] = m.data]
     /\ seen' = [r \in DOMAIN ask |-> IF ask[r] = m.addr THEN seen[r] \cup {m.data} ELSE seen[r]]
     /\ landed' = [landed EXCEPT ![m.data[1]][m.addr] = m.data[2]]
  /\ wr' = [wr EXCEPT ![<<c, p>>] = Tail(@)]
  /\ UNCHANGED <<rd, resp, out, net, ask, issued, loads>>

Bug_WriteAway(c, p) ==          \* the youngest store first
  /\ wr[<<c, p>>] # <<>> /\ Room(out[<<c, "store">>])
  /\ LET m == wr[<<c, p>>][Len(wr[<<c, p>>])] IN
     /\ bank_index(c, m.addr) = Away
     /\ out' = [out EXCEPT ![<<c, "store">>] = Append(@,
          Packet("STORE_REQUEST", c, None, 0, 0, NocRemoteSrcPortType(m.src), m.addr, m.data))]
  /\ wr' = [wr EXCEPT ![<<c, p>>] = SubSeq(@, 1, Len(@) - 1)]
  /\ UNCHANGED <<rd, resp, net, memory, ask, history>>

WriteAway(c, p) ==
  /\ wr[<<c, p>>] # <<>> /\ Room(out[<<c, "store">>])
  /\ LET m == Head(wr[<<c, p>>]) IN
     /\ bank_index(c, m.addr) = Away
     /\ out' = [out EXCEPT ![<<c, "store">>] =
          Append(@, Packet("STORE_REQUEST", c, None, 0, 0, NocRemoteSrcPortType(m.src), m.addr, m.data))]
  /\ wr' = [wr EXCEPT ![<<c, p>>] = Tail(@)]
  /\ UNCHANGED <<rd, resp, net, memory, ask, history>>

(* The response crossbar: to the port that asked, or, for a request that   *)
(* came over the NoC, back to its CGRA with the port it came from.         *)
Answered(r) ==
  /\ ask' = [ask EXCEPT ![r] = None]
  /\ seen' = [seen EXCEPT ![r] = {}]

Respond(c, k) ==
  /\ resp[<<c, k>>] # <<>>
  /\ LET m == Head(resp[<<c, k>>]) IN
     IF m.dst = Noc
     THEN /\ Room(out[<<c, "response">>])
          /\ out' = [out EXCEPT ![<<c, "response">>] = Append(@,
               Packet("LOAD_RESPONSE", c, m.src_cgra, 0, m.src_tile, m.remote_src_port,
                      m.addr, m.data))]
          /\ UNCHANGED <<ask, seen>>
     ELSE Answered(<<c, m.dst>>) /\ UNCHANGED out
  /\ resp' = [resp EXCEPT ![<<c, k>>] = Tail(@)]
  /\ UNCHANGED <<rd, wr, net, memory, issued, landed, loads>>
-----------------------------------------------------------------------------
(* The controller's crossbar sends one of its queues to the NoC; requests  *)
(* go where the address is.                                                *)
Kinds == {"load", "store", "response", "cpu"}

Send(c, q) ==
  /\ out[<<c, q>>] # <<>>
  /\ LET m == Head(out[<<c, q>>])
         d == IF m.cmd = "LOAD_RESPONSE" THEN m.dst ELSE addr2controller_lut(m.addr) IN
     /\ Room(net[<<c, d>>])
     /\ net' = [net EXCEPT ![<<c, d>>] = Append(@, [m EXCEPT !.dst = d])]
  /\ out' = [out EXCEPT ![<<c, q>>] = Tail(@)]
  /\ UNCHANGED <<rd, wr, resp, memory, ask, history>>

(* recv_from_inter_cgra_noc: one port for all packets, in order.           *)
Receive(d, c) ==
  /\ net[<<d, c>>] # <<>>
  /\ LET m == Head(net[<<d, c>>]) IN
     CASE m.cmd = "LOAD_REQUEST" ->
            /\ Room(rd[<<c, Noc>>])
            /\ rd' = [rd EXCEPT ![<<c, Noc>>] = Append(@,
                 [ReadPkt(m.src, m.remote_src_port, m.addr)
                    EXCEPT !.src = Noc, !.src_tile = m.src_tile])]
            /\ UNCHANGED <<wr, resp, ask, seen>>
       [] m.cmd = "STORE_REQUEST" ->
            /\ Room(wr[<<c, Noc>>])
            /\ wr' = [wr EXCEPT ![<<c, Noc>>] =
                 Append(@, [src |-> Noc, addr |-> m.addr, data |-> m.data])]
            /\ UNCHANGED <<rd, resp, ask, seen>>
       [] m.cmd = "LOAD_RESPONSE" /\ m.dst_tile = Cpu ->
            Answered(<<Host, Cpu>>) /\ UNCHANGED <<rd, wr, resp>>
       [] OTHER ->
            /\ Room(resp[<<c, Away>>])
            /\ resp' = [resp EXCEPT ![<<c, Away>>] = Append(@,
                 [dst |-> m.remote_src_port, addr |-> m.addr, data |-> m.data,
                  src_cgra |-> m.src, src_tile |-> m.src_tile, remote_src_port |-> 0])]
            /\ UNCHANGED <<rd, wr, ask, seen>>
  /\ net' = [net EXCEPT ![<<d, c>>] = Tail(@)]
  /\ UNCHANGED <<out, memory, issued, landed, loads>>
-----------------------------------------------------------------------------
Init ==
  /\ rd = [x \in Cgra \X Port |-> <<>>] /\ wr = rd
  /\ resp = [x \in Cgra \X (0..Away) |-> <<>>]
  /\ out = [x \in Cgra \X Kinds |-> <<>>]
  /\ net = [x \in Cgra \X Cgra |-> <<>>]
  /\ memory = [x \in Cgra \X Bank \X (0..(bank_size - 1)) |-> None]
  /\ ask = [r \in Requesters |-> None]
  /\ issued = [r \in Requesters |-> 0]
  /\ seen = [r \in Requesters |-> {}]
  /\ landed = [r \in Requesters |-> [a \in Address |-> 0]]
  /\ loads = 0

Request == \E r \in Requesters : \E a \in Targets[r] : Load(r, a) \/ Store(r, a)

(* What the clock moves, whatever is asked.                                *)
Move ==
  \/ \E c \in Cgra, p \in Port :
       ReadAccess(c, p) \/ ReadAway(c, p) \/ WriteAccess(c, p) \/ WriteAway(c, p)
  \/ \E c \in Cgra, k \in 0..Away : Respond(c, k)
  \/ \E c \in Cgra, q \in Kinds : Send(c, q)
  \/ \E d, c \in Cgra : Receive(d, c)

Next == Request \/ Move

Spec == Init /\ [][Next]_vars

(* The clock runs.                                                         *)
FairSpec == Spec /\ WF_vars(Move)
-----------------------------------------------------------------------------
(* Every answer on its way belongs to the one load its port waits for: it  *)
(* is for that address, and carries a word the address held at some time   *)
(* since the load was issued; no load is answered twice, from the wrong    *)
(* CGRA or at the wrong port (mem/data/DataMemControllerRTL.py, and        *)
(* remote_src_port through controller/ControllerRTL.py).                   *)
Belongs(r, m) == r \in Requesters /\ ask[r] = m.addr /\ m.data \in seen[r]

LoadsRegular ==
  /\ \A c \in Cgra, k \in 0..Away : \A i \in DOMAIN resp[<<c, k>>] :
       LET m == resp[<<c, k>>][i] IN
       Belongs(IF m.dst # Noc THEN <<c, m.dst>>
               ELSE <<m.src_cgra, IF m.src_tile = Cpu THEN Cpu ELSE m.remote_src_port>>, m)
  /\ \A d, c \in Cgra : \A i \in DOMAIN net[<<d, c>>] :
       LET m == net[<<d, c>>][i] IN
       m.cmd = "LOAD_RESPONSE" =>
         Belongs(<<c, IF m.dst_tile = Cpu THEN Cpu ELSE m.remote_src_port>>, m)

(* The stores of one requester to one address land in the order they were  *)
(* issued, whichever way they take.                                        *)
StoresInOrder ==
  [][\A r \in Requesters, a \in Address : landed'[r][a] >= landed[r][a]]_vars

(* No access is lost and no set of accesses blocks itself: once no more    *)
(* are made (MaxLoads, MaxStores), every load has been answered and no     *)
(* packet is on its way or circles between the CGRAs.                      *)
AllDone ==
  /\ \A r \in Requesters : ask[r] = None
  /\ \A x \in Cgra \X Port : rd[x] = <<>> /\ wr[x] = <<>>
  /\ \A x \in Cgra \X (0..Away) : resp[x] = <<>>
  /\ \A x \in Cgra \X Kinds : out[x] = <<>>
  /\ \A x \in Cgra \X Cgra : net[x] = <<>>

AccessesComplete == []<>AllDone
=============================================================================
