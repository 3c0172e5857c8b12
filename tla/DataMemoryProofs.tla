-------------------------- MODULE DataMemoryProofs --------------------------
(***************************************************************************)
(* Proofs about the scratchpads of a multi-CGRA, for any number of CGRAs,  *)
(* tiles, banks and words, any capacity of the queues and any requests.    *)
(*                                                                         *)
(* All queues are seen as one function from places to sequences, so that   *)
(* every action is a message that leaves one place, enters another, or     *)
(* both.  A load is known by the requester it belongs to, whatever form    *)
(* it has on its way; the invariant is that at most one message belongs    *)
(* to a requester.                                                         *)
(***************************************************************************)
EXTENDS DataMemory, TLAPS, SequenceTheorems

(* The arithmetic of addresses.                                            *)
LEMMA DivMod ==
  ASSUME NEW t \in Nat, NEW c \in Nat, c > 0
  PROVE  t = c * (t \div c) + (t % c) /\ t \div c \in Nat /\ t % c \in 0..(c - 1)
  OBVIOUS

LEMMA DivModOf ==
  ASSUME NEW c \in Nat, NEW r \in Nat, NEW q \in Nat, r < c
  PROVE  (c * q + r) % c = r /\ (c * q + r) \div c = q
  OBVIOUS

LEMMA Product ==
  ASSUME NEW m \in Nat, NEW n \in Nat
  PROVE  m * n \in Nat /\ (m > 0 /\ n > 0 => m * n > 0) /\ m * n = n * m
  OBVIOUS

LEMMA Below ==
  ASSUME NEW c \in Nat, NEW q \in Nat, NEW r \in Nat, NEW n \in Nat, c > 0,
         c * q + r < c * n
  PROVE  q < n
<1>1. CASE q >= n
  <2>1. PICK k \in Nat : q = n + k
    BY <1>1
  <2>2. c * q = c * n + c * k /\ c * k \in Nat /\ c * n \in Nat
    BY <2>1
  <2> QED BY <2>2
<1> QED BY <1>1

Words == num_banks * bank_size           \* of a CGRA

LEMMA Sizes ==
  /\ NumCgras \in Nat /\ num_rd_tiles \in Nat /\ num_banks \in Nat /\ bank_size \in Nat
  /\ NumCgras > 0 /\ num_rd_tiles > 0 /\ num_banks > 0 /\ bank_size > 0
  /\ Words \in Nat /\ Words > 0
<1>1. /\ NumCgras \in Nat /\ num_rd_tiles \in Nat /\ num_banks \in Nat /\ bank_size \in Nat
      /\ NumCgras > 0 /\ num_rd_tiles > 0 /\ num_banks > 0 /\ bank_size > 0
  BY MemoryAssumption
<1> QED BY <1>1, Product DEF Words

(* An address is a CGRA, a bank in it and a word in that.                  *)
LEMMA AddressParts ==
  ASSUME NEW a \in Address
  PROVE  /\ a \in Nat /\ addr2controller_lut(a) \in Cgra
         /\ (a % Words) \div bank_size \in Bank
         /\ a % bank_size \in 0..(bank_size - 1)
         /\ a = Words * addr2controller_lut(a)
                  + (bank_size * ((a % Words) \div bank_size) + (a % bank_size))
<1> DEFINE cgra == a \div Words
           offset == a % Words
           bank == offset \div bank_size
           word == offset % bank_size
<1>0. /\ bank_size \in Nat /\ bank_size > 0 /\ Words \in Nat /\ Words > 0
      /\ num_banks \in Nat /\ NumCgras \in Nat /\ num_banks > 0
  BY Sizes
<1>1. a \in Nat
  BY Sizes DEF Address
<1>2. a = Words * cgra + offset /\ cgra \in Nat /\ offset \in 0..(Words - 1)
  BY <1>0, <1>1, DivMod
<1>3. offset = bank_size * bank + word /\ bank \in Nat /\ word \in 0..(bank_size - 1)
  <2>1. offset \in Nat
    BY <1>0, <1>2
  <2> HIDE DEF offset
  <2> QED BY <1>0, <2>1, DivMod
<1>4. cgra < NumCgras
  <2>1. (NumCgras * num_banks) * bank_size = Words * NumCgras
    BY <1>0 DEF Words
  <2>2. a < Words * NumCgras
    BY <2>1, <1>0, <1>1 DEF Address
  <2> HIDE DEF cgra, offset
  <2> QED BY <1>0, <1>2, <2>2, Below
<1>5. bank < num_banks
  <2>1. bank_size * bank + word < bank_size * num_banks
    BY <1>0, <1>2, <1>3 DEF Words
  <2> HIDE DEF bank, word
  <2> QED BY <1>0, <1>3, <2>1, Below
<1>6. a % bank_size = word
  <2> HIDE DEF bank, word, offset, cgra
  <2>1. a = bank_size * (num_banks * cgra + bank) + word
    BY <1>0, <1>2, <1>3 DEF Words
  <2>2. num_banks * cgra + bank \in Nat
    BY <1>0, <1>2, <1>3
  <2> QED BY <1>0, <1>3, <2>1, <2>2, DivModOf
<1> QED BY <1>0, <1>1, <1>2, <1>3, <1>4, <1>5, <1>6 DEF addr2controller_lut, Cgra, Bank, Words

LEMMA PlaceTyped ==
  ASSUME NEW a \in Address
  PROVE  Place(a) = <<addr2controller_lut(a), (a % Words) \div bank_size, a % bank_size>>
         /\ Place(a) \in Cgra \X Bank \X (0..(bank_size - 1))
  BY AddressParts DEF Place, Words

(* No two addresses share a word.                                          *)
LEMMA PlaceInjective ==
  ASSUME NEW a \in Address, NEW b \in Address, Place(a) = Place(b)
  PROVE  a = b
<1>1. /\ addr2controller_lut(a) = addr2controller_lut(b)
      /\ (a % Words) \div bank_size = (b % Words) \div bank_size
      /\ a % bank_size = b % bank_size
  BY PlaceTyped
<1>2. /\ a = Words * addr2controller_lut(a)
               + (bank_size * ((a % Words) \div bank_size) + (a % bank_size))
      /\ b = Words * addr2controller_lut(b)
               + (bank_size * ((b % Words) \div bank_size) + (b % bank_size))
  BY AddressParts
<1> QED BY <1>1, <1>2, Zenon

(* The crossbars and the controllers agree about what is where.            *)
LEMMA BankIndex ==
  ASSUME NEW a \in Address, NEW c \in Cgra
  PROVE  /\ bank_index(c, a) # Away <=> addr2controller_lut(a) = c
         /\ bank_index(c, a) # Away => /\ bank_index(c, a) \in Bank
                                       /\ Place(a) = <<c, bank_index(c, a), a % bank_size>>
<1> DEFINE cgra == a \div Words
           offset == a % Words
<1>0. Words \in Nat /\ Words > 0 /\ bank_size \in Nat /\ a \in Nat /\ c \in Nat /\ cgra \in Nat
  BY Sizes, AddressParts DEF Cgra, addr2controller_lut, Words
<1>1. a = Words * cgra + offset /\ offset \in 0..(Words - 1)
  BY <1>0, DivMod
<1>2. address_lower(c) = Words * c /\ address_upper(c) = Words * c + Words - 1
  BY <1>0, Sizes DEF address_lower, address_upper, Words
<1>3. a \in address_lower(c)..address_upper(c) <=> cgra = c
  <2> HIDE DEF cgra, offset
  <2>1. Words * cgra \in Nat /\ Words * c \in Nat
    BY <1>0
  <2>2. ASSUME cgra < c PROVE a < Words * c
    <3>1. PICK k \in Nat : c = cgra + 1 + k
      BY <1>0, <2>2
    <3>2. Words * c = Words * cgra + Words + Words * k /\ Words * k \in Nat
      BY <1>0, <3>1
    <3> QED BY <1>0, <1>1, <2>1, <3>2
  <2>3. ASSUME cgra > c PROVE a > Words * c + Words - 1
    <3>1. PICK k \in Nat : cgra = c + 1 + k
      BY <1>0, <2>3
    <3>2. Words * cgra = Words * c + Words + Words * k /\ Words * k \in Nat
      BY <1>0, <3>1
    <3> QED BY <1>0, <1>1, <2>1, <3>2
  <2>4. cgra = c => Words * c <= a /\ a <= Words * c + Words - 1
    BY <1>0, <1>1, <2>1
  <2> QED BY <1>0, <1>2, <2>1, <2>2, <2>3, <2>4
<1>4. cgra = c => a - address_lower(c) = offset
  <2> HIDE DEF cgra, offset
  <2> QED BY <1>0, <1>1, <1>2
<1>5. offset \div bank_size \in Bank /\ Away \notin Bank
  BY AddressParts, Sizes DEF Bank, Away, Words
<1>6. addr2controller_lut(a) = cgra
  BY DEF addr2controller_lut, Words
<1> HIDE DEF cgra, offset
<1>7. bank_index(c, a) = IF cgra = c THEN offset \div bank_size ELSE Away
  BY <1>3, <1>4 DEF bank_index
<1> QED BY <1>5, <1>6, <1>7, PlaceTyped DEF offset
-----------------------------------------------------------------------------
(* The messages in the queues.  A word of the memory is a store or None.   *)
Stamp == Requesters \X Nat
StoredWord == Stamp \cup {None}
Tag == Port \cup {NocRemoteSrcPortType(p) : p \in Port}

ReadMsg ==
  [src : Port, addr : Address, src_cgra : Cgra, src_tile : {0, Cpu}, remote_src_port : Tag]
WriteMsg == [src : Port, addr : Address, data : Stamp]
RespMsg ==
  [dst : Tag, addr : Address, data : StoredWord, src_cgra : Cgra, src_tile : {0, Cpu},
   remote_src_port : Tag]
NocMsg ==
  [cmd : {"LOAD_REQUEST", "STORE_REQUEST", "LOAD_RESPONSE"}, src : Cgra, dst : Cgra \cup {None},
   src_tile : {0, Cpu}, dst_tile : {0, Cpu}, remote_src_port : Tag, addr : Address,
   data : StoredWord]
Msg == ReadMsg \cup WriteMsg \cup RespMsg \cup NocMsg

Places ==
  ({"rd", "wr"} \X Cgra \X Port) \cup ({"resp"} \X Cgra \X (0..Away))
    \cup ({"out"} \X Cgra \X Kinds) \cup ({"net"} \X Cgra \X Cgra)

Queue(z) ==
  CASE z[1] = "rd"   -> rd[<<z[2], z[3]>>]
    [] z[1] = "wr"   -> wr[<<z[2], z[3]>>]
    [] z[1] = "resp" -> resp[<<z[2], z[3]>>]
    [] z[1] = "out"  -> out[<<z[2], z[3]>>]
    [] OTHER         -> net[<<z[2], z[3]>>]

Flight == [z \in Places |-> Queue(z)]

(* A message leaves place x, or none does, and n enters y, or none.        *)
Nowhere == <<"nowhere">>

Shifted(Q, P, x, y, n) ==
  \A z \in Places :
    /\ z = x => Q[z] # <<>> /\ P[z] = Tail(Q[z])
    /\ z = y => P[z] = Append(Q[z], n)
    /\ z # x /\ z # y => P[z] = Q[z]

(* Where a message was before.                                             *)
Before(z, i, x) == IF z = x THEN i + 1 ELSE i

LEMMA Origin ==
  ASSUME NEW Q \in [Places -> Seq(Msg)], NEW P, NEW x, NEW y, NEW n,
         x # y, Shifted(Q, P, x, y, n),
         NEW z \in Places, NEW i \in DOMAIN P[z]
  PROVE  \/ z = y /\ i = Len(Q[z]) + 1 /\ P[z][i] = n
         \/ /\ Before(z, i, x) \in DOMAIN Q[z] /\ P[z][i] = Q[z][Before(z, i, x)]
            /\ i \in Nat \ {0}
<1>1. Q[z] \in Seq(Msg)
  OBVIOUS
<1>2. CASE z = x
  <2>1. Q[z] # <<>> /\ P[z] = Tail(Q[z]) /\ Before(z, i, x) = i + 1
    BY <1>2 DEF Shifted, Before
  <2>2. /\ P[z] \in Seq(Msg) /\ Len(P[z]) = Len(Q[z]) - 1
        /\ \A j \in 1..Len(P[z]) : P[z][j] = Q[z][j + 1]
    BY <1>1, <2>1, HeadTailProperties
  <2>3. DOMAIN P[z] = 1..Len(P[z]) /\ DOMAIN Q[z] = 1..Len(Q[z]) /\ Len(Q[z]) \in Nat
    BY <1>1, <2>2, LenProperties
  <2> QED BY <2>1, <2>2, <2>3
<1>3. CASE z = y
  <2>1. P[z] = Append(Q[z], n) /\ Before(z, i, x) = i
    BY <1>3 DEF Shifted, Before
  <2>2. /\ Len(Q[z]) \in Nat /\ DOMAIN Q[z] = 1..Len(Q[z])
        /\ DOMAIN P[z] = 1..(Len(Q[z]) + 1)
        /\ \A j \in 1..Len(Q[z]) : P[z][j] = Q[z][j]
        /\ P[z][Len(Q[z]) + 1] = n
    BY <1>1, <2>1
  <2> QED BY <1>3, <2>1, <2>2
<1>4. CASE z # x /\ z # y
  BY <1>1, <1>4, LenProperties DEF Shifted, Before
<1> QED BY <1>2, <1>3, <1>4

LEMMA HeadFirst ==
  ASSUME NEW S, NEW s \in Seq(S), s # <<>>
  PROVE  1 \in DOMAIN s /\ s[1] = Head(s) /\ Head(s) \in S
  OBVIOUS
-----------------------------------------------------------------------------
(* The requester a load belongs to.  On its way through the CGRA that has  *)
(* the word, the message names the port it came from, at the requester's   *)
(* own CGRA the crossbar port does.                                        *)
Sender(m) == IF m.src_tile = Cpu THEN <<m.src_cgra, Cpu>> ELSE <<m.src_cgra, m.remote_src_port>>

IsStore(z, m) == z[1] = "wr" \/ (z[1] \in {"out", "net"} /\ m.cmd = "STORE_REQUEST")

Owner(z, m) ==
  CASE z[1] = "rd" /\ z[3] # Noc    -> <<z[2], z[3]>>
    [] z[1] = "rd" /\ z[3] = Noc    -> Sender(m)
    [] z[1] = "resp" /\ m.dst # Noc -> <<z[2], m.dst>>
    [] z[1] = "resp" /\ m.dst = Noc -> Sender(m)
    [] z[1] \in {"out", "net"} /\ m.cmd = "LOAD_REQUEST" ->
         IF m.src_tile = Cpu THEN <<m.src, Cpu>> ELSE <<m.src, m.remote_src_port>>
    [] z[1] \in {"out", "net"} /\ m.cmd = "LOAD_RESPONSE" ->
         IF m.dst_tile = Cpu THEN <<m.dst, Cpu>> ELSE <<m.dst, m.remote_src_port>>
    [] OTHER -> "nobody"

(* At most one message belongs to a requester.                             *)
Unique(Q) ==
  \A z, w \in Places : \A i \in DOMAIN Q[z], j \in DOMAIN Q[w] :
    ~IsStore(z, Q[z][i]) /\ ~IsStore(w, Q[w][j]) /\ Owner(z, Q[z][i]) = Owner(w, Q[w][j])
      => z = w /\ i = j

(* A message moves on and keeps its owner, or is the first one of its      *)
(* owner, or leaves.                                                       *)
LEMMA StaysUnique ==
  ASSUME NEW Q \in [Places -> Seq(Msg)], NEW P, NEW x, NEW y, NEW n,
         x # y, Shifted(Q, P, x, y, n), Unique(Q),
         y \in Places /\ ~IsStore(y, n) =>
           \/ /\ x \in Places /\ ~IsStore(x, Head(Q[x]))
              /\ Owner(x, Head(Q[x])) = Owner(y, n)
           \/ \A z \in Places : \A i \in DOMAIN Q[z] :
                ~IsStore(z, Q[z][i]) => Owner(z, Q[z][i]) # Owner(y, n)
  PROVE  Unique(P)
<1> SUFFICES ASSUME NEW z \in Places, NEW w \in Places,
                    NEW i \in DOMAIN P[z], NEW j \in DOMAIN P[w],
                    ~IsStore(z, P[z][i]), ~IsStore(w, P[w][j]),
                    Owner(z, P[z][i]) = Owner(w, P[w][j])
             PROVE  z = w /\ i = j
  BY DEF Unique
<1> DEFINE Old(u, k) == /\ Before(u, k, x) \in DOMAIN Q[u] /\ P[u][k] = Q[u][Before(u, k, x)]
                        /\ k \in Nat \ {0}
           Came(u, k) == u = y /\ k = Len(Q[u]) + 1 /\ P[u][k] = n
<1>1. (Came(z, i) \/ Old(z, i)) /\ (Came(w, j) \/ Old(w, j))
  BY Origin
<1>2. ASSUME NEW u \in Places, NEW k \in DOMAIN P[u], Old(u, k), ~IsStore(u, P[u][k]),
             y \in Places, ~IsStore(y, n), Owner(u, P[u][k]) = Owner(y, n)
      PROVE  FALSE
  <2>1. x \in Places /\ ~IsStore(x, Head(Q[x])) /\ Owner(x, Head(Q[x])) = Owner(y, n)
    BY <1>2
  <2>2. Q[x] # <<>> /\ Q[x] \in Seq(Msg)
    BY <2>1 DEF Shifted
  <2>3. 1 \in DOMAIN Q[x] /\ Q[x][1] = Head(Q[x])
    BY <2>2, HeadFirst
  <2>4. u = x /\ Before(u, k, x) = 1
    BY <1>2, <2>1, <2>3 DEF Unique
  <2> QED BY <1>2, <2>4 DEF Before
<1>3. CASE Came(z, i) /\ Came(w, j)
  BY <1>3
<1>4. CASE Came(z, i) /\ Old(w, j)
  BY <1>2, <1>4
<1>5. CASE Old(z, i) /\ Came(w, j)
  BY <1>2, <1>5
<1>6. CASE Old(z, i) /\ Old(w, j)
  <2>1. z = w /\ Before(z, i, x) = Before(w, j, x)
    BY <1>6 DEF Unique
  <2> QED BY <1>6, <2>1 DEF Before
<1> QED BY <1>1, <1>3, <1>4, <1>5, <1>6
-----------------------------------------------------------------------------
(* Where a message may be, and what it says there.                         *)
Fits(z, m) ==
  CASE z[1] = "rd" /\ z[3] # Noc ->
         m \in ReadMsg /\ m.src = z[3] /\ m.src_cgra = z[2] /\ m.src_tile = 0
    [] z[1] = "rd" /\ z[3] = Noc ->
         m \in ReadMsg /\ m.src = Noc /\ addr2controller_lut(m.addr) = z[2]
    [] z[1] = "wr" /\ z[3] # Noc ->
         m \in WriteMsg /\ m.data[1] = <<z[2], z[3]>>
    [] z[1] = "wr" /\ z[3] = Noc ->
         /\ m \in WriteMsg /\ addr2controller_lut(m.addr) = z[2]
         /\ m.data[1][2] # Cpu => m.data[1][1] # z[2]
    [] z[1] = "resp" -> m \in RespMsg
    [] z[1] = "out" ->
         /\ m \in NocMsg
         /\ m.cmd = "LOAD_RESPONSE" => m.dst \in Cgra
         /\ m.cmd = "STORE_REQUEST" =>
              /\ m.data \in Stamp /\ m.data[1][1] = z[2]
              /\ IF z[3] = "cpu" THEN m.data[1][2] = Cpu
                 ELSE /\ z[3] = "store" /\ m.data[1][2] # Cpu
                      /\ addr2controller_lut(m.addr) # z[2]
    [] OTHER ->
         /\ m \in NocMsg
         /\ z[3] = IF m.cmd = "LOAD_RESPONSE" THEN m.dst ELSE addr2controller_lut(m.addr)
         /\ m.cmd = "STORE_REQUEST" =>
              /\ m.data \in Stamp /\ m.data[1][1] = z[2]
              /\ m.data[1][2] # Cpu => z[3] # z[2]

(* A load is one its owner waits for, and its answer a word the address    *)
(* held while it did.                                                      *)
Carries(z, m) == z[1] = "resp" \/ (z[1] \in {"out", "net"} /\ m.cmd = "LOAD_RESPONSE")

Awaited(z, m) ==
  ~IsStore(z, m) =>
    /\ Owner(z, m) \in Requesters
    /\ ask[Owner(z, m)] = m.addr
    /\ Carries(z, m) => m.data \in seen[Owner(z, m)]

(* A store was issued and has not landed.                                  *)
Pending(z, m) ==
  IsStore(z, m) =>
    landed[m.data[1]][m.addr] < m.data[2] /\ m.data[2] <= issued[m.data[1]]

InFlight ==
  \A z \in Places : \A i \in DOMAIN Flight[z] :
    /\ Fits(z, Flight[z][i])
    /\ Awaited(z, Flight[z][i])
    /\ Pending(z, Flight[z][i])

(* Further on, and ahead in a queue, are the older stores.                 *)
Stage(z) == CASE z[1] = "wr" /\ z[3] = Noc -> 3
              [] z[1] = "net"              -> 2
              [] z[1] = "out"              -> 1
              [] OTHER                     -> 0

InOrder(Q) ==
  \A z, w \in Places : \A i \in DOMAIN Q[z], j \in DOMAIN Q[w] :
       /\ IsStore(z, Q[z][i]) /\ IsStore(w, Q[w][j])
       /\ Q[z][i].data[1] = Q[w][j].data[1] /\ Q[z][i].addr = Q[w][j].addr
       /\ Stage(z) > Stage(w) \/ (z = w /\ i < j)
    => Q[z][i].data[2] < Q[w][j].data[2]

(* What an address holds has been seen by those who wait for it.           *)
Observed == \A r \in Requesters : ask[r] # None => memory[Place(ask[r])] \in seen[r]

MemTypeOK ==
  /\ rd \in [Cgra \X Port -> Seq(Msg)] /\ wr \in [Cgra \X Port -> Seq(Msg)]
  /\ resp \in [Cgra \X (0..Away) -> Seq(Msg)]
  /\ out \in [Cgra \X Kinds -> Seq(Msg)]
  /\ net \in [Cgra \X Cgra -> Seq(Msg)]
  /\ memory \in [Cgra \X Bank \X (0..(bank_size - 1)) -> StoredWord]
  /\ ask \in [Requesters -> Address \cup {None}]
  /\ \A r \in Requesters : ask[r] \in Targets[r] \cup {None}
  /\ issued \in [Requesters -> Nat]
  /\ seen \in [Requesters -> SUBSET StoredWord]
  /\ landed \in [Requesters -> [Address -> Nat]]

(* What landed was issued.                                                 *)
Counted == \A r \in Requesters, a \in Address : landed[r][a] <= issued[r]

MemInv ==
  MemTypeOK /\ InFlight /\ Unique(Flight) /\ InOrder(Flight) /\ Observed /\ Counted

LEMMA FlightTyped == MemTypeOK => Flight \in [Places -> Seq(Msg)]
  BY DEF MemTypeOK, Flight, Queue, Places

LEMMA Ports ==
  /\ Noc \in Port /\ Cpu \notin Port /\ Cpu # 0 /\ Cpu # Noc
  /\ Away \in 0..Away /\ Bank \subseteq 0..Away /\ Away \notin Bank
  /\ \A r \in Requesters : \/ r[1] \in Cgra /\ r[2] \in Port /\ r[2] # Noc /\ r = <<r[1], r[2]>>
                           \/ r = <<Host, Cpu>>
  /\ Host \in Cgra /\ 0 \in Port
  BY Sizes, RequesterAssumption, MemoryAssumption DEF Noc, Port, Dma, Cpu, Away, Bank, Cgra
-----------------------------------------------------------------------------
(* What is left of the invariant of the messages when one moves: gone is   *)
(* the requester whose wait begins or ends, if one does.                   *)
LEMMA FlightKept ==
  ASSUME Flight \in [Places -> Seq(Msg)], InFlight, Unique(Flight),
         NEW x, NEW y, NEW n, NEW gone, x # y, Shifted(Flight, Flight', x, y, n),
         \A r \in Requesters : r # gone => ask'[r] = ask[r] /\ seen[r] \subseteq seen'[r],
         gone \in Requesters =>
           \/ ask'[gone] = ask[gone] /\ seen[gone] \subseteq seen'[gone]
           \/ ask[gone] = None
           \/ /\ x \in Places /\ ~IsStore(x, Head(Flight[x])) /\ Owner(x, Head(Flight[x])) = gone
              /\ y \notin Places,
         y \in Places => Fits(y, n) /\ Awaited(y, n)' /\ Pending(y, n)',
         y \in Places /\ ~IsStore(y, n) =>
           \/ /\ x \in Places /\ ~IsStore(x, Head(Flight[x]))
              /\ Owner(x, Head(Flight[x])) = Owner(y, n)
           \/ Owner(y, n) = gone /\ ask[gone] = None,
         \A z \in Places : \A i \in DOMAIN Flight[z] : \A m :
           m = Flight[z][i] /\ IsStore(z, m) /\ ~(z = x /\ i = 1) => Pending(z, m)'
  PROVE  InFlight' /\ Unique(Flight')
<1>1. ASSUME NEW z \in Places, NEW i \in DOMAIN Flight[z], ~IsStore(z, Flight[z][i]),
             ask[gone] = None, Owner(z, Flight[z][i]) = gone
      PROVE  FALSE
  <2>1. Fits(z, Flight[z][i]) /\ Awaited(z, Flight[z][i])
    BY <1>1 DEF InFlight
  <2>2. Flight[z][i].addr \in Address
    BY <1>1, <2>1 DEF Fits, IsStore, ReadMsg, RespMsg, NocMsg, Places
  <2> QED BY <1>1, <2>1, <2>2, RequesterAssumption DEF Awaited
<1>2. Unique(Flight')
  <2>1. y \in Places /\ ~IsStore(y, n) =>
           \/ /\ x \in Places /\ ~IsStore(x, Head(Flight[x]))
              /\ Owner(x, Head(Flight[x])) = Owner(y, n)
           \/ \A z \in Places : \A i \in DOMAIN Flight[z] :
                ~IsStore(z, Flight[z][i]) => Owner(z, Flight[z][i]) # Owner(y, n)
    BY <1>1
  <2> HIDE DEF Flight
  <2> QED BY <2>1, StaysUnique
<1>3. ASSUME NEW z \in Places, NEW i \in DOMAIN Flight'[z], NEW m, m = Flight'[z][i]
      PROVE  Fits(z, m) /\ Awaited(z, m)' /\ Pending(z, m)'
  <2>1. CASE z = y /\ m = n
    BY <2>1
  <2>2. ASSUME Before(z, i, x) \in DOMAIN Flight[z], m = Flight[z][Before(z, i, x)],
               i \in Nat \ {0}
        PROVE  Fits(z, m) /\ Awaited(z, m)' /\ Pending(z, m)'
    <3>1. Fits(z, m) /\ Awaited(z, m) /\ ~(z = x /\ Before(z, i, x) = 1)
      BY <2>2 DEF InFlight, Before
    <3>2. Pending(z, m)'
      <4>1. IsStore(z, m) => Pending(z, m)'
        BY <2>2, <3>1
      <4> QED BY <4>1 DEF Pending
    <3>3. ~IsStore(z, m) => \/ Owner(z, m) # gone \/ gone \notin Requesters
                            \/ ask'[gone] = ask[gone] /\ seen[gone] \subseteq seen'[gone]
      <4> SUFFICES ASSUME ~IsStore(z, m), Owner(z, m) = gone, gone \in Requesters,
                          ~(ask'[gone] = ask[gone] /\ seen[gone] \subseteq seen'[gone])
                   PROVE  FALSE
        OBVIOUS
      <4>1. /\ x \in Places /\ ~IsStore(x, Head(Flight[x])) /\ Owner(x, Head(Flight[x])) = gone
        BY <1>1, <2>2
      <4>2. Flight[x] # <<>> /\ Flight[x] \in Seq(Msg)
        BY <4>1 DEF Shifted
      <4>3. 1 \in DOMAIN Flight[x] /\ Flight[x][1] = Head(Flight[x])
        BY <4>2, HeadFirst
      <4> QED BY <2>2, <3>1, <4>1, <4>3 DEF Unique
    <3>4. Awaited(z, m)'
      BY <3>1, <3>3 DEF Awaited
    <3> QED BY <3>1, <3>2, <3>4
  <2>3. \/ z = y /\ m = n
        \/ /\ Before(z, i, x) \in DOMAIN Flight[z] /\ m = Flight[z][Before(z, i, x)]
           /\ i \in Nat \ {0}
    <3> HIDE DEF Flight
    <3> QED BY <1>3, Origin
  <2> QED BY <2>1, <2>2, <2>3
<1> QED BY <1>2, <1>3 DEF InFlight

LEMMA StaysInOrder ==
  ASSUME NEW Q \in [Places -> Seq(Msg)], NEW P, NEW x, NEW y, NEW n,
         x # y, Shifted(Q, P, x, y, n), InOrder(Q),
         y \in Places /\ IsStore(y, n) =>
           \A w \in Places : \A j \in DOMAIN Q[w] :
             /\ IsStore(w, Q[w][j]) /\ ~(w = x /\ j = 1)
             /\ Q[w][j].data[1] = n.data[1] /\ Q[w][j].addr = n.addr
             => IF Stage(w) < Stage(y) THEN n.data[2] < Q[w][j].data[2]
                                       ELSE Q[w][j].data[2] < n.data[2]
  PROVE  InOrder(P)
<1> SUFFICES ASSUME NEW z \in Places, NEW w \in Places,
                    NEW i \in DOMAIN P[z], NEW j \in DOMAIN P[w],
                    IsStore(z, P[z][i]), IsStore(w, P[w][j]),
                    P[z][i].data[1] = P[w][j].data[1], P[z][i].addr = P[w][j].addr,
                    Stage(z) > Stage(w) \/ (z = w /\ i < j)
             PROVE  P[z][i].data[2] < P[w][j].data[2]
  BY DEF InOrder
<1> DEFINE Old(u, k) == /\ Before(u, k, x) \in DOMAIN Q[u] /\ P[u][k] = Q[u][Before(u, k, x)]
                        /\ k \in Nat \ {0}
           Came(u, k) == u = y /\ k = Len(Q[u]) + 1 /\ P[u][k] = n
<1>1. (Came(z, i) \/ Old(z, i)) /\ (Came(w, j) \/ Old(w, j))
  BY Origin
<1>2. Stage(z) \in Nat /\ Stage(w) \in Nat
  BY DEF Stage
<1>3. \A u \in Places : Len(Q[u]) \in Nat /\ DOMAIN Q[u] = 1..Len(Q[u])
  BY LenProperties
<1>4. \A u \in Places : \A k : Old(u, k) => ~(u = x /\ Before(u, k, x) = 1)
  BY DEF Before
<1>5. CASE Came(z, i) /\ Came(w, j)
  BY <1>2, <1>3, <1>5
<1>6. CASE Came(z, i) /\ Old(w, j)
  <2>1. Stage(w) < Stage(y)
    BY <1>2, <1>3, <1>6 DEF Before
  <2> QED BY <1>4, <1>6, <2>1
<1>7. CASE Old(z, i) /\ Came(w, j)
  <2>1. ~(Stage(z) < Stage(y))
    BY <1>2, <1>7
  <2> QED BY <1>4, <1>7, <2>1
<1>8. CASE Old(z, i) /\ Old(w, j)
  BY <1>8 DEF InOrder, Before
<1> QED BY <1>1, <1>5, <1>6, <1>7, <1>8

(* Stores of one requester to one address go one way.                      *)
LEMMA SameWay ==
  ASSUME NEW z \in Places, NEW w \in Places, NEW m, NEW l, Fits(z, m), Fits(w, l),
         IsStore(z, m), IsStore(w, l), m.data[1] = l.data[1], m.addr = l.addr,
         Stage(z) = Stage(w)
  PROVE  z = w
<1>1. CASE z[1] = "wr"
  <2>1. w[1] = "wr" /\ (z[3] = Noc <=> w[3] = Noc)
    BY <1>1 DEF Stage, IsStore, Places
  <2>2. z[2] = w[2] /\ z[3] = w[3]
    BY <1>1, <2>1 DEF Fits
  <2> QED BY <1>1, <2>1, <2>2 DEF Places
<1>2. CASE z[1] = "out"
  <2>1. w[1] = "out" /\ m.cmd = "STORE_REQUEST" /\ l.cmd = "STORE_REQUEST"
    BY <1>2 DEF Stage, IsStore, Places
  <2>2. z[2] = w[2] /\ z[3] = w[3]
    BY <1>2, <2>1 DEF Fits
  <2> QED BY <1>2, <2>1, <2>2 DEF Places
<1>3. CASE z[1] = "net"
  <2>1. w[1] = "net" /\ m.cmd = "STORE_REQUEST" /\ l.cmd = "STORE_REQUEST"
    BY <1>3 DEF Stage, IsStore, Places
  <2>2. z[2] = w[2] /\ z[3] = w[3]
    BY <1>3, <2>1 DEF Fits
  <2> QED BY <1>3, <2>1, <2>2 DEF Places
<1> QED BY <1>1, <1>2, <1>3 DEF IsStore

LEMMA HeadOf ==
  ASSUME MemTypeOK, InFlight, NEW z \in Places, Flight[z] # <<>>
  PROVE  /\ 1 \in DOMAIN Flight[z] /\ Flight[z][1] = Head(Flight[z])
         /\ Fits(z, Head(Flight[z])) /\ Awaited(z, Head(Flight[z])) /\ Pending(z, Head(Flight[z]))
<1>1. Flight[z] \in Seq(Msg)
  BY FlightTyped
<1> HIDE DEF Flight
<1>2. 1 \in DOMAIN Flight[z] /\ Flight[z][1] = Head(Flight[z])
  BY <1>1, HeadFirst
<1> QED BY <1>2 DEF InFlight

(* A store one stage further on is still in order.                         *)
LEMMA OrderKept ==
  ASSUME MemTypeOK, InFlight, InOrder(Flight),
         NEW x \in Places, NEW y \in Places, NEW n, x # y, Shifted(Flight, Flight', x, y, n),
         IsStore(y, n) => /\ IsStore(x, Head(Flight[x])) /\ Stage(y) = Stage(x) + 1
                          /\ n.data = Head(Flight[x]).data /\ n.addr = Head(Flight[x]).addr
  PROVE  InOrder(Flight')
<1>1. Flight \in [Places -> Seq(Msg)]
  BY FlightTyped
<1>2. Flight[x] # <<>>
  BY DEF Shifted
<1> DEFINE h == Head(Flight[x])
<1>3. 1 \in DOMAIN Flight[x] /\ Flight[x][1] = h /\ Fits(x, h)
  BY <1>2, HeadOf
<1>4. ASSUME IsStore(y, n), NEW w \in Places, NEW j \in DOMAIN Flight[w],
             IsStore(w, Flight[w][j]), ~(w = x /\ j = 1),
             Flight[w][j].data[1] = n.data[1], Flight[w][j].addr = n.addr
      PROVE  IF Stage(w) < Stage(y) THEN n.data[2] < Flight[w][j].data[2]
                                    ELSE Flight[w][j].data[2] < n.data[2]
  <2>1. Stage(x) \in Nat /\ Stage(w) \in Nat /\ Stage(y) = Stage(x) + 1
    BY <1>4 DEF Stage
  <2>2. IsStore(x, h) /\ h.data = n.data /\ h.addr = n.addr
    BY <1>4
  <2>3. Fits(w, Flight[w][j])
    BY DEF InFlight
  <2>4. Stage(w) = Stage(x) => w = x
    BY <1>3, <1>4, <2>2, <2>3, SameWay
  <2>5. w = x => 1 < j
    BY <1>1, <1>4, LenProperties
  <2> HIDE DEF Flight, h
  <2>6. Stage(w) > Stage(x) => Flight[w][j].data[2] < h.data[2]
    BY <1>3, <1>4, <2>2 DEF InOrder
  <2>7. Stage(x) > Stage(w) \/ (w = x /\ 1 < j) => h.data[2] < Flight[w][j].data[2]
    BY <1>3, <1>4, <2>2 DEF InOrder
  <2> QED BY <2>1, <2>2, <2>4, <2>5, <2>6, <2>7
<1> HIDE DEF Flight
<1> QED BY <1>1, <1>4, StaysInOrder
-----------------------------------------------------------------------------
(* A message that moves from one place to another.                         *)
Moves(x, y, n) ==
  LET h == Head(Flight[x]) IN
  /\ x \in Places /\ y \in Places /\ x # y /\ Shifted(Flight, Flight', x, y, n)
  /\ Fits(y, n)
  /\ n.addr = h.addr
  /\ IsStore(y, n) <=> IsStore(x, h)
  /\ IsStore(y, n) => n.data = h.data /\ Stage(y) = Stage(x) + 1
  /\ ~IsStore(y, n) => /\ Owner(y, n) = Owner(x, h)
                       /\ Carries(y, n) => n.data \in seen[Owner(y, n)]

LEMMA MoveKept ==
  ASSUME MemInv, NEW x, NEW y, NEW n, Moves(x, y, n), UNCHANGED <<ask, seen, issued, landed>>
  PROVE  InFlight' /\ Unique(Flight') /\ InOrder(Flight')
<1> DEFINE h == Head(Flight[x])
<1>1. MemTypeOK /\ InFlight /\ Unique(Flight) /\ InOrder(Flight) /\ Flight \in [Places -> Seq(Msg)]
  BY FlightTyped DEF MemInv
<1>2. /\ x \in Places /\ y \in Places /\ x # y /\ Shifted(Flight, Flight', x, y, n)
      /\ Fits(y, n)
      /\ n.addr = h.addr
      /\ IsStore(y, n) <=> IsStore(x, h)
      /\ IsStore(y, n) => n.data = h.data /\ Stage(y) = Stage(x) + 1
      /\ ~IsStore(y, n) => /\ Owner(y, n) = Owner(x, h)
                           /\ Carries(y, n) => n.data \in seen[Owner(y, n)]
  BY DEF Moves
<1>3. Flight[x] # <<>>
  BY <1>2 DEF Shifted
<1>4. Awaited(x, h) /\ Pending(x, h)
  BY <1>1, <1>2, <1>3, HeadOf
<1> HIDE DEF Flight, h
<1>5. InOrder(Flight')
  BY <1>1, <1>2, OrderKept DEF h
<1>6. Awaited(y, n) /\ Pending(y, n)
  BY <1>2, <1>4 DEF Awaited, Pending
<1>7. Awaited(y, n)' /\ Pending(y, n)'
  BY <1>6 DEF Awaited, Pending
<1>8. \A r \in Requesters : ask'[r] = ask[r] /\ seen[r] \subseteq seen'[r]
  OBVIOUS
<1>9. \A z \in Places : \A i \in DOMAIN Flight[z] : \A m :
        m = Flight[z][i] /\ IsStore(z, m) => Pending(z, m)'
  BY <1>1 DEF InFlight, Pending
<1>10. InFlight' /\ Unique(Flight')
  BY <1>1, <1>2, <1>7, <1>8, <1>9, FlightKept DEF h
<1> QED BY <1>5, <1>10
-----------------------------------------------------------------------------
LEMMA Triple ==
  ASSUME NEW A, NEW B, NEW C, NEW z \in A \X B \X C
  PROVE  z = <<z[1], z[2], z[3]>> /\ z[1] \in A /\ z[2] \in B /\ z[3] \in C
  OBVIOUS

(* The queues of one kind, when a message leaves x and n enters y.          *)
QueueShift(f, g, kind, A, B, x, y, n) ==
  /\ g \in [A \X B -> Seq(Msg)]
  /\ \A i \in A, j \in B :
       /\ <<kind, i, j>> = x => f[<<i, j>>] # <<>> /\ g[<<i, j>>] = Tail(f[<<i, j>>])
       /\ <<kind, i, j>> = y => g[<<i, j>>] = Append(f[<<i, j>>], n)
       /\ <<kind, i, j>> # x /\ <<kind, i, j>> # y => g[<<i, j>>] = f[<<i, j>>]

LEMMA ShiftNone ==
  ASSUME NEW A, NEW B, NEW f \in [A \X B -> Seq(Msg)], NEW g, g = f,
         NEW kind, NEW x, NEW y, NEW n, x[1] # kind, y[1] # kind
  PROVE  QueueShift(f, g, kind, A, B, x, y, n)
  BY DEF QueueShift

LEMMA ShiftTail ==
  ASSUME NEW A, NEW B, NEW f \in [A \X B -> Seq(Msg)], NEW g, NEW a \in A, NEW b \in B,
         g = [f EXCEPT ![<<a, b>>] = Tail(@)], f[<<a, b>>] # <<>>,
         NEW kind, NEW x, NEW y, NEW n, x = <<kind, a, b>>, y[1] # kind
  PROVE  QueueShift(f, g, kind, A, B, x, y, n)
<1>1. f[<<a, b>>] \in Seq(Msg)
  OBVIOUS
<1>2. Tail(f[<<a, b>>]) \in Seq(Msg)
  BY <1>1
<1>3. g \in [A \X B -> Seq(Msg)]
  BY <1>2
<1>4. \A i \in A, j \in B : g[<<i, j>>] = IF i = a /\ j = b THEN Tail(f[<<a, b>>])
                                                         ELSE f[<<i, j>>]
  OBVIOUS
<1>5. \A i \in A, j \in B : /\ <<kind, i, j>> = x <=> i = a /\ j = b
                             /\ <<kind, i, j>> # y
  OBVIOUS
<1>6. ASSUME NEW i \in A, NEW j \in B
      PROVE  /\ <<kind, i, j>> = x => f[<<i, j>>] # <<>> /\ g[<<i, j>>] = Tail(f[<<i, j>>])
             /\ <<kind, i, j>> = y => g[<<i, j>>] = Append(f[<<i, j>>], n)
             /\ <<kind, i, j>> # x /\ <<kind, i, j>> # y => g[<<i, j>>] = f[<<i, j>>]
  <2>1. g[<<i, j>>] = IF i = a /\ j = b THEN Tail(f[<<a, b>>]) ELSE f[<<i, j>>]
    BY <1>4
  <2>2. (<<kind, i, j>> = x <=> i = a /\ j = b) /\ <<kind, i, j>> # y
    BY <1>5
  <2> QED BY <2>1, <2>2, Zenon
<1> QED BY <1>3, <1>6, Zenon DEF QueueShift

LEMMA ShiftAppend ==
  ASSUME NEW A, NEW B, NEW f \in [A \X B -> Seq(Msg)], NEW g, NEW a \in A, NEW b \in B,
         NEW kind, NEW x, NEW y, NEW n \in Msg, y = <<kind, a, b>>, x[1] # kind,
         g = [f EXCEPT ![<<a, b>>] = Append(@, n)]
  PROVE  QueueShift(f, g, kind, A, B, x, y, n)
<1>1. f[<<a, b>>] \in Seq(Msg)
  OBVIOUS
<1>2. Append(f[<<a, b>>], n) \in Seq(Msg)
  BY <1>1
<1>3. g \in [A \X B -> Seq(Msg)]
  BY <1>2
<1>4. \A i \in A, j \in B : g[<<i, j>>] = IF i = a /\ j = b THEN Append(f[<<a, b>>], n)
                                                         ELSE f[<<i, j>>]
  OBVIOUS
<1>5. \A i \in A, j \in B : /\ <<kind, i, j>> = y <=> i = a /\ j = b
                             /\ <<kind, i, j>> # x
  OBVIOUS
<1>6. ASSUME NEW i \in A, NEW j \in B
      PROVE  /\ <<kind, i, j>> = x => f[<<i, j>>] # <<>> /\ g[<<i, j>>] = Tail(f[<<i, j>>])
             /\ <<kind, i, j>> = y => g[<<i, j>>] = Append(f[<<i, j>>], n)
             /\ <<kind, i, j>> # x /\ <<kind, i, j>> # y => g[<<i, j>>] = f[<<i, j>>]
  <2>1. g[<<i, j>>] = IF i = a /\ j = b THEN Append(f[<<a, b>>], n) ELSE f[<<i, j>>]
    BY <1>4
  <2>2. (<<kind, i, j>> = y <=> i = a /\ j = b) /\ <<kind, i, j>> # x
    BY <1>5
  <2> QED BY <2>1, <2>2, Zenon
<1> QED BY <1>3, <1>6, Zenon DEF QueueShift

LEMMA AtPlaces ==
  /\ \A c \in Cgra, p \in Port : /\ <<"rd", c, p>> \in Places /\ <<"wr", c, p>> \in Places
                                 /\ Flight[<<"rd", c, p>>] = rd[<<c, p>>]
                                 /\ Flight[<<"wr", c, p>>] = wr[<<c, p>>]
  /\ \A c \in Cgra, k \in 0..Away : /\ <<"resp", c, k>> \in Places
                                    /\ Flight[<<"resp", c, k>>] = resp[<<c, k>>]
  /\ \A c \in Cgra, q \in Kinds : /\ <<"out", c, q>> \in Places
                                  /\ Flight[<<"out", c, q>>] = out[<<c, q>>]
  /\ \A d, c \in Cgra : <<"net", d, c>> \in Places /\ Flight[<<"net", d, c>>] = net[<<d, c>>]
  BY DEF Places, Flight, Queue

LEMMA AtPlacesThen ==
  /\ \A c \in Cgra, p \in Port : /\ Flight'[<<"rd", c, p>>] = rd'[<<c, p>>]
                                 /\ Flight'[<<"wr", c, p>>] = wr'[<<c, p>>]
  /\ \A c \in Cgra, k \in 0..Away : Flight'[<<"resp", c, k>>] = resp'[<<c, k>>]
  /\ \A c \in Cgra, q \in Kinds : Flight'[<<"out", c, q>>] = out'[<<c, q>>]
  /\ \A d, c \in Cgra : Flight'[<<"net", d, c>>] = net'[<<d, c>>]
  BY DEF Places, Flight, Queue

(* What has to be shown of a step, queue by queue.                         *)
QueuesShift(x, y, n) ==
  /\ QueueShift(rd, rd', "rd", Cgra, Port, x, y, n)
  /\ QueueShift(wr, wr', "wr", Cgra, Port, x, y, n)
  /\ QueueShift(resp, resp', "resp", Cgra, 0..Away, x, y, n)
  /\ QueueShift(out, out', "out", Cgra, Kinds, x, y, n)
  /\ QueueShift(net, net', "net", Cgra, Cgra, x, y, n)

LEMMA ShiftedIf ==
  ASSUME NEW x, NEW y, NEW n, QueuesShift(x, y, n)
  PROVE  Shifted(Flight, Flight', x, y, n)
<1> SUFFICES ASSUME NEW z \in Places
             PROVE  /\ z = x => Flight[z] # <<>> /\ Flight'[z] = Tail(Flight[z])
                    /\ z = y => Flight'[z] = Append(Flight[z], n)
                    /\ z # x /\ z # y => Flight'[z] = Flight[z]
  BY DEF Shifted
<1>1. \/ \E c \in Cgra, p \in Port : z = <<"rd", c, p>> \/ z = <<"wr", c, p>>
      \/ \E c \in Cgra, k \in 0..Away : z = <<"resp", c, k>>
      \/ \E c \in Cgra, q \in Kinds : z = <<"out", c, q>>
      \/ \E d, c \in Cgra : z = <<"net", d, c>>
  <2>1. CASE z \in {"rd", "wr"} \X Cgra \X Port
    <3>1. z = <<z[1], z[2], z[3]>> /\ z[1] \in {"rd", "wr"} /\ z[2] \in Cgra /\ z[3] \in Port
      BY <2>1, Triple
    <3> QED BY <3>1
  <2>2. CASE z \in {"resp"} \X Cgra \X (0..Away)
    <3>1. z = <<z[1], z[2], z[3]>> /\ z[1] = "resp" /\ z[2] \in Cgra /\ z[3] \in 0..Away
      BY <2>2, Triple
    <3> QED BY <3>1
  <2>3. CASE z \in {"out"} \X Cgra \X Kinds
    <3>1. z = <<z[1], z[2], z[3]>> /\ z[1] = "out" /\ z[2] \in Cgra /\ z[3] \in Kinds
      BY <2>3, Triple
    <3> QED BY <3>1
  <2>4. CASE z \in {"net"} \X Cgra \X Cgra
    <3>1. z = <<z[1], z[2], z[3]>> /\ z[1] = "net" /\ z[2] \in Cgra /\ z[3] \in Cgra
      BY <2>4, Triple
    <3> QED BY <3>1
  <2> QED BY <2>1, <2>2, <2>3, <2>4 DEF Places
<1>2. CASE \E c \in Cgra, p \in Port : z = <<"rd", c, p>>
  <2>1. PICK c \in Cgra, p \in Port : z = <<"rd", c, p>>
    BY <1>2
  <2>2. Flight[z] = rd[<<c, p>>] /\ Flight'[z] = rd'[<<c, p>>]
    BY <2>1, AtPlaces, AtPlacesThen
  <2>3. /\ z = x => rd[<<c, p>>] # <<>> /\ rd'[<<c, p>>] = Tail(rd[<<c, p>>])
        /\ z = y => rd'[<<c, p>>] = Append(rd[<<c, p>>], n)
        /\ z # x /\ z # y => rd'[<<c, p>>] = rd[<<c, p>>]
    BY <2>1 DEF QueuesShift, QueueShift
  <2> QED BY <2>2, <2>3
<1>6. CASE \E c \in Cgra, p \in Port : z = <<"wr", c, p>>
  <2>1. PICK c \in Cgra, p \in Port : z = <<"wr", c, p>>
    BY <1>6
  <2>2. Flight[z] = wr[<<c, p>>] /\ Flight'[z] = wr'[<<c, p>>]
    BY <2>1, AtPlaces, AtPlacesThen
  <2>3. /\ z = x => wr[<<c, p>>] # <<>> /\ wr'[<<c, p>>] = Tail(wr[<<c, p>>])
        /\ z = y => wr'[<<c, p>>] = Append(wr[<<c, p>>], n)
        /\ z # x /\ z # y => wr'[<<c, p>>] = wr[<<c, p>>]
    BY <2>1 DEF QueuesShift, QueueShift
  <2> QED BY <2>2, <2>3
<1>3. CASE \E c \in Cgra, k \in 0..Away : z = <<"resp", c, k>>
  <2>1. PICK c \in Cgra, k \in 0..Away : z = <<"resp", c, k>>
    BY <1>3
  <2>2. Flight[z] = resp[<<c, k>>] /\ Flight'[z] = resp'[<<c, k>>]
    BY <2>1, AtPlaces, AtPlacesThen
  <2>3. /\ z = x => resp[<<c, k>>] # <<>> /\ resp'[<<c, k>>] = Tail(resp[<<c, k>>])
        /\ z = y => resp'[<<c, k>>] = Append(resp[<<c, k>>], n)
        /\ z # x /\ z # y => resp'[<<c, k>>] = resp[<<c, k>>]
    BY <2>1 DEF QueuesShift, QueueShift
  <2> QED BY <2>2, <2>3
<1>4. CASE \E c \in Cgra, q \in Kinds : z = <<"out", c, q>>
  <2>1. PICK c \in Cgra, q \in Kinds : z = <<"out", c, q>>
    BY <1>4
  <2>2. Flight[z] = out[<<c, q>>] /\ Flight'[z] = out'[<<c, q>>]
    BY <2>1, AtPlaces, AtPlacesThen
  <2>3. /\ z = x => out[<<c, q>>] # <<>> /\ out'[<<c, q>>] = Tail(out[<<c, q>>])
        /\ z = y => out'[<<c, q>>] = Append(out[<<c, q>>], n)
        /\ z # x /\ z # y => out'[<<c, q>>] = out[<<c, q>>]
    BY <2>1 DEF QueuesShift, QueueShift
  <2> QED BY <2>2, <2>3
<1>5. CASE \E d, c \in Cgra : z = <<"net", d, c>>
  <2>1. PICK d, c \in Cgra : z = <<"net", d, c>>
    BY <1>5
  <2>2. Flight[z] = net[<<d, c>>] /\ Flight'[z] = net'[<<d, c>>]
    BY <2>1, AtPlaces, AtPlacesThen
  <2>3. /\ z = x => net[<<d, c>>] # <<>> /\ net'[<<d, c>>] = Tail(net[<<d, c>>])
        /\ z = y => net'[<<d, c>>] = Append(net[<<d, c>>], n)
        /\ z # x /\ z # y => net'[<<d, c>>] = net[<<d, c>>]
    BY <2>1 DEF QueuesShift, QueueShift
  <2> QED BY <2>2, <2>3
<1> QED BY <1>1, <1>2, <1>3, <1>4, <1>5, <1>6

LEMMA TypesKept ==
  ASSUME MemTypeOK, NEW x, NEW y, NEW n, QueuesShift(x, y, n),
         UNCHANGED <<memory, ask, history>>
  PROVE  MemTypeOK'
  BY DEF MemTypeOK, QueuesShift, QueueShift, history

LEMMA MovedKeeps ==
  ASSUME MemInv, NEW x, NEW y, NEW n, Moves(x, y, n), QueuesShift(x, y, n),
         UNCHANGED <<memory, ask, history>>
  PROVE  MemInv'
<1>1. InFlight' /\ Unique(Flight') /\ InOrder(Flight')
  BY MoveKept DEF history
<1>2. MemTypeOK'
  BY TypesKept DEF MemInv
<1>3. Observed' /\ Counted'
  BY DEF MemInv, Observed, Counted, history
<1> QED BY <1>1, <1>2, <1>3 DEF MemInv
-----------------------------------------------------------------------------
LEMMA ReadAccessKeeps ==
  ASSUME MemInv, NEW c \in Cgra, NEW p \in Port, ReadAccess(c, p)
  PROVE  MemInv'
<1> DEFINE x == <<"rd", c, p>>
           h == Head(rd[<<c, p>>])
           b == bank_index(c, h.addr)
           y == <<"resp", c, b>>
           n == [dst |-> h.src, addr |-> h.addr, data |-> memory[<<c, b, h.addr % bank_size>>],
                 src_cgra |-> h.src_cgra, src_tile |-> h.src_tile,
                 remote_src_port |-> h.remote_src_port]
<1>1. MemTypeOK /\ InFlight /\ Observed
  BY DEF MemInv
<1>2. /\ rd[<<c, p>>] # <<>> /\ b # Away
      /\ resp' = [resp EXCEPT ![<<c, b>>] = Append(@, n)]
      /\ rd' = [rd EXCEPT ![<<c, p>>] = Tail(@)]
      /\ UNCHANGED <<wr, out, net, memory, ask, history>>
  BY DEF ReadAccess
<1>3. x \in Places /\ Flight[x] = rd[<<c, p>>]
  BY AtPlaces
<1>4. Fits(x, h) /\ Awaited(x, h)
  BY <1>1, <1>2, <1>3, HeadOf
<1>5. h \in ReadMsg
  BY <1>4 DEF Fits
<1>6. h.addr \in Address /\ h.src \in Port
  BY <1>5 DEF ReadMsg
<1>7. /\ b \in Bank /\ b \in 0..Away /\ y \in Places /\ Flight[y] = resp[<<c, b>>] /\ x # y
      /\ Place(h.addr) = <<c, b, h.addr % bank_size>>
  BY <1>2, <1>6, BankIndex, Ports, AtPlaces
<1>8. n \in RespMsg
  <2>1. memory[<<c, b, h.addr % bank_size>>] \in StoredWord
    BY <1>1, <1>6, <1>7, AddressParts DEF MemTypeOK
  <2> QED BY <1>5, <2>1 DEF ReadMsg, RespMsg, Tag
<1>9. Owner(y, n) = Owner(x, h) /\ ~IsStore(x, h) /\ ~IsStore(y, n)
  BY <1>4, <1>5 DEF Owner, IsStore, Fits, Sender
<1>10. n.data \in seen[Owner(y, n)]
  <2>1. Owner(x, h) \in Requesters /\ ask[Owner(x, h)] = h.addr
    BY <1>4, <1>9 DEF Awaited
  <2>2. h.addr # None
    BY <1>6, RequesterAssumption
  <2> QED BY <1>1, <1>7, <1>9, <2>1, <2>2 DEF Observed
<1> HIDE DEF b, n, h
<1>11. QueuesShift(x, y, n)
  <2>1. n \in Msg
    BY <1>8 DEF Msg
  <2>2. QueueShift(rd, rd', "rd", Cgra, Port, x, y, n)
    BY <1>1, <1>2, ShiftTail DEF MemTypeOK
  <2>3. QueueShift(resp, resp', "resp", Cgra, 0..Away, x, y, n)
    BY <1>1, <1>2, <1>7, <2>1, ShiftAppend DEF MemTypeOK
  <2> QED BY <1>1, <1>2, <2>2, <2>3, ShiftNone DEF MemTypeOK, QueuesShift
<1>12. Moves(x, y, n)
  BY <1>3, <1>7, <1>8, <1>9, <1>10, <1>11, ShiftedIf DEF Moves, Fits, h, n
<1> QED BY <1>2, <1>11, <1>12, MovedKeeps

LEMMA ReadAwayKeeps ==
  ASSUME MemInv, NEW c \in Cgra, NEW p \in Port, ReadAway(c, p)
  PROVE  MemInv'
<1> DEFINE x == <<"rd", c, p>>
           h == Head(rd[<<c, p>>])
           y == <<"out", c, "load">>
           n == Packet("LOAD_REQUEST", c, None, 0, 0, NocRemoteSrcPortType(h.src), h.addr, None)
<1>1. MemTypeOK /\ InFlight
  BY DEF MemInv
<1>2. /\ rd[<<c, p>>] # <<>> /\ bank_index(c, h.addr) = Away
      /\ out' = [out EXCEPT ![<<c, "load">>] = Append(@, n)]
      /\ rd' = [rd EXCEPT ![<<c, p>>] = Tail(@)]
      /\ UNCHANGED <<wr, resp, net, memory, ask, history>>
  BY DEF ReadAway
<1>3. x \in Places /\ Flight[x] = rd[<<c, p>>]
  BY AtPlaces
<1>4. Fits(x, h) /\ Awaited(x, h)
  BY <1>1, <1>2, <1>3, HeadOf
<1>5. h \in ReadMsg
  BY <1>4 DEF Fits
<1>6. h.addr \in Address /\ h.src \in Port
  BY <1>5 DEF ReadMsg
<1>7. addr2controller_lut(h.addr) # c /\ "load" \in Kinds /\ y \in Places /\ x # y
  BY <1>2, <1>6, BankIndex, AtPlaces DEF Kinds
<1>8. p # Noc /\ h.src = p /\ Owner(x, h) = <<c, p>> /\ <<c, p>> \in Requesters
  <2>1. p # Noc /\ h.src = p
    BY <1>4, <1>7 DEF Fits
  <2> QED BY <1>4, <2>1 DEF Owner, Awaited, IsStore
<1>9. NocRemoteSrcPortType(h.src) = p
  <2>1. h.addr \in Targets[<<c, p>>] /\ p # Cpu
    <3>1. ask[<<c, p>>] = h.addr /\ h.addr # None
      BY <1>4, <1>6, <1>8, RequesterAssumption DEF Awaited, IsStore
    <3> QED BY <1>1, <1>8, <3>1, Ports DEF MemTypeOK
  <2> QED BY <1>7, <1>8, <2>1, RequesterAssumption
<1>10. n \in NocMsg
  BY <1>6, <1>9 DEF NocMsg, Packet, Tag, StoredWord
<1>11. Owner(y, n) = Owner(x, h) /\ ~IsStore(x, h) /\ ~IsStore(y, n) /\ ~Carries(y, n)
  BY <1>8, <1>9, Ports DEF Owner, IsStore, Carries, Packet
<1>12. n.addr = h.addr /\ n.cmd = "LOAD_REQUEST"
  BY DEF Packet
<1> HIDE DEF n, h
<1>13. QueuesShift(x, y, n)
  <2>1. n \in Msg
    BY <1>10 DEF Msg
  <2>2. QueueShift(rd, rd', "rd", Cgra, Port, x, y, n)
    BY <1>1, <1>2, ShiftTail DEF MemTypeOK
  <2>3. QueueShift(out, out', "out", Cgra, Kinds, x, y, n)
    BY <1>1, <1>2, <1>7, <2>1, ShiftAppend DEF MemTypeOK
  <2> QED BY <1>1, <1>2, <2>2, <2>3, ShiftNone DEF MemTypeOK, QueuesShift
<1>14. Moves(x, y, n)
  BY <1>3, <1>7, <1>10, <1>11, <1>12, <1>13, ShiftedIf DEF Moves, Fits, h
<1> QED BY <1>2, <1>13, <1>14, MovedKeeps

LEMMA WriteAwayKeeps ==
  ASSUME MemInv, NEW c \in Cgra, NEW p \in Port, WriteAway(c, p)
  PROVE  MemInv'
<1> DEFINE x == <<"wr", c, p>>
           h == Head(wr[<<c, p>>])
           y == <<"out", c, "store">>
           n == Packet("STORE_REQUEST", c, None, 0, 0, NocRemoteSrcPortType(h.src), h.addr, h.data)
<1>1. MemTypeOK /\ InFlight
  BY DEF MemInv
<1>2. /\ wr[<<c, p>>] # <<>> /\ bank_index(c, h.addr) = Away
      /\ out' = [out EXCEPT ![<<c, "store">>] = Append(@, n)]
      /\ wr' = [wr EXCEPT ![<<c, p>>] = Tail(@)]
      /\ UNCHANGED <<rd, resp, net, memory, ask, history>>
  BY DEF WriteAway
<1>3. x \in Places /\ Flight[x] = wr[<<c, p>>]
  BY AtPlaces
<1>4. Fits(x, h)
  BY <1>1, <1>2, <1>3, HeadOf
<1>5. h \in WriteMsg
  BY <1>4 DEF Fits
<1>6. h.addr \in Address /\ h.src \in Port /\ h.data \in Stamp
  BY <1>5 DEF WriteMsg
<1>7. addr2controller_lut(h.addr) # c /\ "store" \in Kinds /\ y \in Places /\ x # y
  BY <1>2, <1>6, BankIndex, AtPlaces DEF Kinds
<1>8. p # Noc /\ h.data[1] = <<c, p>> /\ p # Cpu
  BY <1>4, <1>7, Ports DEF Fits
<1>9. n \in NocMsg
  BY <1>6 DEF NocMsg, Packet, Tag, StoredWord
<1>10. IsStore(x, h) /\ IsStore(y, n) /\ Stage(y) = Stage(x) + 1
  BY <1>8 DEF IsStore, Packet, Stage
<1>11. n.addr = h.addr /\ n.cmd = "STORE_REQUEST" /\ n.data = h.data
  BY DEF Packet
<1> HIDE DEF n, h
<1>12. QueuesShift(x, y, n)
  <2>1. n \in Msg
    BY <1>9 DEF Msg
  <2>2. QueueShift(wr, wr', "wr", Cgra, Port, x, y, n)
    BY <1>1, <1>2, ShiftTail DEF MemTypeOK
  <2>3. QueueShift(out, out', "out", Cgra, Kinds, x, y, n)
    BY <1>1, <1>2, <1>7, <2>1, ShiftAppend DEF MemTypeOK
  <2> QED BY <1>1, <1>2, <2>2, <2>3, ShiftNone DEF MemTypeOK, QueuesShift
<1>13. Fits(y, n)
  BY <1>6, <1>7, <1>8, <1>9, <1>11 DEF Fits
<1>14. Moves(x, y, n)
  BY <1>3, <1>7, <1>10, <1>11, <1>12, <1>13, ShiftedIf DEF Moves, h
<1> QED BY <1>2, <1>12, <1>14, MovedKeeps

LEMMA SendKeeps ==
  ASSUME MemInv, NEW c \in Cgra, NEW q \in Kinds, Send(c, q)
  PROVE  MemInv'
<1> DEFINE x == <<"out", c, q>>
           h == Head(out[<<c, q>>])
           d == IF h.cmd = "LOAD_RESPONSE" THEN h.dst ELSE addr2controller_lut(h.addr)
           y == <<"net", c, d>>
           n == [h EXCEPT !.dst = d]
<1>1. MemTypeOK /\ InFlight
  BY DEF MemInv
<1>2. /\ out[<<c, q>>] # <<>>
      /\ net' = [net EXCEPT ![<<c, d>>] = Append(@, n)]
      /\ out' = [out EXCEPT ![<<c, q>>] = Tail(@)]
      /\ UNCHANGED <<rd, wr, resp, memory, ask, history>>
  BY DEF Send
<1>3. x \in Places /\ Flight[x] = out[<<c, q>>]
  BY AtPlaces
<1>4. Fits(x, h) /\ Awaited(x, h)
  BY <1>1, <1>2, <1>3, HeadOf
<1>5. h \in NocMsg
  BY <1>4 DEF Fits
<1>6. h.addr \in Address
  BY <1>5 DEF NocMsg
<1>7. d \in Cgra /\ y \in Places /\ x # y
  BY <1>4, <1>6, AddressParts, AtPlaces DEF Fits
<1> HIDE DEF d
<1>8. /\ n \in NocMsg /\ n.addr = h.addr /\ n.cmd = h.cmd /\ n.data = h.data /\ n.dst = d
      /\ n.src = h.src /\ n.src_tile = h.src_tile /\ n.dst_tile = h.dst_tile
      /\ n.remote_src_port = h.remote_src_port
  BY <1>5, <1>7 DEF NocMsg
<1> HIDE DEF n, h
<1>9. Fits(y, n)
  <2>1. d = IF n.cmd = "LOAD_RESPONSE" THEN n.dst ELSE addr2controller_lut(n.addr)
    BY <1>8 DEF d
  <2>2. n.cmd = "STORE_REQUEST" =>
          /\ n.data \in Stamp /\ n.data[1][1] = c
          /\ n.data[1][2] # Cpu => d # c
    BY <1>4, <1>8, <2>1 DEF Fits
  <2> QED BY <1>8, <2>1, <2>2 DEF Fits
<1>10. (IsStore(y, n) <=> IsStore(x, h)) /\ Stage(y) = Stage(x) + 1
  BY <1>8 DEF IsStore, Stage
<1>11. ~IsStore(y, n) => /\ Owner(y, n) = Owner(x, h)
                         /\ Carries(y, n) <=> Carries(x, h)
  <2>1. h.cmd = "LOAD_RESPONSE" => d = h.dst
    BY DEF d
  <2> QED BY <1>8, <2>1 DEF Owner, IsStore, Carries
<1>12. ~IsStore(y, n) /\ Carries(y, n) => n.data \in seen[Owner(y, n)]
  BY <1>4, <1>8, <1>10, <1>11 DEF Awaited
<1>13. QueuesShift(x, y, n)
  <2>1. n \in Msg
    BY <1>8 DEF Msg
  <2>2. QueueShift(out, out', "out", Cgra, Kinds, x, y, n)
    BY <1>1, <1>2, ShiftTail DEF MemTypeOK
  <2>3. QueueShift(net, net', "net", Cgra, Cgra, x, y, n)
    BY <1>1, <1>2, <1>7, <2>1, ShiftAppend DEF MemTypeOK
  <2> QED BY <1>1, <1>2, <2>2, <2>3, ShiftNone DEF MemTypeOK, QueuesShift
<1>14. Moves(x, y, n)
  BY <1>3, <1>7, <1>8, <1>9, <1>10, <1>11, <1>12, <1>13, ShiftedIf DEF Moves, h
<1> QED BY <1>2, <1>13, <1>14, MovedKeeps

(* An answer that arrives is the last of its load.                         *)
LEMMA NowhereElse == Nowhere \notin Places /\ Nowhere[1] = "nowhere"
<1>1. \A z \in Places : z[1] \in {"rd", "wr", "resp", "out", "net"}
  BY Triple DEF Places
<1> QED BY <1>1 DEF Nowhere

LEMMA AnsweredKeeps ==
  ASSUME MemInv, NEW x \in Places, NEW r, Flight[x] # <<>>, ~IsStore(x, Head(Flight[x])),
         Owner(x, Head(Flight[x])) = r, Answered(r), QueuesShift(x, Nowhere, None),
         UNCHANGED <<memory, issued, landed, loads>>
  PROVE  MemInv'
<1>1. MemTypeOK /\ InFlight /\ Unique(Flight) /\ InOrder(Flight) /\ Observed
      /\ Flight \in [Places -> Seq(Msg)]
  BY FlightTyped DEF MemInv
<1>2. r \in Requesters
  BY <1>1, HeadOf DEF Awaited
<1>3. ask' = [ask EXCEPT ![r] = None] /\ seen' = [seen EXCEPT ![r] = {}]
  BY DEF Answered
<1>4. Shifted(Flight, Flight', x, Nowhere, None) /\ x # Nowhere /\ Nowhere \notin Places
  BY ShiftedIf, NowhereElse
<1>5. MemTypeOK'
  <2>1. /\ rd' \in [Cgra \X Port -> Seq(Msg)] /\ wr' \in [Cgra \X Port -> Seq(Msg)]
        /\ resp' \in [Cgra \X (0..Away) -> Seq(Msg)]
        /\ out' \in [Cgra \X Kinds -> Seq(Msg)]
        /\ net' \in [Cgra \X Cgra -> Seq(Msg)]
    BY DEF QueuesShift, QueueShift
  <2>2. /\ ask' \in [Requesters -> Address \cup {None}]
        /\ \A s \in Requesters : ask'[s] \in Targets[s] \cup {None}
        /\ seen' \in [Requesters -> SUBSET StoredWord]
    BY <1>1, <1>2, <1>3 DEF MemTypeOK
  <2>3. /\ memory' \in [Cgra \X Bank \X (0..(bank_size - 1)) -> StoredWord]
        /\ issued' \in [Requesters -> Nat]
        /\ landed' \in [Requesters -> [Address -> Nat]]
    BY <1>1 DEF MemTypeOK
  <2> QED BY <2>1, <2>2, <2>3 DEF MemTypeOK
<1>6. Observed' /\ Counted'
  BY <1>1, <1>2, <1>3 DEF MemInv, Observed, Counted, MemTypeOK
<1>7. \A s \in Requesters : s # r => ask'[s] = ask[s] /\ seen[s] \subseteq seen'[s]
  BY <1>1, <1>3 DEF MemTypeOK
<1>8. \A z \in Places : \A i \in DOMAIN Flight[z] : \A m :
        m = Flight[z][i] /\ IsStore(z, m) => Pending(z, m)'
  BY <1>1 DEF InFlight, Pending
<1> HIDE DEF Flight
<1>9. InFlight' /\ Unique(Flight')
  BY <1>1, <1>4, <1>7, <1>8, FlightKept
<1>10. InOrder(Flight')
  BY <1>1, <1>4, StaysInOrder
<1> QED BY <1>5, <1>6, <1>9, <1>10 DEF MemInv

LEMMA RespondKeeps ==
  ASSUME MemInv, NEW c \in Cgra, NEW k \in 0..Away, Respond(c, k)
  PROVE  MemInv'
<1> DEFINE x == <<"resp", c, k>>
           h == Head(resp[<<c, k>>])
           y == <<"out", c, "response">>
           n == Packet("LOAD_RESPONSE", c, h.src_cgra, 0, h.src_tile, h.remote_src_port,
                       h.addr, h.data)
<1>1. MemTypeOK /\ InFlight
  BY DEF MemInv
<1>2. /\ resp[<<c, k>>] # <<>>
      /\ resp' = [resp EXCEPT ![<<c, k>>] = Tail(@)]
      /\ UNCHANGED <<rd, wr, net, memory, issued, landed, loads>>
  BY DEF Respond
<1>3. x \in Places /\ Flight[x] = resp[<<c, k>>]
  BY AtPlaces
<1>4. Fits(x, h) /\ Awaited(x, h)
  BY <1>1, <1>2, <1>3, HeadOf
<1>5. h \in RespMsg
  BY <1>4 DEF Fits
<1>6. ~IsStore(x, h)
  BY DEF IsStore
<1>7. CASE h.dst = Noc
  <2>1. /\ out' = [out EXCEPT ![<<c, "response">>] = Append(@, n)]
        /\ UNCHANGED <<ask, seen>>
    BY <1>7 DEF Respond
  <2>2. y \in Places /\ x # y /\ "response" \in Kinds
    BY AtPlaces DEF Kinds
  <2>3. n \in NocMsg /\ n.addr = h.addr /\ n.cmd = "LOAD_RESPONSE" /\ n.data = h.data
        /\ n.dst \in Cgra
    BY <1>5 DEF RespMsg, NocMsg, Packet
  <2>4. Owner(y, n) = Owner(x, h) /\ ~IsStore(y, n)
    BY <1>7 DEF Owner, IsStore, Sender, Packet
  <2>5. n.data \in seen[Owner(y, n)]
    BY <1>4, <1>6, <2>3, <2>4 DEF Awaited, Carries
  <2> HIDE DEF n, h
  <2>6. QueuesShift(x, y, n)
    <3>1. n \in Msg
      BY <2>3 DEF Msg
    <3>2. QueueShift(resp, resp', "resp", Cgra, 0..Away, x, y, n)
      BY <1>1, <1>2, ShiftTail DEF MemTypeOK
    <3>3. QueueShift(out, out', "out", Cgra, Kinds, x, y, n)
      BY <1>1, <2>1, <2>2, <3>1, ShiftAppend DEF MemTypeOK
    <3> QED BY <1>1, <1>2, <3>2, <3>3, ShiftNone DEF MemTypeOK, QueuesShift
  <2>7. Moves(x, y, n)
    BY <1>3, <1>6, <2>2, <2>3, <2>4, <2>5, <2>6, ShiftedIf DEF Moves, Fits, h
  <2> QED BY <1>2, <2>1, <2>6, <2>7, MovedKeeps DEF history
<1>8. CASE h.dst # Noc
  <2>1. Answered(<<c, h.dst>>) /\ UNCHANGED out
    BY <1>8 DEF Respond
  <2>2. Owner(x, h) = <<c, h.dst>>
    BY <1>8 DEF Owner
  <2> HIDE DEF h
  <2>3. QueuesShift(x, Nowhere, None)
    <3>1. QueueShift(resp, resp', "resp", Cgra, 0..Away, x, Nowhere, None)
      BY <1>1, <1>2, ShiftTail, NowhereElse DEF MemTypeOK
    <3> QED BY <1>1, <1>2, <2>1, <3>1, ShiftNone, NowhereElse DEF MemTypeOK, QueuesShift
  <2> QED BY <1>2, <1>3, <1>6, <2>1, <2>2, <2>3, AnsweredKeeps DEF h
<1> QED BY <1>7, <1>8

LEMMA ReceiveKeeps ==
  ASSUME MemInv, NEW d \in Cgra, NEW c \in Cgra, Receive(d, c)
  PROVE  MemInv'
<1> DEFINE x == <<"net", d, c>>
           h == Head(net[<<d, c>>])
<1>1. MemTypeOK /\ InFlight
  BY DEF MemInv
<1>2. /\ net[<<d, c>>] # <<>>
      /\ net' = [net EXCEPT ![<<d, c>>] = Tail(@)]
      /\ UNCHANGED <<out, memory, issued, landed, loads>>
  BY DEF Receive
<1>3. x \in Places /\ Flight[x] = net[<<d, c>>]
  BY AtPlaces
<1>4. Fits(x, h) /\ Awaited(x, h)
  BY <1>1, <1>2, <1>3, HeadOf
<1>5. /\ h \in NocMsg
      /\ c = IF h.cmd = "LOAD_RESPONSE" THEN h.dst ELSE addr2controller_lut(h.addr)
      /\ h.cmd = "STORE_REQUEST" => /\ h.data \in Stamp /\ h.data[1][1] = d
                                    /\ h.data[1][2] # Cpu => c # d
  BY <1>4 DEF Fits
<1>6. Noc \in Port /\ Away \in 0..Away /\ 0 \in Port
  BY Ports
<1>7. CASE h.cmd = "LOAD_REQUEST"
  <2> DEFINE y == <<"rd", c, Noc>>
             n == [ReadPkt(h.src, h.remote_src_port, h.addr)
                     EXCEPT !.src = Noc, !.src_tile = h.src_tile]
  <2>1. /\ rd' = [rd EXCEPT ![<<c, Noc>>] = Append(@, n)]
        /\ UNCHANGED <<wr, resp, ask, seen>>
    BY <1>7 DEF Receive
  <2>2. y \in Places /\ x # y
    BY <1>6, AtPlaces
  <2>3. ReadPkt(h.src, h.remote_src_port, h.addr) \in
          [src : Tag, addr : Address, src_cgra : Cgra, src_tile : {0, Cpu}, remote_src_port : Tag]
    BY <1>5 DEF ReadPkt, NocMsg
  <2>4. /\ n \in ReadMsg /\ n.addr = h.addr /\ n.src = Noc /\ n.src_cgra = h.src
        /\ n.src_tile = h.src_tile /\ n.remote_src_port = h.remote_src_port
    BY <1>5, <1>6, <2>3 DEF NocMsg, ReadMsg, ReadPkt
  <2>5. Owner(y, n) = Owner(x, h) /\ ~IsStore(y, n) /\ ~IsStore(x, h) /\ ~Carries(y, n)
    BY <1>7, <2>4 DEF Owner, IsStore, Sender, Carries
  <2>6. Fits(y, n)
    BY <1>5, <1>7, <2>4 DEF Fits
  <2> HIDE DEF n, h
  <2>7. QueuesShift(x, y, n)
    <3>1. n \in Msg
      BY <2>4 DEF Msg
    <3>2. QueueShift(net, net', "net", Cgra, Cgra, x, y, n)
      BY <1>1, <1>2, ShiftTail DEF MemTypeOK
    <3>3. QueueShift(rd, rd', "rd", Cgra, Port, x, y, n)
      BY <1>1, <1>6, <2>1, <3>1, ShiftAppend DEF MemTypeOK
    <3> QED BY <1>1, <1>2, <2>1, <3>2, <3>3, ShiftNone DEF MemTypeOK, QueuesShift
  <2>8. Moves(x, y, n)
    BY <1>3, <2>2, <2>4, <2>5, <2>6, <2>7, ShiftedIf DEF Moves, h
  <2> QED BY <1>2, <2>1, <2>7, <2>8, MovedKeeps DEF history
<1>8. CASE h.cmd = "STORE_REQUEST"
  <2> DEFINE y == <<"wr", c, Noc>>
             n == [src |-> Noc, addr |-> h.addr, data |-> h.data]
  <2>1. /\ wr' = [wr EXCEPT ![<<c, Noc>>] = Append(@, n)]
        /\ UNCHANGED <<rd, resp, ask, seen>>
    BY <1>8 DEF Receive
  <2>2. y \in Places /\ x # y
    BY <1>6, AtPlaces
  <2>3. n \in WriteMsg
    BY <1>5, <1>6, <1>8 DEF NocMsg, WriteMsg
  <2>4. IsStore(y, n) /\ IsStore(x, h) /\ Stage(y) = Stage(x) + 1
    BY <1>8 DEF IsStore, Stage
  <2>5. Fits(y, n)
    BY <1>5, <1>8, <2>3 DEF Fits
  <2>6. n.addr = h.addr /\ n.data = h.data
    OBVIOUS
  <2> HIDE DEF n, h
  <2>7. QueuesShift(x, y, n)
    <3>1. n \in Msg
      BY <2>3 DEF Msg
    <3>2. QueueShift(net, net', "net", Cgra, Cgra, x, y, n)
      BY <1>1, <1>2, ShiftTail DEF MemTypeOK
    <3>3. QueueShift(wr, wr', "wr", Cgra, Port, x, y, n)
      BY <1>1, <1>6, <2>1, <3>1, ShiftAppend DEF MemTypeOK
    <3> QED BY <1>1, <1>2, <2>1, <3>2, <3>3, ShiftNone DEF MemTypeOK, QueuesShift
  <2>8. Moves(x, y, n)
    BY <1>3, <2>2, <2>4, <2>5, <2>6, <2>7, ShiftedIf DEF Moves, h
  <2> QED BY <1>2, <2>1, <2>7, <2>8, MovedKeeps DEF history
<1>9. CASE h.cmd = "LOAD_RESPONSE" /\ h.dst_tile = Cpu
  <2>1. Answered(<<Host, Cpu>>) /\ UNCHANGED <<rd, wr, resp>>
    BY <1>9 DEF Receive
  <2>2. ~IsStore(x, h) /\ Owner(x, h) = <<c, Cpu>>
    BY <1>5, <1>9 DEF Owner, IsStore
  <2>3. <<c, Cpu>> = <<Host, Cpu>>
    BY <1>4, <2>2, Ports DEF Awaited
  <2> HIDE DEF h
  <2>4. QueuesShift(x, Nowhere, None)
    <3>1. QueueShift(net, net', "net", Cgra, Cgra, x, Nowhere, None)
      BY <1>1, <1>2, ShiftTail, NowhereElse DEF MemTypeOK
    <3> QED BY <1>1, <1>2, <2>1, <3>1, ShiftNone, NowhereElse DEF MemTypeOK, QueuesShift
  <2> QED BY <1>2, <1>3, <2>1, <2>2, <2>3, <2>4, AnsweredKeeps DEF h
<1>10. CASE h.cmd = "LOAD_RESPONSE" /\ h.dst_tile # Cpu
  <2> DEFINE y == <<"resp", c, Away>>
             n == [dst |-> h.remote_src_port, addr |-> h.addr, data |-> h.data,
                   src_cgra |-> h.src, src_tile |-> h.src_tile, remote_src_port |-> 0]
  <2>1. /\ resp' = [resp EXCEPT ![<<c, Away>>] = Append(@, n)]
        /\ UNCHANGED <<rd, wr, ask, seen>>
    BY <1>10 DEF Receive
  <2>2. y \in Places /\ x # y
    BY <1>6, AtPlaces
  <2>3. n \in RespMsg
    BY <1>5, <1>6 DEF NocMsg, RespMsg, Tag
  <2>4. Owner(x, h) = <<c, h.remote_src_port>> /\ ~IsStore(x, h) /\ ~IsStore(y, n)
    BY <1>5, <1>10 DEF Owner, IsStore
  <2>5. h.remote_src_port # Noc
    BY <1>4, <2>4, Ports DEF Awaited
  <2>6. Owner(y, n) = Owner(x, h)
    BY <2>4, <2>5 DEF Owner
  <2>7. n.data \in seen[Owner(y, n)]
    BY <1>4, <1>10, <2>4, <2>6 DEF Awaited, Carries
  <2>8. n.addr = h.addr
    OBVIOUS
  <2> HIDE DEF n, h
  <2>9. QueuesShift(x, y, n)
    <3>1. n \in Msg
      BY <2>3 DEF Msg
    <3>2. QueueShift(net, net', "net", Cgra, Cgra, x, y, n)
      BY <1>1, <1>2, ShiftTail DEF MemTypeOK
    <3>3. QueueShift(resp, resp', "resp", Cgra, 0..Away, x, y, n)
      BY <1>1, <1>6, <2>1, <3>1, ShiftAppend DEF MemTypeOK
    <3> QED BY <1>1, <1>2, <2>1, <3>2, <3>3, ShiftNone DEF MemTypeOK, QueuesShift
  <2>10. Moves(x, y, n)
    BY <1>3, <2>2, <2>3, <2>4, <2>6, <2>7, <2>8, <2>9, ShiftedIf DEF Moves, Fits, h
  <2> QED BY <1>2, <2>1, <2>9, <2>10, MovedKeeps DEF history
<1> QED BY <1>5, <1>7, <1>8, <1>9, <1>10 DEF NocMsg
-----------------------------------------------------------------------------
(* The store that lands is the oldest of its requester to its address:     *)
(* none is further on, because at the end of its way it is.                *)
LEMMA Oldest ==
  ASSUME MemInv, NEW c \in Cgra, NEW p \in Port, WriteAccess(c, p),
         NEW z \in Places, NEW i \in DOMAIN Flight[z], NEW m, m = Flight[z][i], IsStore(z, m),
         ~(z = <<"wr", c, p>> /\ i = 1),
         m.data[1] = Head(wr[<<c, p>>]).data[1], m.addr = Head(wr[<<c, p>>]).addr
  PROVE  Head(wr[<<c, p>>]).data[2] < m.data[2]
<1> DEFINE x == <<"wr", c, p>>
           h == Head(wr[<<c, p>>])
<1>1. MemTypeOK /\ InFlight /\ InOrder(Flight) /\ Flight \in [Places -> Seq(Msg)]
  BY FlightTyped DEF MemInv
<1>2. wr[<<c, p>>] # <<>> /\ bank_index(c, h.addr) # Away
  BY DEF WriteAccess
<1>3. x \in Places /\ Flight[x] = wr[<<c, p>>]
  BY AtPlaces
<1>4. Fits(x, h) /\ 1 \in DOMAIN Flight[x] /\ Flight[x][1] = h
  BY <1>1, <1>2, <1>3, HeadOf
<1>5. h \in WriteMsg /\ IsStore(x, h)
  BY <1>4 DEF Fits, IsStore
<1>6. addr2controller_lut(m.addr) = c
  BY <1>2, <1>5, BankIndex DEF WriteMsg
<1>7. Fits(z, m)
  BY <1>1 DEF InFlight
<1>8. Stage(x) \in Nat /\ Stage(z) \in Nat
  BY DEF Stage
<1>9. ~(Stage(z) > Stage(x))
  <2>1. CASE p = Noc
    BY <2>1 DEF Stage
  <2>2. CASE p # Noc
    <3>1. m.data[1][1] = c /\ m.data[1][2] = p /\ p # Cpu
      BY <1>4, <2>2, Ports DEF Fits
    <3>2. CASE z[1] = "wr"
      BY <1>6, <1>7, <2>2, <3>1, <3>2 DEF Fits, Stage
    <3>3. CASE z[1] = "out"
      BY <1>6, <1>7, <3>1, <3>3 DEF Fits, IsStore
    <3>4. CASE z[1] = "net"
      BY <1>6, <1>7, <3>1, <3>4 DEF Fits, IsStore
    <3> QED BY <3>2, <3>3, <3>4 DEF IsStore
  <2> QED BY <2>1, <2>2
<1>10. Stage(x) > Stage(z) \/ (x = z /\ 1 < i)
  <2>1. CASE Stage(z) = Stage(x)
    <3>1. z = x
      BY <1>3, <1>4, <1>5, <1>7, <2>1, SameWay
    <3>2. i \in Nat \ {0}
      BY <1>1, LenProperties
    <3> QED BY <3>1, <3>2
  <2> QED BY <1>8, <1>9, <2>1
<1> HIDE DEF Flight, x, h
<1> QED BY <1>1, <1>3, <1>4, <1>5, <1>10 DEF InOrder, x, h

LEMMA WriteAccessKeeps ==
  ASSUME MemInv, NEW c \in Cgra, NEW p \in Port, WriteAccess(c, p)
  PROVE  MemInv' /\ \A r \in Requesters, a \in Address : landed'[r][a] >= landed[r][a]
<1> DEFINE x == <<"wr", c, p>>
           h == Head(wr[<<c, p>>])
           b == bank_index(c, h.addr)
<1>1. MemTypeOK /\ InFlight /\ Unique(Flight) /\ InOrder(Flight) /\ Observed
      /\ Flight \in [Places -> Seq(Msg)]
  BY FlightTyped DEF MemInv
<1>2. /\ wr[<<c, p>>] # <<>> /\ b # Away
      /\ memory' = [memory EXCEPT ![<<c, b, h.addr % bank_size>>] = h.data]
      /\ seen' = [r \in DOMAIN ask |-> IF ask[r] = h.addr THEN seen[r] \cup {h.data} ELSE seen[r]]
      /\ landed' = [landed EXCEPT ![h.data[1]][h.addr] = h.data[2]]
      /\ wr' = [wr EXCEPT ![<<c, p>>] = Tail(@)]
      /\ UNCHANGED <<rd, resp, out, net, ask, issued, loads>>
  BY DEF WriteAccess
<1>3. x \in Places /\ Flight[x] = wr[<<c, p>>]
  BY AtPlaces
<1>4. Fits(x, h) /\ Pending(x, h)
  BY <1>1, <1>2, <1>3, HeadOf
<1>5. h \in WriteMsg /\ IsStore(x, h)
  BY <1>4 DEF Fits, IsStore
<1>6. h.addr \in Address /\ h.data \in Stamp /\ h.data[1] \in Requesters /\ h.data[2] \in Nat
  BY <1>5 DEF WriteMsg, Stamp
<1>7. /\ Place(h.addr) = <<c, b, h.addr % bank_size>>
      /\ Place(h.addr) \in Cgra \X Bank \X (0..(bank_size - 1))
  BY <1>2, <1>6, BankIndex, PlaceTyped
<1>8. memory' = [memory EXCEPT ![Place(h.addr)] = h.data]
  BY <1>2, <1>7
<1>9. landed[h.data[1]][h.addr] < h.data[2] /\ h.data[2] <= issued[h.data[1]]
  BY <1>4, <1>5 DEF Pending
<1> HIDE DEF h, b
<1>10. /\ \A r \in Requesters, a \in Address :
            landed'[r][a] = IF r = h.data[1] /\ a = h.addr THEN h.data[2] ELSE landed[r][a]
       /\ landed' \in [Requesters -> [Address -> Nat]]
  BY <1>1, <1>2, <1>6 DEF MemTypeOK
<1>11. \A r \in Requesters, a \in Address : landed'[r][a] >= landed[r][a]
  <2>1. \A r \in Requesters, a \in Address : landed[r][a] \in Nat
    BY <1>1 DEF MemTypeOK
  <2> QED BY <1>6, <1>9, <1>10, <2>1
<1>12. \A r \in Requesters : ask'[r] = ask[r] /\ seen[r] \subseteq seen'[r]
  BY <1>1, <1>2 DEF MemTypeOK
<1>13. QueuesShift(x, Nowhere, None)
  <2>1. QueueShift(wr, wr', "wr", Cgra, Port, x, Nowhere, None)
    BY <1>1, <1>2, ShiftTail, NowhereElse DEF MemTypeOK
  <2> QED BY <1>1, <1>2, <2>1, ShiftNone, NowhereElse DEF MemTypeOK, QueuesShift
<1>14. Shifted(Flight, Flight', x, Nowhere, None) /\ x # Nowhere /\ Nowhere \notin Places
  BY <1>13, ShiftedIf, NowhereElse
<1>15. MemTypeOK'
  <2>1. /\ rd' \in [Cgra \X Port -> Seq(Msg)] /\ wr' \in [Cgra \X Port -> Seq(Msg)]
        /\ resp' \in [Cgra \X (0..Away) -> Seq(Msg)]
        /\ out' \in [Cgra \X Kinds -> Seq(Msg)]
        /\ net' \in [Cgra \X Cgra -> Seq(Msg)]
    BY <1>13 DEF QueuesShift, QueueShift
  <2>2. memory' \in [Cgra \X Bank \X (0..(bank_size - 1)) -> StoredWord]
    BY <1>1, <1>6, <1>8 DEF MemTypeOK, StoredWord
  <2>3. seen' \in [Requesters -> SUBSET StoredWord]
    BY <1>1, <1>2, <1>6 DEF MemTypeOK, StoredWord
  <2> QED BY <1>1, <1>2, <1>10, <2>1, <2>2, <2>3 DEF MemTypeOK
<1>16. Observed'
  <2> SUFFICES ASSUME NEW r \in Requesters, ask'[r] # None
               PROVE  memory'[Place(ask'[r])] \in seen'[r]
    BY DEF Observed
  <2>1. ask'[r] = ask[r] /\ ask[r] \in Address /\ memory[Place(ask[r])] \in seen[r]
    BY <1>1, <1>2 DEF MemTypeOK, Observed
  <2>2. CASE ask[r] = h.addr
    BY <1>1, <1>2, <1>7, <1>8, <2>1, <2>2 DEF MemTypeOK
  <2>3. CASE ask[r] # h.addr
    <3>1. Place(ask[r]) # Place(h.addr) /\ Place(ask[r]) \in Cgra \X Bank \X (0..(bank_size - 1))
      BY <1>6, <2>1, <2>3, PlaceInjective, PlaceTyped
    <3>2. memory'[Place(ask[r])] = memory[Place(ask[r])]
      BY <1>1, <1>8, <3>1 DEF MemTypeOK
    <3> QED BY <1>12, <2>1, <3>2
  <2> QED BY <2>2, <2>3
<1>17. ASSUME NEW z \in Places, NEW i \in DOMAIN Flight[z], NEW m, m = Flight[z][i],
              IsStore(z, m), ~(z = x /\ i = 1)
       PROVE  Pending(z, m)'
  <2>1. Pending(z, m) /\ Fits(z, m)
    BY <1>1, <1>17 DEF InFlight
  <2>2. m.addr \in Address /\ m.data[1] \in Requesters
    BY <1>17, <2>1 DEF Fits, IsStore, WriteMsg, NocMsg, Stamp, Places
  <2>3. m.data[1] = h.data[1] /\ m.addr = h.addr => h.data[2] < m.data[2]
    BY <1>17, Oldest DEF h
  <2> HIDE DEF Flight
  <2>4. landed'[m.data[1]][m.addr] < m.data[2]
    BY <1>10, <1>17, <2>1, <2>2, <2>3 DEF Pending
  <2> QED BY <1>2, <1>17, <2>1, <2>4 DEF Pending
<1> HIDE DEF Flight, x
<1>18. InFlight' /\ Unique(Flight')
  BY <1>1, <1>12, <1>14, <1>17, FlightKept
<1>19. InOrder(Flight')
  BY <1>1, <1>14, StaysInOrder
<1>20. Counted'
  BY <1>2, <1>9, <1>10 DEF MemInv, Counted
<1> QED BY <1>11, <1>15, <1>16, <1>18, <1>19, <1>20 DEF MemInv
-----------------------------------------------------------------------------
(* A requester that waits for nothing has no load on its way.              *)
LEMMA LoadEnters ==
  ASSUME MemInv, NEW r \in Requesters, NEW a \in Targets[r], NEW y \in Places, NEW n,
         ask[r] = None, Fits(y, n), ~IsStore(y, n), ~Carries(y, n), Owner(y, n) = r, n.addr = a,
         ask' = [ask EXCEPT ![r] = a], seen' = [seen EXCEPT ![r] = {memory[Place(a)]}],
         QueuesShift(Nowhere, y, n), UNCHANGED <<memory, issued, landed>>
  PROVE  MemInv'
<1>1. MemTypeOK /\ InFlight /\ Unique(Flight) /\ InOrder(Flight) /\ Observed
      /\ Flight \in [Places -> Seq(Msg)]
  BY FlightTyped DEF MemInv
<1>2. a \in Address
  BY RequesterAssumption
<1>3. Shifted(Flight, Flight', Nowhere, y, n) /\ y # Nowhere /\ Nowhere \notin Places
  BY ShiftedIf, NowhereElse
<1>4. /\ \A s \in Requesters : /\ ask'[s] = IF s = r THEN a ELSE ask[s]
                               /\ seen'[s] = IF s = r THEN {memory[Place(a)]} ELSE seen[s]
      /\ ask' \in [Requesters -> Address \cup {None}]
  BY <1>1, <1>2 DEF MemTypeOK
<1>5. MemTypeOK'
  <2>1. /\ rd' \in [Cgra \X Port -> Seq(Msg)] /\ wr' \in [Cgra \X Port -> Seq(Msg)]
        /\ resp' \in [Cgra \X (0..Away) -> Seq(Msg)]
        /\ out' \in [Cgra \X Kinds -> Seq(Msg)]
        /\ net' \in [Cgra \X Cgra -> Seq(Msg)]
    BY DEF QueuesShift, QueueShift
  <2>2. memory[Place(a)] \in StoredWord
    BY <1>1, <1>2, PlaceTyped DEF MemTypeOK
  <2>3. seen' \in [Requesters -> SUBSET StoredWord]
    BY <1>1, <2>2 DEF MemTypeOK
  <2>4. \A s \in Requesters : ask'[s] \in Targets[s] \cup {None}
    BY <1>1, <1>4 DEF MemTypeOK
  <2> QED BY <1>1, <1>4, <2>1, <2>3, <2>4 DEF MemTypeOK
<1>6. Observed' /\ Counted'
  BY <1>1, <1>4 DEF MemInv, Observed, Counted
<1>7. Awaited(y, n)' /\ Pending(y, n)'
  BY <1>4 DEF Awaited, Pending
<1>8. \A s \in Requesters : s # r => ask'[s] = ask[s] /\ seen[s] \subseteq seen'[s]
  BY <1>4
<1>9. \A z \in Places : \A i \in DOMAIN Flight[z] : \A m :
        m = Flight[z][i] /\ IsStore(z, m) => Pending(z, m)'
  BY <1>1 DEF InFlight, Pending
<1> HIDE DEF Flight
<1>10. InFlight' /\ Unique(Flight')
  BY <1>1, <1>3, <1>7, <1>8, <1>9, FlightKept
<1>11. InOrder(Flight')
  BY <1>1, <1>3, StaysInOrder
<1> QED BY <1>5, <1>6, <1>10, <1>11 DEF MemInv

LEMMA LoadKeeps ==
  ASSUME MemInv, NEW r \in Requesters, NEW a \in Targets[r], Load(r, a)
  PROVE  MemInv'
<1>1. MemTypeOK
  BY DEF MemInv
<1>2. /\ ask[r] = None /\ ask' = [ask EXCEPT ![r] = a]
      /\ seen' = [seen EXCEPT ![r] = {memory[Place(a)]}]
      /\ UNCHANGED <<wr, resp, net, memory, issued, landed>>
  BY DEF Load
<1>3. a \in Address
  BY RequesterAssumption
<1>4. CASE r[2] = Cpu
  <2> DEFINE y == <<"out", Host, "cpu">>
             n == Packet("LOAD_REQUEST", Host, None, Cpu, 0, 0, a, None)
  <2>1. out' = [out EXCEPT ![<<Host, "cpu">>] = Append(@, n)] /\ UNCHANGED rd
    BY <1>4 DEF Load
  <2>2. r = <<Host, Cpu>> /\ Host \in Cgra /\ 0 \in Port
    BY <1>4, Ports
  <2>3. y \in Places /\ "cpu" \in Kinds
    BY <2>2, AtPlaces DEF Kinds
  <2>4. n \in NocMsg /\ n.addr = a /\ n.cmd = "LOAD_REQUEST"
    BY <1>3, <2>2 DEF NocMsg, Packet, Tag, StoredWord
  <2>5. ~IsStore(y, n) /\ ~Carries(y, n) /\ Owner(y, n) = r
    BY <2>2 DEF IsStore, Carries, Owner, Packet
  <2> HIDE DEF n
  <2>6. Fits(y, n)
    BY <2>4 DEF Fits
  <2>7. QueuesShift(Nowhere, y, n)
    <3>1. n \in Msg
      BY <2>4 DEF Msg
    <3>2. QueueShift(out, out', "out", Cgra, Kinds, Nowhere, y, n)
      BY <1>1, <2>1, <2>2, <2>3, <3>1, ShiftAppend, NowhereElse DEF MemTypeOK
    <3> QED BY <1>1, <1>2, <2>1, <3>2, ShiftNone, NowhereElse DEF MemTypeOK, QueuesShift
  <2> QED BY <1>2, <2>3, <2>4, <2>5, <2>6, <2>7, LoadEnters
<1>5. CASE r[2] # Cpu
  <2> DEFINE y == <<"rd", r[1], r[2]>>
             n == ReadPkt(r[1], r[2], a)
  <2>1. rd' = [rd EXCEPT ![r] = Append(@, n)] /\ UNCHANGED out
    BY <1>5 DEF Load
  <2>2. r[1] \in Cgra /\ r[2] \in Port /\ r[2] # Noc /\ r = <<r[1], r[2]>>
    BY <1>5, Ports
  <2>3. y \in Places
    BY <2>2, AtPlaces
  <2>4. n \in ReadMsg /\ n.addr = a /\ n.src = r[2] /\ n.src_cgra = r[1] /\ n.src_tile = 0
    BY <1>3, <2>2 DEF ReadMsg, ReadPkt, Tag
  <2>5. ~IsStore(y, n) /\ ~Carries(y, n) /\ Owner(y, n) = r
    BY <2>2 DEF IsStore, Carries, Owner
  <2> HIDE DEF n
  <2>6. Fits(y, n)
    BY <2>2, <2>4 DEF Fits
  <2>7. QueuesShift(Nowhere, y, n)
    <3>1. n \in Msg
      BY <2>4 DEF Msg
    <3>2. rd' = [rd EXCEPT ![<<r[1], r[2]>>] = Append(@, n)]
      BY <2>1, <2>2
    <3>3. QueueShift(rd, rd', "rd", Cgra, Port, Nowhere, y, n)
      BY <1>1, <2>2, <3>1, <3>2, ShiftAppend, NowhereElse DEF MemTypeOK
    <3> QED BY <1>1, <1>2, <2>1, <3>3, ShiftNone, NowhereElse DEF MemTypeOK, QueuesShift
  <2> QED BY <1>2, <2>3, <2>4, <2>5, <2>6, <2>7, LoadEnters
<1> QED BY <1>4, <1>5

(* A new store has the highest number, and goes where its requester's      *)
(* stores begin.                                                           *)
LEMMA StoreEnters ==
  ASSUME MemInv, NEW r \in Requesters, NEW y \in Places, NEW n, Fits(y, n), IsStore(y, n),
         n.data = <<r, issued[r] + 1>>, n.addr \in Address,
         IF r[2] = Cpu THEN y[1] = "out" ELSE y[1] = "wr" /\ y[3] # Noc,
         issued' = [issued EXCEPT ![r] = @ + 1],
         QueuesShift(Nowhere, y, n), UNCHANGED <<memory, ask, seen, landed>>
  PROVE  MemInv'
<1>1. MemTypeOK /\ InFlight /\ Unique(Flight) /\ InOrder(Flight) /\ Observed
      /\ Flight \in [Places -> Seq(Msg)]
  BY FlightTyped DEF MemInv
<1>2. Shifted(Flight, Flight', Nowhere, y, n) /\ y # Nowhere /\ Nowhere \notin Places
  BY ShiftedIf, NowhereElse
<1>3. /\ \A s \in Requesters : issued'[s] = IF s = r THEN issued[s] + 1 ELSE issued[s]
      /\ \A s \in Requesters : issued[s] \in Nat /\ issued'[s] \in Nat
      /\ issued' \in [Requesters -> Nat]
  BY <1>1 DEF MemTypeOK
<1>4. MemTypeOK'
  <2>1. /\ rd' \in [Cgra \X Port -> Seq(Msg)] /\ wr' \in [Cgra \X Port -> Seq(Msg)]
        /\ resp' \in [Cgra \X (0..Away) -> Seq(Msg)]
        /\ out' \in [Cgra \X Kinds -> Seq(Msg)]
        /\ net' \in [Cgra \X Cgra -> Seq(Msg)]
    BY DEF QueuesShift, QueueShift
  <2> QED BY <1>1, <1>3, <2>1 DEF MemTypeOK
<1>5. Observed' /\ Counted'
  <2>1. \A s \in Requesters, a \in Address : landed[s][a] \in Nat /\ landed[s][a] <= issued[s]
    BY <1>1 DEF MemInv, MemTypeOK, Counted
  <2>2. Counted'
    BY <1>3, <2>1 DEF Counted
  <2> QED BY <1>1, <2>2 DEF Observed
<1>6. n.data[1] = r /\ n.data[2] = issued[r] + 1
  OBVIOUS
<1>7. Awaited(y, n)' /\ Pending(y, n)'
  <2>1. landed'[r][n.addr] < issued[r] + 1 /\ issued[r] + 1 <= issued'[r]
    <3>1. landed[r][n.addr] \in Nat /\ landed[r][n.addr] <= issued[r]
      BY <1>1 DEF MemInv, MemTypeOK, Counted
    <3> QED BY <1>3, <3>1
  <2> QED BY <1>6, <2>1 DEF Awaited, Pending
<1>8. ASSUME NEW z \in Places, NEW i \in DOMAIN Flight[z], NEW m, m = Flight[z][i], IsStore(z, m)
      PROVE  /\ Pending(z, m) /\ Fits(z, m) /\ m.data[1] \in Requesters /\ m.data[2] \in Nat
             /\ Pending(z, m)'
  <2>1. Pending(z, m) /\ Fits(z, m)
    BY <1>1, <1>8 DEF InFlight
  <2>2. m.data[1] \in Requesters /\ m.data[2] \in Nat
    BY <1>8, <2>1 DEF Fits, IsStore, WriteMsg, Stamp, Places
  <2>3. m.data[2] <= issued'[m.data[1]]
    BY <1>3, <1>8, <2>1, <2>2 DEF Pending
  <2> QED BY <1>8, <2>1, <2>2, <2>3 DEF Pending
<1>9. ASSUME NEW w \in Places, NEW j \in DOMAIN Flight[w], NEW m, m = Flight[w][j],
             IsStore(w, m), m.data[1] = r
      PROVE  m.data[2] < n.data[2] /\ ~(Stage(w) < Stage(y))
  <2>1. Fits(w, m) /\ m.data[2] <= issued[r] /\ m.data[2] \in Nat
    BY <1>8, <1>9 DEF Pending
  <2>2. Stage(w) \in Nat /\ Stage(y) \in Nat
    BY DEF Stage
  <2>3. CASE r[2] = Cpu
    <3>1. Stage(y) = 1
      BY <2>3 DEF Stage
    <3>2. ~(w[1] = "wr" /\ w[3] # Noc)
      <4>1. w[1] = "wr" => w[3] \in Port
        BY Triple DEF Places
      <4> QED BY <1>9, <2>1, <2>3, <4>1, Ports DEF Fits
    <3>3. Stage(w) >= 1
      BY <1>9, <3>2 DEF Stage, IsStore
    <3> QED BY <1>3, <1>6, <2>1, <2>2, <3>1, <3>3
  <2>4. CASE r[2] # Cpu
    <3>1. Stage(y) = 0
      BY <2>4 DEF Stage
    <3> QED BY <1>3, <1>6, <2>1, <2>2, <3>1
  <2> QED BY <2>3, <2>4
<1>10. \A s \in Requesters : ask'[s] = ask[s] /\ seen[s] \subseteq seen'[s]
  OBVIOUS
<1> HIDE DEF Flight
<1>11. InFlight' /\ Unique(Flight')
  BY <1>1, <1>2, <1>7, <1>8, <1>10, FlightKept
<1>12. InOrder(Flight')
  BY <1>1, <1>2, <1>6, <1>9, StaysInOrder
<1> QED BY <1>4, <1>5, <1>11, <1>12 DEF MemInv

LEMMA StoreKeeps ==
  ASSUME MemInv, NEW r \in Requesters, NEW a \in Targets[r], Store(r, a)
  PROVE  MemInv'
<1> DEFINE word == <<r, issued[r] + 1>>
<1>1. MemTypeOK
  BY DEF MemInv
<1>2. issued' = [issued EXCEPT ![r] = @ + 1] /\ UNCHANGED <<rd, resp, net, memory, ask, seen, landed>>
  BY DEF Store
<1>3. a \in Address /\ word \in Stamp /\ word[1] = r
  BY <1>1, RequesterAssumption DEF MemTypeOK, Stamp
<1>4. CASE r[2] = Cpu
  <2> DEFINE y == <<"out", Host, "cpu">>
             n == Packet("STORE_REQUEST", Host, None, Cpu, 0, 0, a, word)
  <2>1. out' = [out EXCEPT ![<<Host, "cpu">>] = Append(@, n)] /\ UNCHANGED wr
    BY <1>4 DEF Store
  <2>2. r = <<Host, Cpu>> /\ Host \in Cgra /\ 0 \in Port
    BY <1>4, Ports
  <2>3. y \in Places /\ "cpu" \in Kinds
    BY <2>2, AtPlaces DEF Kinds
  <2> HIDE DEF word
  <2>4. n \in NocMsg /\ n.addr = a /\ n.cmd = "STORE_REQUEST" /\ n.data = word
    BY <1>3, <2>2 DEF NocMsg, Packet, Tag, StoredWord
  <2>5. IsStore(y, n)
    BY DEF IsStore, Packet
  <2> HIDE DEF n
  <2>6. Fits(y, n)
    BY <1>3, <2>2, <2>4 DEF Fits
  <2>7. QueuesShift(Nowhere, y, n)
    <3>1. n \in Msg
      BY <2>4 DEF Msg
    <3>2. QueueShift(out, out', "out", Cgra, Kinds, Nowhere, y, n)
      BY <1>1, <2>1, <2>2, <2>3, <3>1, ShiftAppend, NowhereElse DEF MemTypeOK
    <3> QED BY <1>1, <1>2, <2>1, <3>2, ShiftNone, NowhereElse DEF MemTypeOK, QueuesShift
  <2> QED BY <1>2, <1>3, <1>4, <2>3, <2>4, <2>5, <2>6, <2>7, StoreEnters DEF word
<1>5. CASE r[2] # Cpu
  <2> DEFINE y == <<"wr", r[1], r[2]>>
             n == [src |-> r[2], addr |-> a, data |-> word]
  <2>1. wr' = [wr EXCEPT ![r] = Append(@, n)] /\ UNCHANGED out
    BY <1>5 DEF Store
  <2>2. r[1] \in Cgra /\ r[2] \in Port /\ r[2] # Noc /\ r = <<r[1], r[2]>>
    BY <1>5, Ports
  <2>3. y \in Places
    BY <2>2, AtPlaces
  <2> HIDE DEF word
  <2>4. n \in WriteMsg /\ n.addr = a /\ n.data = word
    BY <1>3, <2>2 DEF WriteMsg
  <2>5. IsStore(y, n)
    BY DEF IsStore
  <2> HIDE DEF n
  <2>6. Fits(y, n)
    BY <1>3, <2>2, <2>4 DEF Fits
  <2>7. QueuesShift(Nowhere, y, n)
    <3>1. n \in Msg
      BY <2>4 DEF Msg
    <3>2. wr' = [wr EXCEPT ![<<r[1], r[2]>>] = Append(@, n)]
      BY <2>1, <2>2
    <3>3. QueueShift(wr, wr', "wr", Cgra, Port, Nowhere, y, n)
      BY <1>1, <2>2, <3>1, <3>2, ShiftAppend, NowhereElse DEF MemTypeOK
    <3> QED BY <1>1, <1>2, <2>1, <3>3, ShiftNone, NowhereElse DEF MemTypeOK, QueuesShift
  <2>8. y[1] = "wr" /\ y[3] # Noc
    BY <2>2
  <2> HIDE DEF y
  <2> QED BY <1>2, <1>3, <1>5, <2>3, <2>4, <2>5, <2>6, <2>7, <2>8, StoreEnters DEF word
<1> QED BY <1>4, <1>5
-----------------------------------------------------------------------------
LEMMA MemInit == Init => MemInv
<1> SUFFICES ASSUME Init
             PROVE  MemInv
  OBVIOUS
<1>1. MemTypeOK
  <2>1. <<>> \in Seq(Msg)
    OBVIOUS
  <2> QED BY <2>1 DEF Init, MemTypeOK, StoredWord
<1>2. \A z \in Places : Flight[z] = <<>>
  <2> SUFFICES ASSUME NEW z \in Places
               PROVE  Flight[z] = <<>>
    OBVIOUS
  <2>1. /\ \A c \in Cgra, p \in Port : rd[<<c, p>>] = <<>> /\ wr[<<c, p>>] = <<>>
        /\ \A c \in Cgra, k \in 0..Away : resp[<<c, k>>] = <<>>
        /\ \A c \in Cgra, q \in Kinds : out[<<c, q>>] = <<>>
        /\ \A d, c \in Cgra : net[<<d, c>>] = <<>>
    BY DEF Init
  <2>2. /\ z[1] \in {"rd", "wr"} => z[2] \in Cgra /\ z[3] \in Port
        /\ z[1] = "resp" => z[2] \in Cgra /\ z[3] \in 0..Away
        /\ z[1] = "out" => z[2] \in Cgra /\ z[3] \in Kinds
        /\ z[1] = "net" => z[2] \in Cgra /\ z[3] \in Cgra
        /\ z[1] \in {"rd", "wr", "resp", "out", "net"}
    BY DEF Places
  <2> QED BY <2>1, <2>2 DEF Flight, Queue
<1>3. \A z \in Places : DOMAIN Flight[z] = {}
  BY <1>2
<1> HIDE DEF Flight
<1>4. InFlight /\ Unique(Flight) /\ InOrder(Flight)
  BY <1>3 DEF InFlight, Unique, InOrder
<1>5. Observed /\ Counted
  BY DEF Init, Observed, Counted
<1> QED BY <1>1, <1>4, <1>5 DEF MemInv

LEMMA MemStutter ==
  ASSUME MemInv, UNCHANGED vars
  PROVE  MemInv'
<1>1. UNCHANGED <<rd, wr, resp, out, net, memory, ask, issued, seen, landed>>
  BY DEF vars, queues, history
<1>2. Flight' = Flight
  BY <1>1 DEF Flight, Queue
<1>3. MemTypeOK'
  BY <1>1 DEF MemInv, MemTypeOK
<1>4. Unique(Flight') /\ InOrder(Flight')
  BY <1>2 DEF MemInv
<1>5. Observed' /\ Counted'
  BY <1>1 DEF MemInv, Observed, Counted
<1> HIDE DEF Flight
<1>6. InFlight'
  BY <1>1, <1>2 DEF MemInv, InFlight, Awaited, Pending
<1> QED BY <1>3, <1>4, <1>5, <1>6 DEF MemInv

(* A step keeps the invariant, and only the access of a store changes what *)
(* has landed.                                                             *)
LEMMA MemStep ==
  ASSUME MemInv, [Next]_vars
  PROVE  MemInv' /\ \A r \in Requesters, a \in Address : landed'[r][a] >= landed[r][a]
<1>1. ASSUME UNCHANGED landed
      PROVE  \A r \in Requesters, a \in Address : landed'[r][a] >= landed[r][a]
  <2>1. \A r \in Requesters, a \in Address : landed[r][a] \in Nat
    BY DEF MemInv, MemTypeOK
  <2> QED BY <1>1, <2>1
<1>2. ASSUME NEW r \in Requesters, NEW a \in Targets[r], Load(r, a)
      PROVE  MemInv' /\ UNCHANGED landed
  BY <1>2, LoadKeeps DEF Load
<1>3. ASSUME NEW r \in Requesters, NEW a \in Targets[r], Store(r, a)
      PROVE  MemInv' /\ UNCHANGED landed
  BY <1>3, StoreKeeps DEF Store
<1>4. ASSUME NEW c \in Cgra, NEW p \in Port, ReadAccess(c, p)
      PROVE  MemInv' /\ UNCHANGED landed
  BY <1>4, ReadAccessKeeps DEF ReadAccess, history
<1>5. ASSUME NEW c \in Cgra, NEW p \in Port, ReadAway(c, p)
      PROVE  MemInv' /\ UNCHANGED landed
  BY <1>5, ReadAwayKeeps DEF ReadAway, history
<1>6. ASSUME NEW c \in Cgra, NEW p \in Port, WriteAway(c, p)
      PROVE  MemInv' /\ UNCHANGED landed
  BY <1>6, WriteAwayKeeps DEF WriteAway, history
<1>7. ASSUME NEW c \in Cgra, NEW k \in 0..Away, Respond(c, k)
      PROVE  MemInv' /\ UNCHANGED landed
  BY <1>7, RespondKeeps DEF Respond
<1>8. ASSUME NEW c \in Cgra, NEW q \in Kinds, Send(c, q)
      PROVE  MemInv' /\ UNCHANGED landed
  BY <1>8, SendKeeps DEF Send, history
<1>9. ASSUME NEW d \in Cgra, NEW c \in Cgra, Receive(d, c)
      PROVE  MemInv' /\ UNCHANGED landed
  BY <1>9, ReceiveKeeps DEF Receive
<1>10. CASE Request
  BY <1>1, <1>2, <1>3, <1>10 DEF Request
<1>11. CASE Move
  BY <1>1, <1>4, <1>5, <1>6, <1>7, <1>8, <1>9, <1>11, WriteAccessKeeps DEF Move
<1>12. CASE UNCHANGED vars
  BY <1>1, <1>12, MemStutter DEF vars, history
<1> QED BY <1>10, <1>11, <1>12 DEF Next
-----------------------------------------------------------------------------
LEMMA MemSafe == MemInv => LoadsRegular
<1> SUFFICES ASSUME MemInv
             PROVE  LoadsRegular
  OBVIOUS
<1>1. ASSUME NEW c \in Cgra, NEW k \in 0..Away, NEW i \in DOMAIN resp[<<c, k>>],
             NEW m, m = resp[<<c, k>>][i]
      PROVE  Belongs(IF m.dst # Noc THEN <<c, m.dst>>
                     ELSE <<m.src_cgra, IF m.src_tile = Cpu THEN Cpu ELSE m.remote_src_port>>, m)
  <2> DEFINE z == <<"resp", c, k>>
  <2>1. z \in Places /\ Flight[z] = resp[<<c, k>>]
    BY AtPlaces
  <2>2. Awaited(z, m) /\ ~IsStore(z, m) /\ Carries(z, m)
    BY <1>1, <2>1 DEF MemInv, InFlight, IsStore, Carries
  <2>3. Owner(z, m) = IF m.dst # Noc THEN <<c, m.dst>>
                      ELSE <<m.src_cgra, IF m.src_tile = Cpu THEN Cpu ELSE m.remote_src_port>>
    BY DEF Owner, Sender
  <2> QED BY <2>2, <2>3 DEF Awaited, Belongs
<1>2. ASSUME NEW d \in Cgra, NEW c \in Cgra, NEW i \in DOMAIN net[<<d, c>>],
             NEW m, m = net[<<d, c>>][i], m.cmd = "LOAD_RESPONSE"
      PROVE  Belongs(<<c, IF m.dst_tile = Cpu THEN Cpu ELSE m.remote_src_port>>, m)
  <2> DEFINE z == <<"net", d, c>>
  <2>1. z \in Places /\ Flight[z] = net[<<d, c>>]
    BY AtPlaces
  <2>2. Awaited(z, m) /\ Fits(z, m) /\ ~IsStore(z, m) /\ Carries(z, m)
    BY <1>2, <2>1 DEF MemInv, InFlight, IsStore, Carries
  <2>3. Owner(z, m) = <<c, IF m.dst_tile = Cpu THEN Cpu ELSE m.remote_src_port>>
    BY <1>2, <2>2 DEF Owner, Fits
  <2> QED BY <2>2, <2>3 DEF Awaited, Belongs
<1> QED BY <1>1, <1>2 DEF LoadsRegular

(* The scratchpads answer every load with a word the address held while    *)
(* it waited, at the port of the CGRA it came from, and only once: a load  *)
(* is in one place at a time, and the port it is to come back to is in the *)
(* message wherever it is (mem/data/DataMemControllerRTL.py and            *)
(* controller/ControllerRTL.py).                                           *)
THEOREM Regular == Spec => []LoadsRegular
<1>1. MemInv /\ [Next]_vars => MemInv'
  BY MemStep
<1> QED BY <1>1, MemInit, MemSafe, PTL DEF Spec

(* No store overtakes an older one of its requester to its address: they   *)
(* all go one way, through queues, and end where the address is (the write *)
(* crossbar of mem/data/DataMemControllerRTL.py and the two ways out of a  *)
(* CGRA in controller/ControllerRTL.py).                                   *)
THEOREM OldestFirst == Spec => StoresInOrder
<1> DEFINE Later == \A r \in Requesters, a \in Address : landed'[r][a] >= landed[r][a]
<1>1. MemInv /\ [Next]_vars => MemInv' /\ Later
  BY MemStep
<1>2. MemInv /\ [Next]_vars => MemInv' /\ [Later]_vars
  BY <1>1
<1>3. Spec => [][Later]_vars
  BY <1>2, MemInit, PTL DEF Spec
<1> QED BY <1>3 DEF StoresInOrder
=============================================================================
