------------------------ MODULE ControllerUnitsProofs ------------------------
(***************************************************************************)
(* Proofs about the units behind a controller: the global reduce unit, the *)
(* im2col engine and the loop controller with its leaf counters.           *)
(*                                                                         *)
(* What is computed over all contributors, or over all the elements of a   *)
(* matrix, needs induction.  The library states it for operators; here it  *)
(* is stated for sets, from the theorem that every nonempty set of         *)
(* naturals has a least element.                                           *)
(***************************************************************************)
EXTENDS LoopNest, ReduceUnit, Im2colUnit,
        SequenceTheorems, FiniteSetTheorems, WellFoundedInduction, TLAPS
-----------------------------------------------------------------------------
LEMMA LeastElement ==
  ASSUME NEW T \in SUBSET Nat, T # {}
  PROVE  \E n \in T : \A m \in T : n <= m
<1>1. \E n \in T : \A m \in T : ~(<<m, n>> \in OpToRel(<, Nat))
  BY NatLessThanWellFounded, WFMin
<1>2. PICK n \in T : \A m \in T : ~(<<m, n>> \in OpToRel(<, Nat))
  BY <1>1
<1>3. ASSUME NEW m \in T PROVE n <= m
  <2>1. <<m, n>> \in Nat \X Nat
    OBVIOUS
  <2>2. ~(m < n)
    BY <1>2, <2>1 DEF OpToRel
  <2> QED BY <2>2
<1> QED BY <1>3

(* A set of naturals with 0 and every successor holds all of them.         *)
LEMMA Induction ==
  ASSUME NEW S, 0 \in S, \A n \in Nat : n \in S => n + 1 \in S
  PROVE  Nat \subseteq S
<1> SUFFICES ASSUME Nat \ S # {} PROVE FALSE
  OBVIOUS
<1>1. PICK n \in Nat \ S : \A m \in Nat \ S : n <= m
  BY LeastElement
<1>2. n # 0 /\ n - 1 \in Nat /\ ~(n <= n - 1)
  OBVIOUS
<1>3. n - 1 \in S
  BY <1>1, <1>2
<1>4. (n - 1) + 1 \in S
  BY <1>2, <1>3
<1> QED BY <1>1, <1>2, <1>4
-----------------------------------------------------------------------------
(* The global reduce unit.  Any finite set of contributors, any operations *)
(* and operands of the rounds, and payloads of at least one bit.           *)
ReduceShape ==
  /\ IsFiniteSet(Tile) /\ NoTile \notin Tile /\ "count" \notin Tile
  /\ Modulus \in Nat \ {0, 1}
  /\ Cmd \in Seq({"ADD", "MUL"})
  /\ Operand \in [DOMAIN Cmd -> [Tile -> Nat]]

(* The fold Reduction is written with, as a function of the set folded.    *)
Combine(k, t, acc) == IF Cmd[k] = "ADD" THEN acc + Operand[k][t] ELSE acc * Operand[k][t]
Neutral(k) == IF Cmd[k] = "ADD" THEN 0 ELSE 1
Chosen(S) == CHOOSE t \in S : TRUE

IsFold(k, f) ==
  f = [S \in SUBSET Tile |->
         IF S = {} THEN Neutral(k) ELSE Combine(k, Chosen(S), f[S \ {Chosen(S)}])]

Folded(k) == CHOOSE f : IsFold(k, f)

LEMMA ReductionIsFold ==
  \A k : Reduce!Reduction(k) = Folded(k)[Tile] % Modulus
  BY DEF Reduce!Reduction, Reduce!FoldSet, Reduce!MapThenFoldSet, Folded, IsFold, Combine,
         Neutral, Chosen

LEMMA ChosenElement ==
  ASSUME NEW S, S # {}
  PROVE  Chosen(S) \in S
  BY DEF Chosen

(* The recursion is well founded: folds of the sets with at most n         *)
(* elements exist for every n.                                             *)
LEMMA FoldExists ==
  ASSUME ReduceShape, NEW k
  PROVE  \E f : IsFold(k, f)
<1> DEFINE Small(n) == {S \in SUBSET Tile : Cardinality(S) <= n}
           Partly(n, f) ==
             f = [S \in Small(n) |->
                    IF S = {} THEN Neutral(k) ELSE Combine(k, Chosen(S), f[S \ {Chosen(S)}])]
           Good == {n \in Nat : \E f : Partly(n, f)}
<1>1. ASSUME NEW S \in SUBSET Tile
      PROVE  /\ Cardinality(S) \in Nat
             /\ S # {} => Cardinality(S \ {Chosen(S)}) = Cardinality(S) - 1
             /\ Cardinality(S) = 0 <=> S = {}
  <2>1. IsFiniteSet(S)
    BY FS_Subset DEF ReduceShape
  <2> QED BY <2>1, FS_CardinalityType, FS_RemoveElement, FS_EmptySet, ChosenElement
<1>2. 0 \in Good
  <2> DEFINE f == [S \in Small(0) |-> Neutral(k)]
  <2>1. ASSUME NEW S \in Small(0) PROVE S = {}
    <3>1. Cardinality(S) \in Nat /\ Cardinality(S) <= 0
      BY <1>1
    <3>2. Cardinality(S) = 0
      BY <3>1
    <3> QED BY <1>1, <3>2
  <2>2. Partly(0, f)
    BY <2>1
  <2> QED BY <2>2
<1>3. ASSUME NEW n \in Nat, n \in Good PROVE n + 1 \in Good
  <2>1. PICK f : Partly(n, f)
    BY <1>3
  <2> DEFINE g == [S \in Small(n + 1) |->
                IF S = {} THEN Neutral(k) ELSE Combine(k, Chosen(S), f[S \ {Chosen(S)}])]
  <2>2. \A S \in Small(n) : S \in Small(n + 1) /\ g[S] = f[S]
    <3> TAKE S \in Small(n)
    <3>1. S \in Small(n + 1)
      <4>1. Cardinality(S) \in Nat /\ Cardinality(S) <= n
        BY <1>1
      <4>2. Cardinality(S) <= n + 1
        BY <4>1
      <4> QED BY <4>2
    <3>2. f[S] = IF S = {} THEN Neutral(k) ELSE Combine(k, Chosen(S), f[S \ {Chosen(S)}])
      BY <2>1
    <3> QED BY <3>1, <3>2
  <2>3. \A S \in Small(n + 1) : S # {} => S \ {Chosen(S)} \in Small(n)
    BY <1>1
  <2>4. ASSUME NEW S \in Small(n + 1)
        PROVE  g[S] = IF S = {} THEN Neutral(k) ELSE Combine(k, Chosen(S), g[S \ {Chosen(S)}])
    <3>1. S # {} => g[S \ {Chosen(S)}] = f[S \ {Chosen(S)}]
      BY <2>2, <2>3
    <3> QED BY <3>1
  <2>5. Partly(n + 1, g)
    BY <2>4
  <2>6. n + 1 \in Nat /\ \E h : Partly(n + 1, h)
    <3> HIDE DEF Partly
    <3> QED BY <2>5
  <2> QED BY <2>6
<1>4. Cardinality(Tile) \in Nat
  BY <1>1
<1>5. PICK f : Partly(Cardinality(Tile), f)
  <2> HIDE DEF Partly
  <2>1. Nat \subseteq Good
    BY <1>2, <1>3, Induction
  <2> QED BY <1>4, <2>1
<1>6. Small(Cardinality(Tile)) = SUBSET Tile
  <2>1. \A S \in SUBSET Tile : Cardinality(S) <= Cardinality(Tile)
    BY FS_Subset DEF ReduceShape
  <2> QED BY <2>1
<1> QED BY <1>5, <1>6 DEF IsFold

LEMMA FoldEquation ==
  ASSUME ReduceShape, NEW k
  PROVE  /\ Folded(k)[{}] = Neutral(k)
         /\ \A S \in SUBSET Tile : S # {} =>
              Folded(k)[S] = Combine(k, Chosen(S), Folded(k)[S \ {Chosen(S)}])
<1>1. IsFold(k, Folded(k))
  BY FoldExists DEF Folded
<1>2. \A S \in SUBSET Tile :
        Folded(k)[S] = IF S = {} THEN Neutral(k)
                       ELSE Combine(k, Chosen(S), Folded(k)[S \ {Chosen(S)}])
  BY <1>1 DEF IsFold
<1> QED BY <1>2

(* The order in which the fold takes the contributors makes no difference: *)
(* any of them can be the last.                                            *)
LEMMA CombineCommutes ==
  ASSUME ReduceShape, NEW k \in DOMAIN Cmd, NEW s \in Tile, NEW t \in Tile, NEW n \in Nat
  PROVE  /\ Combine(k, s, n) \in Nat
         /\ Combine(k, s, Combine(k, t, n)) = Combine(k, t, Combine(k, s, n))
<1>1. Operand[k][s] \in Nat /\ Operand[k][t] \in Nat
  BY DEF ReduceShape
<1>2. \A a, b \in Nat : /\ n + a \in Nat /\ n * a \in Nat
                        /\ (n + a) + b = (n + b) + a /\ (n * a) * b = (n * b) * a
  OBVIOUS
<1> QED BY <1>1, <1>2 DEF Combine

LEMMA FoldAnyOrder ==
  ASSUME ReduceShape, NEW k \in DOMAIN Cmd
  PROVE  \A S \in SUBSET Tile :
           /\ Folded(k)[S] \in Nat
           /\ \A t \in S : Folded(k)[S] = Combine(k, t, Folded(k)[S \ {t}])
<1> DEFINE F == Folded(k)
           Free(S) == F[S] \in Nat /\ \A t \in S : F[S] = Combine(k, t, F[S \ {t}])
           Good == {n \in Nat : \A S \in SUBSET Tile : Cardinality(S) <= n => Free(S)}
<1>1. ASSUME NEW S \in SUBSET Tile
      PROVE  /\ Cardinality(S) \in Nat
             /\ \A t \in S : Cardinality(S \ {t}) = Cardinality(S) - 1
             /\ Cardinality(S) = 0 <=> S = {}
  <2>1. IsFiniteSet(S)
    BY FS_Subset DEF ReduceShape
  <2> QED BY <2>1, FS_CardinalityType, FS_RemoveElement, FS_EmptySet
<1>2. /\ F[{}] = Neutral(k)
      /\ \A S \in SUBSET Tile : S # {} => F[S] = Combine(k, Chosen(S), F[S \ {Chosen(S)}])
  BY FoldEquation
<1> HIDE DEF F
<1>3. Free({})
  BY <1>2 DEF Neutral
<1>4. 0 \in Good
  <2> SUFFICES ASSUME NEW S \in SUBSET Tile, Cardinality(S) <= 0 PROVE Free(S)
    OBVIOUS
  <2>1. Cardinality(S) \in Nat
    BY <1>1
  <2>2. Cardinality(S) = 0
    BY <2>1
  <2>3. S = {}
    BY <1>1, <2>2
  <2> QED BY <1>3, <2>3
<1>5. ASSUME NEW n \in Nat, n \in Good PROVE n + 1 \in Good
  <2>0. n + 1 \in Nat
    OBVIOUS
  <2> SUFFICES ASSUME NEW S \in SUBSET Tile, Cardinality(S) <= n + 1, S # {}
               PROVE  Free(S)
    <3> HIDE DEF Free
    <3> QED BY <1>3, <2>0
  <2>1. ASSUME NEW s \in S
        PROVE  Free(S \ {s}) /\ \A t \in S : t # s => Free((S \ {s}) \ {t})
    <3>1. S \ {s} \in SUBSET Tile /\ Cardinality(S) \in Nat
      BY <1>1
    <3>2. Cardinality(S \ {s}) = Cardinality(S) - 1
      BY <1>1
    <3>3. Cardinality(S \ {s}) <= n
      BY <3>1, <3>2
    <3>4. ASSUME NEW t \in S, t # s PROVE Free((S \ {s}) \ {t})
      <4>1. Cardinality((S \ {s}) \ {t}) = Cardinality(S \ {s}) - 1
        BY <1>1, <3>1, <3>4
      <4>2. (S \ {s}) \ {t} \in SUBSET Tile /\ Cardinality((S \ {s}) \ {t}) <= n
        BY <3>1, <3>2, <3>3, <4>1
      <4> HIDE DEF Free
      <4> QED BY <1>5, <4>2
    <3>5. Free(S \ {s})
      <4> HIDE DEF Free
      <4> QED BY <1>5, <3>1, <3>3
    <3> QED BY <3>4, <3>5
  <2> DEFINE c == Chosen(S)
  <2>2. c \in S
    BY ChosenElement
  <2>3. F[S] = Combine(k, c, F[S \ {c}]) /\ F[S \ {c}] \in Nat
    BY <1>2, <2>1, <2>2
  <2>4. F[S] \in Nat
    BY <2>2, <2>3, CombineCommutes
  <2>5. ASSUME NEW t \in S PROVE F[S] = Combine(k, t, F[S \ {t}])
    <3>1. CASE t = c
      BY <2>3, <3>1
    <3>2. CASE t # c
      <4> DEFINE z == F[(S \ {c}) \ {t}]
      <4>1. (S \ {t}) \ {c} = (S \ {c}) \ {t}
        OBVIOUS
      <4>2. z \in Nat /\ F[S \ {c}] = Combine(k, t, z)
        BY <2>1, <2>2, <3>2
      <4>3. F[S \ {t}] = Combine(k, c, z)
        <5>1. Free(S \ {t}) /\ c \in S \ {t}
          BY <2>1, <2>2, <3>2
        <5>2. F[S \ {t}] = Combine(k, c, F[(S \ {t}) \ {c}])
          BY <5>1
        <5> QED BY <4>1, <5>2
      <4> HIDE DEF z
      <4>4. t \in Tile /\ c \in Tile
        BY <2>2
      <4>5. Combine(k, c, Combine(k, t, z)) = Combine(k, t, Combine(k, c, z))
        BY <4>2, <4>4, CombineCommutes
      <4> QED BY <2>3, <4>2, <4>3, <4>5
    <3> QED BY <3>1, <3>2
  <2> QED BY <2>4, <2>5
<1>6. Nat \subseteq Good
  <2> HIDE DEF Free
  <2> QED BY <1>4, <1>5, Induction
<1>7. ASSUME NEW S \in SUBSET Tile PROVE Free(S)
  <2>1. Cardinality(S) \in Nat /\ Cardinality(S) <= Cardinality(S)
    BY <1>1
  <2> HIDE DEF Free
  <2> QED BY <1>6, <2>1
<1> QED BY <1>7 DEF F

(* The accumulators keep remainders, and that does not change the result.  *)
LEMMA RemainderUnique ==
  ASSUME NEW m \in Nat \ {0}, NEW q \in Int, NEW r \in 0 .. (m - 1)
  PROVE  (q * m + r) % m = r /\ (q * m + r) \div m = q
<1> DEFINE n == q * m + r
           p == n \div m
<1>1. n \in Int /\ p \in Int /\ n % m \in 0 .. (m - 1) /\ n = m * p + (n % m)
  OBVIOUS
<1>2. (q - p) * m = (n % m) - r
  BY <1>1
<1>3. q - p \in Int /\ (n % m) - r < m /\ (n % m) - r > -m
  BY <1>1
<1>4. \A d \in Int : /\ d >= 1 => d * m >= m
                     /\ d <= -1 => d * m <= -m
  OBVIOUS
<1>5. ~(q - p >= 1) /\ ~(q - p <= -1)
  BY <1>2, <1>3, <1>4
<1>6. q = p
  BY <1>1, <1>3, <1>5
<1> QED BY <1>1, <1>6

LEMMA RemainderKept ==
  ASSUME NEW m \in Nat \ {0}, NEW a \in Nat, NEW d \in Nat
  PROVE  ((a % m) + d) % m = (a + d) % m /\ ((a % m) * d) % m = (a * d) % m
<1> DEFINE q == a \div m
           r == a % m
<1>1. q \in Int /\ r \in Nat /\ a = q * m + r
  OBVIOUS
<1>2. \A b, p \in Int : (p * m + b) % m = b % m
  <2> TAKE b, p \in Int
  <2>1. b % m \in 0 .. (m - 1) /\ b \div m \in Int /\ b = (b \div m) * m + (b % m)
    OBVIOUS
  <2>2. p * m + b = (p + (b \div m)) * m + (b % m) /\ p + (b \div m) \in Int
    BY <2>1
  <2> QED BY <2>1, <2>2, RemainderUnique
<1> HIDE DEF q, r
<1>3. a + d = q * m + (r + d) /\ r + d \in Int
  BY <1>1
<1>4. a * d = (q * d) * m + r * d /\ r * d \in Int /\ q * d \in Int
  BY <1>1
<1>5. (a + d) % m = (r + d) % m
  BY <1>1, <1>2, <1>3
<1>6. (a * d) % m = (r * d) % m
  BY <1>2, <1>4
<1> QED BY <1>5, <1>6 DEF r
-----------------------------------------------------------------------------
(* Round k at the unit: all contributions gathered so far are of round k,  *)
(* each in the queue or answered; the accumulator of the round's operation *)
(* holds what they come to, and the other one is as reset left it.  While  *)
(* answers go out all are gathered, and only who was answered is further.  *)
Entry == [src : Tile, cmd : {"ADD", "MUL"}, data : Nat]

ReduceTypes ==
  /\ target_count \in {0, Cardinality(Tile)}
  /\ receiving_count \in Nat /\ receiving_count <= target_count
  /\ sending_count \in Nat /\ sending_count <= receiving_count
  /\ sending_count > 0 => receiving_count = target_count
  /\ waiting \in SUBSET Tile
  /\ queue \in Seq(Entry)
  /\ result \in [Tile -> Seq(Nat)]

QueueExact ==
  /\ Len(queue) = receiving_count - sending_count
  /\ Cardinality(waiting) = Len(queue)
  /\ \A i \in 1 .. Len(queue) : queue[i].src \in waiting
  /\ \A t \in waiting : \E i \in 1 .. Len(queue) : queue[i].src = t
  /\ \A i, j \in 1 .. Len(queue) : i # j => queue[i].src # queue[j].src

Gathered == IF sending_count = 0 THEN waiting ELSE Tile

Progress(k) ==
  /\ receiving_count > 0 => k \in DOMAIN Cmd
  /\ \A i \in 1 .. Len(queue) : queue[i].cmd = Cmd[k]
  /\ \A t \in Tile :
       Len(result[t]) = IF sending_count > 0 /\ t \notin waiting THEN k ELSE k - 1

Accumulated(k) ==
  /\ reduce_add_value = IF receiving_count > 0 /\ Cmd[k] = "ADD"
                          THEN Folded(k)[Gathered] % Modulus ELSE 0
  /\ reduce_mul_value = IF receiving_count > 0 /\ Cmd[k] = "MUL"
                          THEN Folded(k)[Gathered] % Modulus ELSE 1

AnswersExact ==
  \A t \in Tile : \A k \in 1 .. Len(result[t]) : result[t][k] = Folded(k)[Tile] % Modulus

ReduceInv ==
  /\ ReduceTypes /\ QueueExact
  /\ \E k \in Nat \ {0} : Progress(k) /\ Accumulated(k)
  /\ AnswersExact

LEMMA CmdOfRound ==
  ASSUME ReduceShape, NEW k \in DOMAIN Cmd
  PROVE  Cmd[k] \in {"ADD", "MUL"} /\ \A t \in Tile : Operand[k][t] \in Nat
  BY DEF ReduceShape

LEMMA TilesFinite ==
  ASSUME ReduceShape
  PROVE  /\ Cardinality(Tile) \in Nat
         /\ \A S \in SUBSET Tile :
              /\ IsFiniteSet(S) /\ Cardinality(S) \in Nat
              /\ Cardinality(S) = Cardinality(Tile) => S = Tile
              /\ Cardinality(S) = 0 => S = {}
  BY FS_CardinalityType, FS_Subset, FS_EmptySet DEF ReduceShape

LEMMA ReduceInitInv ==
  ASSUME ReduceShape, Reduce!Init
  PROVE  ReduceInv
<1>1. Cardinality(Tile) \in Nat /\ Cardinality({}) = 0
  BY TilesFinite, FS_EmptySet
<1>2. ReduceTypes
  BY <1>1, EmptySeq DEF Reduce!Init, ReduceTypes
<1>3. QueueExact
  BY <1>1 DEF Reduce!Init, QueueExact
<1>4. Progress(1) /\ Accumulated(1)
  BY DEF Reduce!Init, Progress, Accumulated
<1>5. AnswersExact
  BY DEF Reduce!Init, AnswersExact
<1> QED BY <1>2, <1>3, <1>4, <1>5 DEF ReduceInv

(* A contribution is taken: nobody has been answered in this round, the    *)
(* contributor is new to it, and its operand is the one of the round.      *)
LEMMA GatherInv ==
  ASSUME ReduceShape, ReduceInv,
         NEW t \in Tile, t \in Reduce!Offering, Reduce!recv_data_rdy,
         receiving_count' = receiving_count + 1,
         sending_count' = sending_count, target_count' = target_count,
         queue' = Append(queue, Reduce!Contribution(t)),
         waiting' = waiting \cup {t}, result' = result,
         Reduce!accumulate_value(t)
  PROVE  ReduceInv'
<1> PICK k \in Nat \ {0} : Progress(k) /\ Accumulated(k)
  BY DEF ReduceInv
<1>1. ReduceTypes /\ QueueExact /\ Cardinality(Tile) \in Nat
  BY TilesFinite DEF ReduceInv
<1>2. sending_count = 0 /\ receiving_count < target_count /\ target_count # 0
  BY <1>1 DEF ReduceTypes, Reduce!recv_data_rdy
<1>3. t \notin waiting /\ Len(result[t]) = k - 1 /\ k \in DOMAIN Cmd
  BY <1>1, <1>2 DEF Progress, ReduceTypes, Reduce!Offering, Reduce!round
<1> DEFINE d == Operand[k][t]
           c == Reduce!Contribution(t)
<1>4. d \in Nat /\ Cmd[k] \in {"ADD", "MUL"}
  BY <1>3, CmdOfRound
<1>5. c = [src |-> t, cmd |-> Cmd[k], data |-> d]
  BY <1>3 DEF Reduce!Contribution, Reduce!round
<1>6. c \in Entry /\ c.src = t /\ c.cmd = Cmd[k] /\ c.data = d
  BY <1>4, <1>5 DEF Entry
<1> HIDE DEF c, d
<1>7. /\ queue' \in Seq(Entry) /\ Len(queue') = Len(queue) + 1 /\ Len(queue) \in Nat
      /\ queue'[Len(queue) + 1] = c
      /\ \A i \in 1 .. Len(queue) : queue'[i] = queue[i]
  BY <1>1, <1>6 DEF ReduceTypes, c
<1>8. ReduceTypes'
  BY <1>1, <1>2, <1>7 DEF ReduceTypes
<1>9. Cardinality(waiting') = Cardinality(waiting) + 1
  BY <1>1, <1>3, TilesFinite, FS_AddElement DEF ReduceTypes
<1>10. QueueExact'
  <2>1. Len(queue') = receiving_count' - sending_count' /\ Cardinality(waiting') = Len(queue')
    BY <1>1, <1>7, <1>9 DEF QueueExact, ReduceTypes
  <2>2. ASSUME NEW i \in 1 .. Len(queue')
        PROVE  \/ i \in 1 .. Len(queue) /\ queue'[i] = queue[i] /\ queue'[i].src \in waiting
               \/ i = Len(queue) + 1 /\ queue'[i].src = t
    <3>1. i \in 1 .. Len(queue) \/ i = Len(queue) + 1
      BY <1>7
    <3> QED BY <1>1, <1>6, <1>7, <3>1 DEF QueueExact
  <2>3. \A i \in 1 .. Len(queue') : queue'[i].src \in waiting'
    BY <2>2
  <2>4. ASSUME NEW s \in waiting' PROVE \E i \in 1 .. Len(queue') : queue'[i].src = s
    <3>1. CASE s = t
      <4>1. Len(queue) + 1 \in 1 .. Len(queue')
        BY <1>7
      <4> QED BY <1>6, <1>7, <3>1, <4>1
    <3>2. CASE s \in waiting
      <4>1. PICK i \in 1 .. Len(queue) : queue[i].src = s
        BY <1>1, <3>2 DEF QueueExact
      <4>2. i \in 1 .. Len(queue')
        BY <1>7
      <4> QED BY <1>7, <4>1, <4>2
    <3> QED BY <3>1, <3>2
  <2>5. ASSUME NEW i \in 1 .. Len(queue'), NEW j \in 1 .. Len(queue'), i # j
        PROVE  queue'[i].src # queue'[j].src
    <3>1. CASE i \in 1 .. Len(queue) /\ j \in 1 .. Len(queue)
      BY <1>1, <1>7, <2>5, <3>1 DEF QueueExact
    <3>2. CASE i = Len(queue) + 1
      BY <1>3, <1>6, <1>7, <2>2, <2>5, <3>2
    <3>3. CASE j = Len(queue) + 1
      BY <1>3, <1>6, <1>7, <2>2, <2>5, <3>3
    <3> QED BY <2>2, <3>1, <3>2, <3>3
  <2> QED BY <2>1, <2>3, <2>4, <2>5 DEF QueueExact
<1>11. Progress(k)'
  <2>1. \A i \in 1 .. Len(queue') : queue'[i].cmd = Cmd[k]
    <3> TAKE i \in 1 .. Len(queue')
    <3>1. i \in 1 .. Len(queue) \/ i = Len(queue) + 1
      BY <1>7
    <3> QED BY <1>6, <1>7, <3>1 DEF Progress
  <2> QED BY <1>2, <1>3, <2>1 DEF Progress
<1>12. Accumulated(k)'
  <2> DEFINE F == Folded(k)
  <2>1. /\ waiting' \in SUBSET Tile /\ t \in waiting' /\ waiting' \ {t} = waiting
        /\ F[waiting] \in Nat
    BY <1>1, <1>3, <1>8, FoldAnyOrder DEF ReduceTypes
  <2>2. F[waiting'] = Combine(k, t, F[waiting])
    <3>1. \A S \in SUBSET Tile : \A u \in S : F[S] = Combine(k, u, F[S \ {u}])
      BY <1>3, FoldAnyOrder
    <3> HIDE DEF F
    <3>2. F[waiting'] = Combine(k, t, F[waiting' \ {t}])
      BY <2>1, <3>1
    <3> QED BY <2>1, <3>2
  <2>3. receiving_count = 0 => F[waiting] = Neutral(k)
    <3>1. receiving_count = 0 => waiting = {}
      BY <1>1, <1>2, TilesFinite DEF QueueExact, ReduceTypes
    <3> QED BY <3>1, FoldEquation
  <2>4. sending_count # target_count /\ receiving_count' > 0 /\ sending_count' = 0
    BY <1>1, <1>2 DEF ReduceTypes
  <2>5. Gathered' = waiting' /\ Gathered = waiting
    BY <1>2, <2>4 DEF Gathered
  <2>6. Modulus \in Nat \ {0} /\ 0 % Modulus = 0 /\ 1 % Modulus = 1
    BY DEF ReduceShape
  <2>7. t # NoTile
    BY DEF ReduceShape
  <2>8. (receiving_count > 0) = (receiving_count # 0)
    BY <1>1 DEF ReduceTypes
  <2>9. CASE Cmd[k] = "ADD"
    <3>1. reduce_add_value = F[waiting] % Modulus
      BY <2>3, <2>5, <2>6, <2>8, <2>9 DEF Accumulated, Neutral
    <3>2. reduce_add_value' = (reduce_add_value + d) % Modulus
      BY <1>6, <2>4, <2>7, <2>9 DEF Reduce!accumulate_value, Reduce!starts_afresh, c
    <3>3. F[waiting'] = F[waiting] + d
      BY <2>2, <2>9 DEF Combine, d
    <3>4. reduce_add_value' = F[waiting'] % Modulus
      <4>1. ((F[waiting] % Modulus) + d) % Modulus = (F[waiting] + d) % Modulus
        BY <1>4, <2>1, <2>6, RemainderKept
      <4> QED BY <3>1, <3>2, <3>3, <4>1
    <3>5. reduce_mul_value' = 1
      <4>1. reduce_mul_value = 1
        BY <2>9 DEF Accumulated
      <4> QED BY <1>6, <2>4, <2>9, <4>1
          DEF Reduce!accumulate_value, Reduce!starts_afresh, c
    <3> QED BY <2>4, <2>5, <2>9, <3>4, <3>5 DEF Accumulated
  <2>10. CASE Cmd[k] = "MUL"
    <3>1. reduce_mul_value = F[waiting] % Modulus
      BY <2>3, <2>5, <2>6, <2>8, <2>10 DEF Accumulated, Neutral
    <3>2. reduce_mul_value' = (reduce_mul_value * d) % Modulus
      BY <1>6, <2>4, <2>7, <2>10 DEF Reduce!accumulate_value, Reduce!starts_afresh, c
    <3>3. F[waiting'] = F[waiting] * d
      BY <2>2, <2>10 DEF Combine, d
    <3>4. reduce_mul_value' = F[waiting'] % Modulus
      <4>1. ((F[waiting] % Modulus) * d) % Modulus = (F[waiting] * d) % Modulus
        BY <1>4, <2>1, <2>6, RemainderKept
      <4> QED BY <3>1, <3>2, <3>3, <4>1
    <3>5. reduce_add_value' = 0
      <4>1. reduce_add_value = 0
        BY <2>10 DEF Accumulated
      <4> QED BY <1>6, <2>4, <2>10, <4>1
          DEF Reduce!accumulate_value, Reduce!starts_afresh, c
    <3> QED BY <2>4, <2>5, <2>10, <3>4, <3>5 DEF Accumulated
  <2> QED BY <1>4, <2>9, <2>10
<1>13. AnswersExact'
  BY DEF ReduceInv, AnswersExact
<1> QED BY <1>8, <1>10, <1>11, <1>12, <1>13 DEF ReduceInv

(* An answer goes out: everybody has contributed, so that what has been    *)
(* accumulated is the reduction of the round.                              *)
LEMMA AnswerInv ==
  ASSUME ReduceShape, ReduceInv, Reduce!send_val,
         receiving_count' = receiving_count, sending_count' = sending_count + 1,
         target_count' = target_count,
         queue' = Tail(queue), waiting' = waiting \ {Head(queue).src},
         result' = [result EXCEPT ![Head(queue).src] = Append(@, Reduce!Answer)],
         Reduce!accumulate_value(NoTile)
  PROVE  ReduceInv'
<1> PICK k \in Nat \ {0} : Progress(k) /\ Accumulated(k)
  BY DEF ReduceInv
<1> DEFINE t == Head(queue).src
           a == Reduce!Answer
           F == Folded(k)
<1>1. ReduceTypes /\ QueueExact /\ Cardinality(Tile) \in Nat /\ AnswersExact
  BY TilesFinite DEF ReduceInv
<1>2. /\ receiving_count = target_count /\ target_count = Cardinality(Tile) /\ target_count > 0
      /\ queue # <<>> /\ Len(queue) \in Nat
  BY <1>1 DEF ReduceTypes, Reduce!send_val
<1>3. /\ Len(queue) > 0 /\ Head(queue) = queue[1] /\ queue[1] \in Entry
      /\ t = queue[1].src /\ t \in waiting /\ t \in Tile /\ Head(queue).cmd = Cmd[k]
      /\ k \in DOMAIN Cmd
  BY <1>1, <1>2 DEF ReduceTypes, QueueExact, Progress
<1>4. sending_count < receiving_count /\ sending_count + 1 > 0
  BY <1>1, <1>3 DEF QueueExact, ReduceTypes
<1>5. Gathered = Tile
  BY <1>1, <1>2, TilesFinite DEF Gathered, QueueExact, ReduceTypes
<1>6. F[Tile] \in Nat /\ Modulus \in Nat \ {0} /\ Cmd[k] \in {"ADD", "MUL"}
  BY <1>3, FoldAnyOrder, CmdOfRound DEF ReduceShape
<1>7. a = F[Tile] % Modulus /\ a \in Nat
  <2>1. a = F[Tile] % Modulus
    BY <1>1, <1>2, <1>3, <1>5, <1>6 DEF Reduce!Answer, Accumulated
  <2>2. F[Tile] % Modulus \in Nat
    <3> HIDE DEF F
    <3> QED BY <1>6
  <2> QED BY <2>1, <2>2
<1>8. Len(result[t]) = k - 1 /\ result[t] \in Seq(Nat)
  BY <1>1, <1>3 DEF Progress, ReduceTypes
<1> HIDE DEF t, a, F
<1>9. /\ result'[t] = Append(result[t], a)
      /\ \A s \in Tile : s # t => result'[s] = result[s]
      /\ result' \in [Tile -> Seq(Nat)]
  <2>1. Append(result[t], a) \in Seq(Nat)
    BY <1>7, <1>8
  <2> QED BY <1>1, <1>3, <2>1 DEF ReduceTypes, t, a
<1>10. Len(result'[t]) = k /\ result'[t][k] = a /\ \A i \in 1 .. (k - 1) : result'[t][i] = result[t][i]
  BY <1>7, <1>8, <1>9
<1>11. /\ queue' \in Seq(Entry) /\ Len(queue') = Len(queue) - 1
       /\ \A i \in 1 .. Len(queue') : queue'[i] = queue[i + 1] /\ i + 1 \in 1 .. Len(queue)
  BY <1>1, <1>2, <1>3 DEF ReduceTypes
<1>12. ReduceTypes'
  <2>1. waiting' \in SUBSET Tile
    BY <1>1 DEF ReduceTypes
  <2> QED BY <1>1, <1>2, <1>4, <1>9, <1>11, <2>1 DEF ReduceTypes
<1>13. QueueExact'
  <2>1. Cardinality(waiting') = Cardinality(waiting) - 1
    <3>1. IsFiniteSet(waiting) /\ waiting' = waiting \ {t}
      BY <1>1, TilesFinite DEF ReduceTypes, t
    <3>2. \A e \in waiting : Cardinality(waiting \ {e}) = Cardinality(waiting) - 1
      BY <3>1, FS_RemoveElement
    <3>3. t \in waiting
      BY <1>3
    <3> QED BY <3>1, <3>2, <3>3
  <2>2. Len(queue') = receiving_count' - sending_count' /\ Cardinality(waiting') = Len(queue')
    BY <1>1, <1>2, <1>11, <2>1 DEF QueueExact, ReduceTypes
  <2>3. ASSUME NEW i \in 1 .. Len(queue') PROVE queue'[i].src \in waiting'
    <3>1. queue'[i] = queue[i + 1] /\ i + 1 \in 1 .. Len(queue) /\ i + 1 # 1 /\ 1 \in 1 .. Len(queue)
      BY <1>2, <1>3, <1>11
    <3>2. queue[i + 1].src # queue[1].src /\ queue[i + 1].src \in waiting
      BY <1>1, <3>1 DEF QueueExact
    <3> QED BY <1>3, <3>1, <3>2 DEF t
  <2>4. ASSUME NEW s \in waiting' PROVE \E i \in 1 .. Len(queue') : queue'[i].src = s
    <3>1. s \in waiting /\ s # t
      BY DEF t
    <3>2. PICK i \in 1 .. Len(queue) : queue[i].src = s
      BY <1>1, <3>1 DEF QueueExact
    <3>3. i # 1
      BY <1>3, <3>1, <3>2
    <3>4. i - 1 \in 1 .. Len(queue') /\ (i - 1) + 1 = i
      BY <1>2, <1>11, <3>3
    <3>5. queue'[i - 1] = queue[i]
      BY <1>11, <3>4
    <3> QED BY <3>2, <3>4, <3>5
  <2>5. ASSUME NEW i \in 1 .. Len(queue'), NEW j \in 1 .. Len(queue'), i # j
        PROVE  queue'[i].src # queue'[j].src
    <3>1. /\ queue'[i] = queue[i + 1] /\ i + 1 \in 1 .. Len(queue)
          /\ queue'[j] = queue[j + 1] /\ j + 1 \in 1 .. Len(queue) /\ i + 1 # j + 1
      BY <1>11, <2>5
    <3> QED BY <1>1, <3>1 DEF QueueExact
  <2> QED BY <2>2, <2>3, <2>4, <2>5 DEF QueueExact
<1>14. Progress(k)'
  <2>1. \A i \in 1 .. Len(queue') : queue'[i].cmd = Cmd[k]
    BY <1>11 DEF Progress
  <2>2. ASSUME NEW s \in Tile
        PROVE  Len(result'[s]) = IF s \notin waiting' THEN k ELSE k - 1
    <3>1. CASE s = t
      <4>1. s \notin waiting'
        BY <3>1 DEF t
      <4> QED BY <1>10, <3>1, <4>1
    <3>2. CASE s # t
      <4>1. (s \in waiting') = (s \in waiting) /\ result'[s] = result[s]
        BY <1>9, <3>2 DEF t
      <4>2. s \notin waiting => sending_count > 0
        BY <1>1, <1>5 DEF Gathered, ReduceTypes
      <4> QED BY <4>1, <4>2 DEF Progress
    <3> QED BY <3>1, <3>2
  <2> QED BY <1>3, <1>4, <2>1, <2>2 DEF Progress
<1>15. Accumulated(k)'
  <2>1. Gathered' = Tile
    BY <1>1, <1>4 DEF Gathered, ReduceTypes
  <2>2. reduce_add_value' = reduce_add_value /\ reduce_mul_value' = reduce_mul_value
    BY <1>1, <1>2, <1>4 DEF Reduce!accumulate_value, Reduce!starts_afresh, ReduceTypes
  <2> QED BY <1>5, <2>1, <2>2 DEF Accumulated
<1>16. AnswersExact'
  <2> SUFFICES ASSUME NEW s \in Tile, NEW i \in 1 .. Len(result'[s])
               PROVE  result'[s][i] = Folded(i)[Tile] % Modulus
    BY DEF AnswersExact
  <2>1. CASE s = t /\ i = k
    BY <1>7, <1>10, <2>1 DEF F
  <2>2. CASE s = t /\ i # k
    <3>1. i \in 1 .. (k - 1)
      BY <1>10, <2>2
    <3> QED BY <1>1, <1>8, <1>10, <2>2, <3>1 DEF AnswersExact
  <2>3. CASE s # t
    BY <1>1, <1>9, <2>3 DEF AnswersExact
  <2> QED BY <2>1, <2>2, <2>3
<1> QED BY <1>12, <1>13, <1>14, <1>15, <1>16 DEF ReduceInv

(* All are answered: the unit starts on the next round.                    *)
LEMMA EndRoundInv ==
  ASSUME ReduceShape, ReduceInv,
         sending_count = receiving_count, sending_count = target_count, target_count > 0,
         receiving_count' = 0, sending_count' = 0, target_count' = target_count,
         queue' = queue, waiting' = waiting, result' = result,
         Reduce!accumulate_value(NoTile)
  PROVE  ReduceInv'
<1> PICK k \in Nat \ {0} : Progress(k) /\ Accumulated(k)
  BY DEF ReduceInv
<1>1. ReduceTypes /\ QueueExact /\ AnswersExact
  BY DEF ReduceInv
<1>2. Len(queue) = 0 /\ waiting = {}
  <2>1. Len(queue) = 0
    <3>1. Len(queue) = receiving_count - sending_count
      BY <1>1 DEF QueueExact
    <3>2. sending_count \in Nat
      BY <1>1 DEF ReduceTypes
    <3>3. receiving_count - sending_count = 0
      BY <3>2
    <3> QED BY <3>1, <3>3
  <2>2. waiting \in SUBSET Tile /\ Cardinality(waiting) = 0
    BY <1>1, <2>1 DEF ReduceTypes, QueueExact
  <2> QED BY <2>1, <2>2, TilesFinite
<1>3. ReduceTypes'
  BY <1>1 DEF ReduceTypes
<1>4. QueueExact'
  <2>1. Len(queue') = receiving_count' - sending_count'
    BY <1>2
  <2> QED BY <1>1, <2>1 DEF QueueExact
<1>5. Progress(k + 1)'
  BY <1>1, <1>2 DEF Progress, ReduceTypes
<1>6. Accumulated(k + 1)'
  BY DEF Reduce!accumulate_value, Reduce!starts_afresh, Accumulated
<1>7. AnswersExact'
  BY <1>1 DEF AnswersExact
<1>8. k + 1 \in Nat \ {0}
  OBVIOUS
<1> QED BY <1>3, <1>4, <1>5, <1>6, <1>7, <1>8 DEF ReduceInv

(* Nothing moves but, perhaps, the count that comes in.                    *)
LEMMA WaitInv ==
  ASSUME ReduceShape, ReduceInv,
         ~(/\ sending_count = receiving_count /\ sending_count = target_count
           /\ target_count > 0),
         receiving_count' = receiving_count, sending_count' = sending_count,
         target_count' = target_count \/ target_count' = Cardinality(Tile),
         queue' = queue, waiting' = waiting, result' = result,
         Reduce!accumulate_value(NoTile)
  PROVE  ReduceInv'
<1> PICK k \in Nat \ {0} : Progress(k) /\ Accumulated(k)
  BY DEF ReduceInv
<1>1. ReduceTypes /\ QueueExact /\ AnswersExact /\ Cardinality(Tile) \in Nat
  BY TilesFinite DEF ReduceInv
<1>2. ReduceTypes'
  BY <1>1 DEF ReduceTypes
<1>3. QueueExact'
  BY <1>1 DEF QueueExact
<1>4. Progress(k)'
  BY DEF Progress
<1>5. Accumulated(k)'
  <2>1. CASE sending_count = target_count
    <3>1. receiving_count = 0
      BY <1>1, <2>1 DEF ReduceTypes
    <3> QED BY <2>1, <3>1 DEF Reduce!accumulate_value, Reduce!starts_afresh, Accumulated
  <2>2. CASE sending_count # target_count
    <3>1. reduce_add_value' = reduce_add_value /\ reduce_mul_value' = reduce_mul_value
      BY <2>2 DEF Reduce!accumulate_value, Reduce!starts_afresh
    <3> QED BY <3>1 DEF Accumulated, Gathered
  <2> QED BY <2>1, <2>2
<1>6. AnswersExact'
  BY <1>1 DEF AnswersExact
<1> QED BY <1>2, <1>3, <1>4, <1>5, <1>6 DEF ReduceInv

LEMMA SameCardinality == \A S : Reduce!Cardinality(S) = Cardinality(S)
  BY DEF Reduce!Cardinality, Cardinality

LEMMA ReduceStep ==
  ASSUME ReduceShape, ReduceInv,
         NEW arrives \in Reduce!Offering \cup {"count", NoTile}, NEW rdy \in BOOLEAN,
         Reduce!Cycle(arrives, rdy)
  PROVE  ReduceInv'
<1> DEFINE taken == IF arrives \in Tile /\ Reduce!recv_data_rdy THEN arrives ELSE NoTile
           sent == Reduce!send_val /\ rdy
           over == ~sent /\ sending_count = receiving_count
                         /\ sending_count = target_count /\ target_count > 0
           kept == IF sent THEN Tail(queue) ELSE queue
<1>1. /\ Reduce!update_count(arrives = "count", taken, sent)
      /\ Reduce!accumulate_value(taken)
      /\ queue' = IF taken = NoTile THEN kept ELSE Append(kept, Reduce!Contribution(taken))
      /\ waiting' = (waiting \cup ({taken} \ {NoTile})) \ (IF sent THEN {Head(queue).src} ELSE {})
      /\ result' = IF sent THEN [result EXCEPT ![Head(queue).src] = Append(@, Reduce!Answer)]
                   ELSE result
  BY DEF Reduce!Cycle
<1>2. /\ target_count' = IF arrives = "count" THEN Cardinality(Tile) ELSE target_count
      /\ sent => sending_count' = sending_count + 1
      /\ over => sending_count' = 0 /\ receiving_count' = 0
      /\ ~sent /\ ~over => sending_count' = sending_count
      /\ ~over /\ taken # NoTile => receiving_count' = receiving_count + 1
      /\ ~over /\ taken = NoTile => receiving_count' = receiving_count
  <2>1. /\ sending_count' = CASE sent  -> sending_count + 1
                            [] over  -> 0
                            [] OTHER -> sending_count
        /\ receiving_count' = CASE over                    -> 0
                              [] ~over /\ taken # NoTile   -> receiving_count + 1
                              [] OTHER                   -> receiving_count
        /\ target_count' = IF arrives = "count" THEN Cardinality(Tile) ELSE target_count
    <3> HIDE DEF sent, taken
    <3> QED BY <1>1, SameCardinality DEF Reduce!update_count
  <2>2. over => ~sent
    OBVIOUS
  <2> HIDE DEF over, sent, taken
  <2> QED BY <2>1, <2>2
<1>3. ReduceTypes /\ Cardinality(Tile) \in Nat
  BY TilesFinite DEF ReduceInv
<1>4. taken # NoTile => /\ taken = arrives /\ arrives \in Tile /\ Reduce!recv_data_rdy
                      /\ arrives # "count" /\ arrives \in Reduce!Offering
                      /\ ~Reduce!send_val /\ ~over
  BY <1>3 DEF ReduceTypes, Reduce!recv_data_rdy, Reduce!send_val, ReduceShape, Reduce!Offering
<1>5. target_count > 0 => target_count = Cardinality(Tile)
  BY <1>3 DEF ReduceTypes
<1>6. CASE taken # NoTile
  <2>1. ~sent /\ ~over /\ arrives # "count" /\ {taken} \ {NoTile} = {taken}
    BY <1>4, <1>6
  <2> HIDE DEF over, sent, taken
  <2> QED BY <1>1, <1>2, <1>4, <1>6, <2>1, GatherInv DEF kept
<1>7. CASE taken = NoTile /\ sent
  <2>1. ~over /\ {taken} \ {NoTile} = {} /\ target_count > 0
    BY <1>7 DEF Reduce!send_val
  <2>2. target_count' = target_count
    BY <1>2, <1>5, <2>1
  <2>3. Reduce!send_val
    BY <1>7
  <2>4. waiting' = waiting \ {Head(queue).src} /\ queue' = Tail(queue)
    BY <1>1, <1>7, <2>1
  <2> HIDE DEF over, sent, taken
  <2> QED BY <1>1, <1>2, <1>7, <2>1, <2>2, <2>3, <2>4, AnswerInv
<1>8. CASE taken = NoTile /\ over
  <2>1. {taken} \ {NoTile} = {} /\ ~sent
    BY <1>8
  <2>2. target_count' = target_count
    BY <1>2, <1>5, <1>8
  <2>3. waiting' = waiting /\ queue' = queue /\ result' = result
    BY <1>1, <1>8, <2>1
  <2>4. sending_count = receiving_count /\ sending_count = target_count /\ target_count > 0
    BY <1>8
  <2> HIDE DEF over, sent, taken
  <2> QED BY <1>1, <1>2, <1>8, <2>2, <2>3, <2>4, EndRoundInv
<1>9. CASE taken = NoTile /\ ~sent /\ ~over
  <2>1. {taken} \ {NoTile} = {}
    BY <1>9
  <2>2. waiting' = waiting /\ queue' = queue /\ result' = result
    BY <1>1, <1>9, <2>1
  <2>3. ~(sending_count = receiving_count /\ sending_count = target_count /\ target_count > 0)
    BY <1>9
  <2> HIDE DEF over, sent, taken
  <2> QED BY <1>1, <1>2, <1>9, <2>2, <2>3, WaitInv
<1> QED BY <1>6, <1>7, <1>8, <1>9

(* For any finite set of contributors, any sequence of rounds and any      *)
(* order in which contributions arrive and answers are taken, every answer *)
(* is the reduction of its round over one contribution of each.            *)
THEOREM EveryAnswerExact ==
  ASSUME ReduceShape
  PROVE  Reduce!Spec => []ReduceExact
<1>1. Reduce!Init => ReduceInv
  BY ReduceInitInv
<1>2. ReduceInv /\ [Reduce!Next]_(Reduce!vars) => ReduceInv'
  <2> SUFFICES ASSUME ReduceInv, [Reduce!Next]_(Reduce!vars) PROVE ReduceInv'
    OBVIOUS
  <2>1. CASE UNCHANGED Reduce!vars
    <3>1. /\ UNCHANGED <<target_count, receiving_count, sending_count, queue>>
          /\ UNCHANGED <<reduce_add_value, reduce_mul_value, waiting, result>>
      BY <2>1 DEF Reduce!vars, Reduce!counts
    <3>2. PICK k \in Nat \ {0} : Progress(k) /\ Accumulated(k)
      BY DEF ReduceInv
    <3>3. Progress(k)' /\ Accumulated(k)'
      BY <3>1, <3>2 DEF Progress, Accumulated, Gathered
    <3>4. (ReduceTypes /\ QueueExact /\ AnswersExact)'
      BY <3>1 DEF ReduceInv, ReduceTypes, QueueExact, AnswersExact
    <3> QED BY <3>3, <3>4 DEF ReduceInv
  <2>2. CASE Reduce!Next
    BY <2>2, ReduceStep DEF Reduce!Next
  <2> QED BY <2>1, <2>2
<1>3. ReduceInv => ReduceExact
  <2> SUFFICES ASSUME ReduceInv, NEW t \in Tile, NEW k \in DOMAIN result[t]
               PROVE  result[t][k] = Reduce!Reduction(k)
    BY DEF ReduceExact, Reduce!ReduceExact
  <2>1. k \in 1 .. Len(result[t])
    BY DEF ReduceInv, ReduceTypes
  <2> QED BY <2>1, ReductionIsFold DEF ReduceInv, AnswersExact
<1> QED BY <1>1, <1>2, <1>3, PTL DEF Reduce!Spec
-----------------------------------------------------------------------------
(* The im2col engine.  That powers of two are positive is all that is used *)
(* of exponentiation, a fact the provers do not know.                      *)
Sizes == {"H", "W", "kH", "kW"}

Im2colShape ==
  /\ \A n \in Nat : 2^n > 0
  /\ ScratchMod \in Nat \ {0} /\ DataAddrMod \in Nat \ {0}
  /\ Early \in Nat /\ Late \in Nat
  /\ Shapes \subseteq [Im2col!Geometry -> Nat]

(* What the CPU sends, packet by packet.                                   *)
Launch == Early + 7
Planned == Launch + Late

TilePacket(i) == [cmd |-> "TILE", id |-> i, late |-> i > Early]

Sent(s, i) ==
  IF i <= Early THEN TilePacket(i)
  ELSE IF i < Launch THEN [cmd |-> Im2col!Order[i - Early], n |-> s[Im2col!Order[i - Early]]]
  ELSE IF i = Launch THEN [cmd |-> "LAUNCH"]
  ELSE TilePacket(i - 7)

LEMMA OrderOfGeometry ==
  /\ \A i \in 1 .. 6 : Im2col!Order[i] \in Im2col!Geometry
  /\ \A i, j \in 1 .. 6 : i # j => Im2col!Order[i] # Im2col!Order[j]
  /\ \A g \in Im2col!Geometry : \E i \in 1 .. 6 : g = Im2col!Order[i]
  /\ Len(Im2col!Order) = 6
<1>1. /\ Im2col!Order[1] = "H" /\ Im2col!Order[2] = "W" /\ Im2col!Order[3] = "kH"
      /\ Im2col!Order[4] = "kW" /\ Im2col!Order[5] = "log2_stride"
      /\ Im2col!Order[6] = "dst_sram_base" /\ Len(Im2col!Order) = 6
  BY DEF Im2col!Order
<1>2. \A i \in 1 .. 6 : i = 1 \/ i = 2 \/ i = 3 \/ i = 4 \/ i = 5 \/ i = 6
  OBVIOUS
<1> QED BY <1>1, <1>2 DEF Im2col!Geometry

(* The set all packets of a program are in.                                *)
PacketsOf(s) == {Sent(s, i) : i \in 1 .. Planned}

LEMMA ProgramIsSent ==
  ASSUME Im2colShape, NEW s
  PROVE  /\ Im2col!Program(s) \in Seq(PacketsOf(s))
         /\ Len(Im2col!Program(s)) = Planned
         /\ \A i \in 1 .. Planned : Im2col!Program(s)[i] = Sent(s, i)
<1> DEFINE P == PacketsOf(s)
           A == Im2col!Tiles(0, Early, FALSE)
           B == Im2col!Configure(s)
           C == <<[cmd |-> "LAUNCH"]>>
           D == Im2col!Tiles(Early, Late, TRUE)
<1>0. Early \in Nat /\ Late \in Nat /\ Launch = Early + 7 /\ Planned = Early + 7 + Late
  BY DEF Im2colShape, Launch, Planned
<1>1. \A i \in 1 .. Planned : Sent(s, i) \in P
  BY DEF PacketsOf
<1>2. /\ A = [i \in 1 .. Early |-> TilePacket(i)]
      /\ D = [i \in 1 .. Late |-> TilePacket(Early + i)]
      /\ B = [i \in 1 .. 6 |-> [cmd |-> Im2col!Order[i], n |-> s[Im2col!Order[i]]]]
  <2>1. \A i \in 1 .. Early : [cmd |-> "TILE", id |-> 0 + i, late |-> FALSE] = TilePacket(i)
    <3>1. \A i \in 1 .. Early : 0 + i = i /\ (i > Early) = FALSE
      BY <1>0
    <3> QED BY <3>1 DEF TilePacket
  <2>2. \A i \in 1 .. Late : [cmd |-> "TILE", id |-> Early + i, late |-> TRUE] = TilePacket(Early + i)
    <3>1. \A i \in 1 .. Late : (Early + i > Early) = TRUE
      BY <1>0
    <3> QED BY <3>1 DEF TilePacket
  <2> QED BY <1>0, <2>1, <2>2, OrderOfGeometry DEF Im2col!Tiles, Im2col!Configure
<1>3. /\ \A i \in 1 .. Early : TilePacket(i) = Sent(s, i)
      /\ \A i \in 1 .. 6 : [cmd |-> Im2col!Order[i], n |-> s[Im2col!Order[i]]] = Sent(s, Early + i)
      /\ C[1] = Sent(s, Launch)
      /\ \A i \in 1 .. Late : TilePacket(Early + i) = Sent(s, Launch + i)
  <2>1. \A i \in 1 .. Late : (Launch + i) - 7 = Early + i /\ ~(Launch + i <= Early)
                              /\ ~(Launch + i < Launch) /\ Launch + i # Launch
    BY <1>0
  <2>2. \A i \in 1 .. 6 : (Early + i) - Early = i /\ ~(Early + i <= Early) /\ Early + i < Launch
    BY <1>0
  <2>3. ~(Launch <= Early) /\ ~(Launch < Launch)
    BY <1>0
  <2>4. C[1] = [cmd |-> "LAUNCH"]
    OBVIOUS
  <2> QED BY <1>0, <2>1, <2>2, <2>3, <2>4 DEF Sent
<1> HIDE DEF P, A, B, C, D
<1>4. A \in Seq(P) /\ Len(A) = Early /\ \A i \in 1 .. Early : A[i] = Sent(s, i)
  <2>1. A \in [1 .. Early -> P]
    BY <1>0, <1>1, <1>2, <1>3
  <2>2. A \in Seq(P)
    BY <1>0, <2>1, SeqDef
  <2> QED BY <1>0, <1>2, <1>3, <2>1, <2>2, LenProperties
<1>5. B \in Seq(P) /\ Len(B) = 6 /\ \A i \in 1 .. 6 : B[i] = Sent(s, Early + i)
  <2>1. B \in [1 .. 6 -> P]
    <3>1. \A i \in 1 .. 6 : Sent(s, Early + i) \in P
      BY <1>0, <1>1
    <3> QED BY <1>2, <1>3, <3>1
  <2>2. B \in Seq(P)
    BY <2>1, SeqDef
  <2> QED BY <1>0, <1>2, <1>3, <2>1, <2>2, LenProperties
<1>6. C \in Seq(P) /\ Len(C) = 1 /\ C[1] = Sent(s, Launch)
  <2>1. C[1] \in P
    BY <1>0, <1>1, <1>3
  <2> QED BY <1>3, <2>1 DEF C
<1>7. D \in Seq(P) /\ Len(D) = Late /\ \A i \in 1 .. Late : D[i] = Sent(s, Launch + i)
  <2>1. D \in [1 .. Late -> P]
    <3>1. \A i \in 1 .. Late : Sent(s, Launch + i) \in P
      BY <1>0, <1>1
    <3> QED BY <1>2, <1>3, <3>1
  <2>2. D \in Seq(P)
    BY <1>0, <2>1, SeqDef
  <2> QED BY <1>0, <1>2, <1>3, <2>1, <2>2, LenProperties
<1>8. Im2col!Program(s) = A \o B \o C \o D
  BY DEF Im2col!Program, A, B, C, D
<1>9. /\ A \o B \in Seq(P) /\ Len(A \o B) = Early + 6
      /\ \A i \in 1 .. Early + 6 : (A \o B)[i] = Sent(s, i)
  <2>1. /\ A \o B \in Seq(P) /\ Len(A \o B) = Early + 6
        /\ \A i \in 1 .. Early + 6 : (A \o B)[i] = IF i <= Early THEN A[i] ELSE B[i - Early]
    <3>1. /\ A \o B \in Seq(P) /\ Len(A \o B) = Len(A) + Len(B)
          /\ \A i \in 1 .. Len(A) + Len(B) :
               (A \o B)[i] = IF i <= Len(A) THEN A[i] ELSE B[i - Len(A)]
      BY <1>4, <1>5, ConcatProperties
    <3> QED BY <1>4, <1>5, <3>1
  <2>2. \A i \in 1 .. Early + 6 : /\ i <= Early => i \in 1 .. Early
                                  /\ ~(i <= Early) => i - Early \in 1 .. 6 /\ Early + (i - Early) = i
    BY <1>0
  <2> QED BY <1>4, <1>5, <2>1, <2>2
<1>10. /\ A \o B \o C \in Seq(P) /\ Len(A \o B \o C) = Launch
       /\ \A i \in 1 .. Launch : (A \o B \o C)[i] = Sent(s, i)
  <2> DEFINE E == A \o B
  <2> HIDE DEF E
  <2>0. E \in Seq(P) /\ Len(E) = Early + 6 /\ \A i \in 1 .. Early + 6 : E[i] = Sent(s, i)
    BY <1>9 DEF E
  <2>1. /\ E \o C \in Seq(P) /\ Len(E \o C) = Early + 6 + 1
        /\ \A i \in 1 .. (Early + 6) + 1 :
             (E \o C)[i] = IF i <= Early + 6 THEN E[i] ELSE C[i - (Early + 6)]
    <3>1. /\ E \o C \in Seq(P) /\ Len(E \o C) = Len(E) + Len(C)
          /\ \A i \in 1 .. Len(E) + Len(C) :
               (E \o C)[i] = IF i <= Len(E) THEN E[i] ELSE C[i - Len(E)]
      BY <1>6, <2>0, ConcatProperties
    <3> QED BY <1>6, <2>0, <3>1
  <2>2. \A i \in 1 .. Launch : /\ i <= Early + 6 => i \in 1 .. Early + 6
                               /\ ~(i <= Early + 6) => i - (Early + 6) = 1 /\ i = Launch
                               /\ i \in 1 .. (Early + 6) + 1
    BY <1>0
  <2> QED BY <1>0, <1>6, <2>0, <2>1, <2>2 DEF E
<1>11. /\ A \o B \o C \o D \in Seq(P) /\ Len(A \o B \o C \o D) = Planned
       /\ \A i \in 1 .. Planned : (A \o B \o C \o D)[i] = Sent(s, i)
  <2> DEFINE E == A \o B \o C
  <2> HIDE DEF E
  <2>0. E \in Seq(P) /\ Len(E) = Launch /\ \A i \in 1 .. Launch : E[i] = Sent(s, i)
    BY <1>10 DEF E
  <2>1. /\ E \o D \in Seq(P) /\ Len(E \o D) = Launch + Late
        /\ \A i \in 1 .. Launch + Late :
             (E \o D)[i] = IF i <= Launch THEN E[i] ELSE D[i - Launch]
    BY <1>7, <2>0, ConcatProperties
  <2>2. \A i \in 1 .. Planned : /\ i <= Launch => i \in 1 .. Launch
                                /\ ~(i <= Launch) => i - Launch \in 1 .. Late
                                                      /\ Launch + (i - Launch) = i
                                /\ i \in 1 .. Launch + Late
    BY <1>0
  <2> QED BY <1>0, <1>7, <2>0, <2>1, <2>2 DEF E, Planned
<1> QED BY <1>8, <1>11 DEF P
-----------------------------------------------------------------------------
(* What the CPU sent arrives in order.  Gone counts the packets that left  *)
(* the controller's queue, TilesGone those of them for the tiles.          *)
Gone == Planned - (Len(packets) + Len(cpu_queue))

TilesGone == IF Gone <= Early THEN Gone ELSE IF Gone <= Launch THEN Early ELSE Gone - 7

CpuSide ==
  /\ shape \in Shapes
  /\ packets \in Seq(PacketsOf(shape)) /\ cpu_queue \in Seq(PacketsOf(shape))
  /\ Len(cpu_queue) <= 2 /\ Len(packets) + Len(cpu_queue) <= Planned
  /\ \A i \in 1 .. Len(cpu_queue) : cpu_queue[i] = Sent(shape, Gone + i)
  /\ \A i \in 1 .. Len(packets) : packets[i] = Sent(shape, Gone + Len(cpu_queue) + i)

StoreMsg == [cmd : {"STORE_REQUEST"}, data : Nat, addr : Nat]

StoreSide ==
  /\ config_regs \in [Im2col!Geometry -> Nat]
  /\ engine \in [state : {"IDLE", "READ", "EMIT", "DONE"}, ox : Nat, oy : Nat, kx : Nat,
                 ky : Nat, Hout : Nat, Wout : Nat, emit_idx : Nat, data_reg : Nat]
  /\ im2col_queue \in Seq(StoreMsg) /\ store_queue \in Seq(StoreMsg) /\ stored \in Seq(StoreMsg)

TileInNoc == bypass_queue # <<>> /\ bypass_queue[1].cmd = "TILE"

NocSide ==
  \/ bypass_queue = <<>>
  \/ \E b \in StoreMsg : bypass_queue = <<b>>
  \/ bypass_queue = <<TilePacket(TilesGone)>>

TileSide ==
  /\ at_tiles \in Seq({TilePacket(i) : i \in Nat})
  /\ \A i \in 1 .. Len(at_tiles) : at_tiles[i] = TilePacket(i)
  /\ Len(at_tiles) = TilesGone - (IF TileInNoc THEN 1 ELSE 0)

(* The gate is closed from the launch until the engine is done, and one    *)
(* packet at most came into the controller's queue behind the launch.      *)
GateHolds ==
  /\ engine.state = "IDLE" <=> Gone < Launch
  /\ engine.state \in {"READ", "EMIT"} =>
       engine_active /\ Gone + Len(cpu_queue) <= Launch + 1

Im2colInv == CpuSide /\ StoreSide /\ NocSide /\ TileSide /\ GateHolds

LEMMA Counters ==
  ASSUME Im2colShape, CpuSide
  PROVE  /\ Len(packets) \in Nat /\ Len(cpu_queue) \in Nat /\ Early \in Nat /\ Late \in Nat
         /\ Launch = Early + 7 /\ Planned = Early + 7 + Late
         /\ Gone \in Nat /\ Gone = Planned - (Len(packets) + Len(cpu_queue))
         /\ TilesGone \in Nat
  BY DEF Im2colShape, CpuSide, Gone, TilesGone, Launch, Planned

(* The kind of a packet is decided by its place in the program.            *)
LEMMA KindOfPacket ==
  ASSUME Im2colShape, NEW s, NEW i \in Nat
  PROVE  /\ Sent(s, i).cmd \in Im2col!Geometry <=> Early < i /\ i < Launch
         /\ Sent(s, i).cmd = "LAUNCH" <=> i = Launch
         /\ Sent(s, i).cmd = "TILE" <=> i <= Early \/ Launch < i
         /\ Early < i /\ i < Launch => /\ Sent(s, i).cmd = Im2col!Order[i - Early]
                                       /\ Sent(s, i).n = s[Im2col!Order[i - Early]]
         /\ i <= Early => Sent(s, i) = TilePacket(i)
         /\ Launch < i => Sent(s, i) = TilePacket(i - 7)
<1>0. Early \in Nat /\ Launch = Early + 7
  BY DEF Im2colShape, Launch
<1>1. \A k : TilePacket(k).cmd = "TILE"
  BY DEF TilePacket
<1>2. "TILE" \notin Im2col!Geometry /\ "LAUNCH" \notin Im2col!Geometry
  BY DEF Im2col!Geometry
<1>3. CASE i <= Early
  <2>1. Sent(s, i) = TilePacket(i) /\ ~(i = Launch) /\ ~(Launch < i) /\ ~(Early < i)
    BY <1>0, <1>3 DEF Sent
  <2> QED BY <1>1, <1>2, <1>3, <2>1
<1>4. CASE Early < i /\ i < Launch
  <2> DEFINE g == Im2col!Order[i - Early]
  <2>1. ~(i <= Early) /\ i < Launch /\ i - Early \in 1 .. 6 /\ i # Launch /\ ~(Launch < i)
    BY <1>0, <1>4
  <2>2. Sent(s, i) = [cmd |-> g, n |-> s[g]]
    BY <2>1 DEF Sent
  <2>3. g \in Im2col!Geometry
    BY <2>1, OrderOfGeometry
  <2> HIDE DEF g
  <2>4. Sent(s, i).cmd = g /\ Sent(s, i).n = s[g]
    BY <2>2
  <2> QED BY <1>2, <1>4, <2>1, <2>3, <2>4 DEF g
<1>5. CASE i = Launch
  <2>1. Sent(s, i) = [cmd |-> "LAUNCH"] /\ ~(i < Launch) /\ ~(i <= Early) /\ ~(Launch < i)
    BY <1>0, <1>5 DEF Sent
  <2>2. Sent(s, i).cmd = "LAUNCH"
    BY <2>1
  <2> QED BY <1>2, <1>5, <2>1, <2>2
<1>6. CASE Launch < i
  <2>1. Sent(s, i) = TilePacket(i - 7) /\ ~(i < Launch) /\ ~(i <= Early) /\ ~(i = Launch)
    BY <1>0, <1>6 DEF Sent
  <2> QED BY <1>1, <1>2, <1>6, <2>1
<1> QED BY <1>0, <1>3, <1>4, <1>5, <1>6

LEMMA HeadOfQueue ==
  ASSUME Im2colShape, CpuSide, cpu_queue # <<>>
  PROVE  /\ Head(cpu_queue) = Sent(shape, Gone + 1) /\ Len(cpu_queue) > 0
         /\ Gone + 1 \in Nat /\ Gone < Planned
<1>1. Len(cpu_queue) \in Nat /\ Len(cpu_queue) > 0 /\ Head(cpu_queue) = cpu_queue[1]
  BY DEF CpuSide
<1>2. 1 \in 1 .. Len(cpu_queue)
  BY <1>1
<1>3. cpu_queue[1] = Sent(shape, Gone + 1)
  BY <1>2 DEF CpuSide
<1> QED BY <1>1, <1>3, Counters

(* The engine or the network takes the packet at the head of the queue.    *)
LEMMA TakeHead ==
  ASSUME Im2colShape, CpuSide, cpu_queue # <<>>,
         cpu_queue' = Tail(cpu_queue), packets' = packets, shape' = shape
  PROVE  CpuSide' /\ Gone' = Gone + 1 /\ Len(cpu_queue') = Len(cpu_queue) - 1
<1>1. /\ Len(packets) \in Nat /\ Len(cpu_queue) \in Nat /\ Len(cpu_queue) > 0
      /\ Gone = Planned - (Len(packets) + Len(cpu_queue)) /\ Gone \in Nat
      /\ Planned \in Nat
  BY Counters, HeadOfQueue
<1>2. /\ cpu_queue' \in Seq(PacketsOf(shape)) /\ Len(cpu_queue') = Len(cpu_queue) - 1
      /\ \A i \in 1 .. Len(cpu_queue') : cpu_queue'[i] = cpu_queue[i + 1]
  BY HeadTailProperties DEF CpuSide
<1>3. Gone' = Planned - (Len(packets) + Len(cpu_queue'))
  BY DEF Gone, Planned, Launch
<1>4. Gone' = Gone + 1
  BY <1>1, <1>2, <1>3
<1>5. ASSUME NEW i \in 1 .. Len(cpu_queue') PROVE cpu_queue'[i] = Sent(shape, Gone' + i)
  <2>1. i + 1 \in 1 .. Len(cpu_queue) /\ Gone' + i = Gone + (i + 1)
    BY <1>1, <1>2, <1>4
  <2>2. cpu_queue[i + 1] = Sent(shape, Gone + (i + 1))
    BY <2>1 DEF CpuSide
  <2> QED BY <1>2, <2>1, <2>2
<1>6. ASSUME NEW i \in 1 .. Len(packets')
      PROVE  packets'[i] = Sent(shape, Gone' + Len(cpu_queue') + i)
  <2>1. Gone' + Len(cpu_queue') + i = Gone + Len(cpu_queue) + i
    BY <1>1, <1>2, <1>4
  <2> QED BY <2>1 DEF CpuSide
<1>7. /\ Len(cpu_queue') <= 2 /\ Len(packets') + Len(cpu_queue') <= Planned
      /\ Planned' = Planned
  <2>1. Len(cpu_queue) <= 2 /\ Len(packets) + Len(cpu_queue) <= Planned
    BY DEF CpuSide
  <2> QED BY <1>1, <1>2, <2>1 DEF Planned, Launch
<1>8. PacketsOf(shape)' = PacketsOf(shape) /\ \A i : Sent(shape, i)' = Sent(shape, i)
  BY DEF PacketsOf, Sent, TilePacket, Planned, Launch
<1>9. shape' \in Shapes /\ packets' \in Seq(PacketsOf(shape')) /\ cpu_queue' \in Seq(PacketsOf(shape'))
  BY <1>2, <1>8 DEF CpuSide
<1> QED BY <1>2, <1>4, <1>5, <1>6, <1>7, <1>9 DEF CpuSide

LEMMA SendCpuInv ==
  ASSUME Im2colShape, Im2colInv, Im2col!SendCpu
  PROVE  Im2colInv'
<1>0. /\ CpuSide /\ packets # <<>> /\ ~engine_active /\ Len(cpu_queue) < 2
      /\ cpu_queue' = Append(cpu_queue, Head(packets)) /\ packets' = Tail(packets)
      /\ UNCHANGED <<shape, engine_active, config_regs, engine, im2col_queue>>
      /\ UNCHANGED <<bypass_queue, store_queue, stored, at_tiles>>
  BY DEF Im2colInv, Im2col!SendCpu, Im2col!gate_cpu_stream, Im2col!QueueSize, Im2col!engine_side
<1> DEFINE P == PacketsOf(shape)
<1>1. /\ Len(packets) \in Nat /\ Len(cpu_queue) \in Nat /\ Len(packets) > 0
      /\ Gone = Planned - (Len(packets) + Len(cpu_queue)) /\ Gone \in Nat /\ Planned \in Nat
  BY <1>0, Counters DEF CpuSide
<1>2. Head(packets) \in P /\ Head(packets) = Sent(shape, Gone + Len(cpu_queue) + 1)
  <2>1. Head(packets) = packets[1] /\ packets[1] \in P /\ 1 \in 1 .. Len(packets)
    BY <1>0, <1>1 DEF CpuSide
  <2> QED BY <1>0, <2>1 DEF CpuSide
<1>3. /\ packets' \in Seq(P) /\ Len(packets') = Len(packets) - 1
      /\ \A i \in 1 .. Len(packets') : packets'[i] = packets[i + 1]
  BY <1>0, HeadTailProperties DEF CpuSide
<1>4. /\ cpu_queue' \in Seq(P) /\ Len(cpu_queue') = Len(cpu_queue) + 1
      /\ \A i \in 1 .. Len(cpu_queue) : cpu_queue'[i] = cpu_queue[i]
      /\ cpu_queue'[Len(cpu_queue) + 1] = Head(packets)
  BY <1>0, <1>2, AppendProperties DEF CpuSide
<1>5. Gone' = Gone
  <2>1. Gone' = Planned - (Len(packets') + Len(cpu_queue'))
    BY DEF Gone, Planned, Launch
  <2> QED BY <1>1, <1>3, <1>4, <2>1
<1>6. ASSUME NEW i \in 1 .. Len(cpu_queue') PROVE cpu_queue'[i] = Sent(shape, Gone + i)
  <2>1. i \in 1 .. Len(cpu_queue) \/ i = Len(cpu_queue) + 1
    BY <1>1, <1>4
  <2>2. CASE i \in 1 .. Len(cpu_queue)
    BY <1>0, <1>4, <2>2 DEF CpuSide
  <2>3. CASE i = Len(cpu_queue) + 1
    <3>1. Gone + Len(cpu_queue) + 1 = Gone + i
      BY <1>1, <2>3
    <3> QED BY <1>2, <1>4, <2>3, <3>1
  <2> QED BY <2>1, <2>2, <2>3
<1>7. ASSUME NEW i \in 1 .. Len(packets')
      PROVE  packets'[i] = Sent(shape, Gone + Len(cpu_queue') + i)
  <2>1. i + 1 \in 1 .. Len(packets) /\ Gone + Len(cpu_queue) + (i + 1) = Gone + Len(cpu_queue') + i
    BY <1>1, <1>3, <1>4
  <2>2. packets[i + 1] = Sent(shape, Gone + Len(cpu_queue) + (i + 1))
    BY <1>0, <2>1 DEF CpuSide
  <2> QED BY <1>3, <2>1, <2>2
<1>8. /\ Len(cpu_queue') <= 2 /\ Len(packets') + Len(cpu_queue') <= Planned
      /\ Planned' = Planned
  <2>1. Len(packets) + Len(cpu_queue) <= Planned
    BY <1>0 DEF CpuSide
  <2> QED BY <1>0, <1>1, <1>3, <1>4, <2>1 DEF Planned, Launch
<1>9. CpuSide'
  <2>1. shape' = shape /\ PacketsOf(shape)' = P /\ shape \in Shapes
    BY <1>0 DEF PacketsOf, Sent, TilePacket, Planned, Launch, CpuSide
  <2>2. \A i : Sent(shape, i)' = Sent(shape, i)
    BY <1>0 DEF Sent, TilePacket, Launch
  <2> QED BY <1>3, <1>4, <1>5, <1>6, <1>7, <1>8, <2>1, <2>2 DEF CpuSide
<1>10. TilesGone' = TilesGone /\ TileInNoc' = TileInNoc
  BY <1>0, <1>5 DEF TilesGone, TileInNoc, Launch
<1>11. StoreSide' /\ NocSide' /\ TileSide'
  BY <1>0, <1>10 DEF Im2colInv, StoreSide, NocSide, TileSide, TilePacket
<1>12. GateHolds'
  BY <1>0, <1>5 DEF Im2colInv, GateHolds, Launch
<1> QED BY <1>9, <1>11, <1>12 DEF Im2colInv

LEMMA RecvConfigInv ==
  ASSUME Im2colShape, Im2colInv, Im2col!RecvConfig
  PROVE  Im2colInv'
<1>0. /\ CpuSide /\ cpu_queue # <<>> /\ Head(cpu_queue).cmd \in Im2col!Geometry
      /\ cpu_queue' = Tail(cpu_queue) /\ engine.state = "IDLE"
      /\ UNCHANGED <<shape, packets, engine_active, engine, im2col_queue>>
      /\ UNCHANGED <<bypass_queue, store_queue, stored, at_tiles>>
  BY DEF Im2colInv, Im2col!RecvConfig
<1>1. CpuSide' /\ Gone' = Gone + 1
  BY <1>0, TakeHead
<1>2. Gone \in Nat /\ Early \in Nat /\ Launch = Early + 7
  BY <1>0, Counters
<1>3. Early <= Gone /\ Gone + 1 < Launch
  <2>1. Early < Gone + 1 /\ Gone + 1 < Launch
    BY <1>0, <1>2, HeadOfQueue, KindOfPacket
  <2> QED BY <1>2, <2>1
<1>4. TilesGone' = TilesGone /\ TileInNoc' = TileInNoc
  <2>1. TilesGone = Early /\ TilesGone' = Early
    BY <1>1, <1>2, <1>3 DEF TilesGone, Launch
  <2> QED BY <1>0, <2>1 DEF TileInNoc
<1>5. config_regs' \in [Im2col!Geometry -> Nat]
  <2> DEFINE g == Head(cpu_queue).cmd
             m == IF g = "dst_sram_base" THEN DataAddrMod ELSE ScratchMod
             n == Head(cpu_queue).n
  <2>1. g = Im2col!Order[(Gone + 1) - Early] /\ n = shape[Im2col!Order[(Gone + 1) - Early]]
    <3>1. Early < Gone + 1 /\ Gone + 1 < Launch
      BY <1>2, <1>3
    <3> QED BY <1>0, <3>1, HeadOfQueue, KindOfPacket
  <2>2. (Gone + 1) - Early \in 1 .. 6
    BY <1>2, <1>3
  <2>3. n \in Nat
    BY <1>0, <2>1, <2>2, OrderOfGeometry DEF CpuSide, Im2colShape
  <2>4. m \in Nat \ {0}
    BY DEF Im2colShape
  <2>5. config_regs' = [config_regs EXCEPT ![g] = n % m]
    BY DEF Im2col!RecvConfig
  <2> HIDE DEF g, m, n
  <2>6. n % m \in Nat
    BY <2>3, <2>4
  <2> QED BY <2>5, <2>6 DEF Im2colInv, StoreSide
<1>6. StoreSide' /\ NocSide' /\ TileSide'
  BY <1>0, <1>4, <1>5 DEF Im2colInv, StoreSide, NocSide, TileSide, TilePacket
<1>7. GateHolds'
  BY <1>0, <1>1, <1>2, <1>3 DEF Im2colInv, GateHolds, Launch
<1> QED BY <1>1, <1>6, <1>7 DEF Im2colInv

LEMMA PositionsType ==
  ASSUME Im2colShape, StoreSide, NEW size \in Sizes, NEW kernel \in Sizes
  PROVE  Im2col!Positions(size, kernel) \in Nat
<1> DEFINE a == config_regs[size]
           b == config_regs[kernel]
           d == 2^config_regs["log2_stride"]
<1>1. a \in Nat /\ b \in Nat /\ config_regs["log2_stride"] \in Nat
  BY DEF StoreSide, Sizes, Im2col!Geometry
<1>2. d \in Nat \ {0}
  <2>1. d > 0 /\ d \in Int
    BY <1>1 DEF Im2colShape
  <2> QED BY <2>1
<1>3. ScratchMod \in Nat \ {0}
  BY DEF Im2colShape
<1>4. Im2col!Positions(size, kernel) = (((a - b) % ScratchMod) \div d + 1) % ScratchMod
  BY DEF Im2col!Positions
<1> HIDE DEF a, b, d
<1>5. (a - b) % ScratchMod \in Nat
  BY <1>1, <1>3
<1>6. \A n \in Nat : n \div d \in Nat
  BY <1>2
<1>7. \A n \in Nat : (n + 1) % ScratchMod \in Nat
  BY <1>3
<1> QED BY <1>4, <1>5, <1>6, <1>7

LEMMA RecvLaunchInv ==
  ASSUME Im2colShape, Im2colInv, Im2col!RecvLaunch
  PROVE  Im2colInv'
<1>0. /\ CpuSide /\ cpu_queue # <<>> /\ Head(cpu_queue).cmd = "LAUNCH"
      /\ cpu_queue' = Tail(cpu_queue) /\ engine.state = "IDLE" /\ engine_active' = TRUE
      /\ UNCHANGED <<shape, packets, config_regs, im2col_queue>>
      /\ UNCHANGED <<bypass_queue, store_queue, stored, at_tiles>>
  BY DEF Im2colInv, Im2col!RecvLaunch
<1>1. CpuSide' /\ Gone' = Gone + 1 /\ Len(cpu_queue') = Len(cpu_queue) - 1
  BY <1>0, TakeHead
<1>2. Gone \in Nat /\ Early \in Nat /\ Launch = Early + 7 /\ Len(cpu_queue) \in Nat
  BY <1>0, Counters
<1>3. Gone + 1 = Launch
  BY <1>0, <1>2, HeadOfQueue, KindOfPacket
<1>4. TilesGone' = TilesGone /\ TileInNoc' = TileInNoc
  <2>1. TilesGone = Early /\ TilesGone' = Early
    BY <1>1, <1>2, <1>3 DEF TilesGone, Launch
  <2> QED BY <1>0, <2>1 DEF TileInNoc
<1>5. /\ engine' \in [state : {"IDLE", "READ", "EMIT", "DONE"}, ox : Nat, oy : Nat, kx : Nat,
                      ky : Nat, Hout : Nat, Wout : Nat, emit_idx : Nat, data_reg : Nat]
      /\ engine'.state = "READ"
  <2>1. Im2col!Positions("H", "kH") \in Nat /\ Im2col!Positions("W", "kW") \in Nat
    BY PositionsType DEF Im2colInv, Sizes
  <2> QED BY <2>1 DEF Im2col!RecvLaunch, Im2colInv, StoreSide
<1>6. StoreSide' /\ NocSide' /\ TileSide'
  BY <1>0, <1>4, <1>5 DEF Im2colInv, StoreSide, NocSide, TileSide, TilePacket
<1>7. GateHolds'
  <2>1. Gone' + Len(cpu_queue') <= Launch + 1
    BY <1>0, <1>1, <1>2, <1>3 DEF CpuSide
  <2>2. ~(Gone' < Launch) /\ Launch' = Launch
    BY <1>1, <1>2, <1>3 DEF Launch
  <2> QED BY <1>0, <1>5, <2>1, <2>2 DEF GateHolds
<1> QED BY <1>1, <1>6, <1>7 DEF Im2colInv

(* Steps that leave the controller's CPU side as it is.                    *)
LEMMA CpuSideKept ==
  ASSUME CpuSide, shape' = shape, packets' = packets, cpu_queue' = cpu_queue
  PROVE  CpuSide' /\ Gone' = Gone /\ TilesGone' = TilesGone /\ Launch' = Launch
<1>1. Gone' = Gone /\ Launch' = Launch /\ Planned' = Planned
  BY DEF Gone, Planned, Launch
<1>2. TilesGone' = TilesGone
  BY <1>1 DEF TilesGone
<1>3. PacketsOf(shape)' = PacketsOf(shape) /\ \A i : Sent(shape, i)' = Sent(shape, i)
  BY DEF PacketsOf, Sent, TilePacket, Planned, Launch
<1> QED BY <1>1, <1>2, <1>3 DEF CpuSide

LEMMA ReadImageInv ==
  ASSUME Im2colShape, Im2colInv, Im2col!ReadImage
  PROVE  Im2colInv'
<1>0. /\ UNCHANGED <<shape, packets, engine_active, cpu_queue, config_regs, im2col_queue>>
      /\ UNCHANGED <<bypass_queue, store_queue, stored, at_tiles>>
      /\ engine.state = "READ"
      /\ engine' = [engine EXCEPT !.state = "EMIT", !.data_reg = Im2col!in_mem(Im2col!in_addr)]
  BY DEF Im2col!ReadImage, Im2col!cpu_side
<1>1. CpuSide' /\ Gone' = Gone /\ TilesGone' = TilesGone /\ Launch' = Launch /\ TileInNoc' = TileInNoc
  BY <1>0, CpuSideKept DEF Im2colInv, TileInNoc
<1>2. Im2col!in_mem(Im2col!in_addr) \in Nat
  <2> DEFINE r == Im2col!in_row
             c == Im2col!in_col
             w == config_regs["W"]
             d == 2^config_regs["log2_stride"]
  <2>1. w \in Nat /\ config_regs["log2_stride"] \in Nat
    BY DEF Im2colInv, StoreSide, Im2col!Geometry
  <2>2. d \in Int
    BY <2>1
  <2>3. /\ engine.oy \in Nat /\ engine.ky \in Nat /\ engine.ox \in Nat /\ engine.kx \in Nat
        /\ r = engine.oy * d + engine.ky /\ c = engine.ox * d + engine.kx
    BY DEF Im2colInv, StoreSide, Im2col!in_row, Im2col!in_col
  <2> HIDE DEF d
  <2>4. r \in Int /\ c \in Int
    BY <2>2, <2>3
  <2>5. Im2col!in_addr = (r * w + c) % ScratchMod
    BY DEF Im2col!in_addr
  <2> HIDE DEF r, c, w
  <2>6. r * w + c \in Int
    BY <2>1, <2>4 DEF w
  <2>7. (r * w + c) % ScratchMod \in Nat
    BY <2>6 DEF Im2colShape
  <2> QED BY <2>5, <2>7 DEF Im2col!in_mem
<1>3. /\ engine' \in [state : {"IDLE", "READ", "EMIT", "DONE"}, ox : Nat, oy : Nat, kx : Nat,
                      ky : Nat, Hout : Nat, Wout : Nat, emit_idx : Nat, data_reg : Nat]
      /\ engine'.state = "EMIT"
  BY <1>0, <1>2 DEF Im2colInv, StoreSide
<1>4. StoreSide' /\ NocSide' /\ TileSide'
  BY <1>0, <1>1, <1>3 DEF Im2colInv, StoreSide, NocSide, TileSide, TilePacket
<1>5. GateHolds'
  BY <1>0, <1>1, <1>3 DEF Im2colInv, GateHolds
<1> QED BY <1>1, <1>4, <1>5 DEF Im2colInv

LEMMA StoreType ==
  ASSUME Im2colShape, StoreSide
  PROVE  Im2col!Store \in StoreMsg
<1> DEFINE b == config_regs["dst_sram_base"]
           e == engine.emit_idx
<1>1. b \in Nat /\ e \in Nat /\ engine.data_reg \in Nat /\ DataAddrMod \in Nat \ {0}
  BY DEF StoreSide, Im2col!Geometry, Im2colShape
<1>2. Im2col!Store = [cmd |-> "STORE_REQUEST", data |-> engine.data_reg,
                      addr |-> (b + e) % DataAddrMod]
  BY DEF Im2col!Store
<1> HIDE DEF b, e
<1>3. (b + e) % DataAddrMod \in Nat
  BY <1>1
<1> QED BY <1>1, <1>2, <1>3 DEF StoreMsg

LEMMA AdvanceType ==
  ASSUME StoreSide, engine.state = "EMIT"
  PROVE  /\ Im2col!Advance \in
              [state : {"EMIT", "DONE"}, ox : Nat, oy : Nat, kx : Nat, ky : Nat, Hout : Nat,
               Wout : Nat, emit_idx : Nat, data_reg : Nat]
         /\ Im2col!Advance.emit_idx = engine.emit_idx
<1> DEFINE T == [state : {"EMIT", "DONE"}, ox : Nat, oy : Nat, kx : Nat, ky : Nat, Hout : Nat,
                 Wout : Nat, emit_idx : Nat, data_reg : Nat]
           Right(e) == e \in T /\ e.emit_idx = engine.emit_idx
<1>1. engine \in T
  BY DEF StoreSide
<1>2. ASSUME NEW e, Right(e), NEW n \in Nat
      PROVE  /\ Right([e EXCEPT !.ox = n]) /\ Right([e EXCEPT !.oy = n])
             /\ Right([e EXCEPT !.kx = n]) /\ Right([e EXCEPT !.ky = n])
             /\ Right([e EXCEPT !.state = "DONE"])
  BY <1>2
<1>3. Right(engine)
  BY <1>1
<1>4. /\ engine.ox + 1 \in Nat /\ engine.oy + 1 \in Nat
      /\ engine.kx + 1 \in Nat /\ engine.ky + 1 \in Nat
  BY <1>1
<1> HIDE DEF Right
<1>5. /\ Right([engine EXCEPT !.ox = @ + 1])
      /\ Right([engine EXCEPT !.ox = 0, !.oy = @ + 1])
      /\ Right([engine EXCEPT !.ox = 0, !.oy = 0, !.kx = @ + 1])
      /\ Right([engine EXCEPT !.ox = 0, !.oy = 0, !.kx = 0, !.ky = @ + 1])
      /\ Right([engine EXCEPT !.state = "DONE"])
  BY <1>2, <1>3, <1>4
<1> HIDE DEF Right
<1>6. Right(Im2col!Advance)
  BY <1>5 DEF Im2col!Advance
<1> QED BY <1>6 DEF Right

LEMMA SendStoreInv ==
  ASSUME Im2colShape, Im2colInv, Im2col!SendStore
  PROVE  Im2colInv'
<1>0. /\ UNCHANGED <<shape, packets, engine_active, cpu_queue, config_regs>>
      /\ UNCHANGED <<bypass_queue, store_queue, stored, at_tiles>>
      /\ engine.state = "EMIT" /\ im2col_queue' = Append(im2col_queue, Im2col!Store)
      /\ engine' = [Im2col!Advance EXCEPT !.state = IF @ = "EMIT" THEN "READ" ELSE @,
                                          !.emit_idx = (@ + 1) % DataAddrMod]
  BY DEF Im2col!SendStore, Im2col!cpu_side
<1>1. CpuSide' /\ Gone' = Gone /\ TilesGone' = TilesGone /\ Launch' = Launch /\ TileInNoc' = TileInNoc
  BY <1>0, CpuSideKept DEF Im2colInv, TileInNoc
<1>2. im2col_queue' \in Seq(StoreMsg)
  BY <1>0, StoreType, AppendProperties DEF Im2colInv, StoreSide
<1>3. /\ engine' \in [state : {"IDLE", "READ", "EMIT", "DONE"}, ox : Nat, oy : Nat, kx : Nat,
                      ky : Nat, Hout : Nat, Wout : Nat, emit_idx : Nat, data_reg : Nat]
      /\ engine'.state \in {"READ", "DONE"}
  <2> DEFINE a == Im2col!Advance
  <2>1. /\ a \in [state : {"EMIT", "DONE"}, ox : Nat, oy : Nat, kx : Nat, ky : Nat, Hout : Nat,
                  Wout : Nat, emit_idx : Nat, data_reg : Nat]
        /\ engine' = [a EXCEPT !.state = IF @ = "EMIT" THEN "READ" ELSE @,
                               !.emit_idx = (@ + 1) % DataAddrMod]
    BY <1>0, AdvanceType DEF Im2colInv
  <2> HIDE DEF a
  <2>2. (a.emit_idx + 1) % DataAddrMod \in Nat
    BY <2>1 DEF Im2colShape
  <2> QED BY <2>1, <2>2
<1>4. StoreSide' /\ NocSide' /\ TileSide'
  BY <1>0, <1>1, <1>2, <1>3 DEF Im2colInv, StoreSide, NocSide, TileSide, TilePacket
<1>5. GateHolds'
  BY <1>0, <1>1, <1>3 DEF Im2colInv, GateHolds
<1> QED BY <1>1, <1>4, <1>5 DEF Im2colInv

LEMMA ReleaseGateInv ==
  ASSUME Im2colShape, Im2colInv, Im2col!ReleaseGate
  PROVE  Im2colInv'
<1>0. /\ UNCHANGED <<shape, packets, cpu_queue, config_regs, engine, im2col_queue>>
      /\ UNCHANGED <<bypass_queue, store_queue, stored, at_tiles>>
      /\ engine.state = "DONE"
  BY DEF Im2col!ReleaseGate, Im2col!engine_side
<1>1. CpuSide' /\ Gone' = Gone /\ TilesGone' = TilesGone /\ Launch' = Launch /\ TileInNoc' = TileInNoc
  BY <1>0, CpuSideKept DEF Im2colInv, TileInNoc
<1> QED BY <1>0, <1>1 DEF Im2colInv, StoreSide, NocSide, TileSide, TilePacket, GateHolds

LEMMA NocContents ==
  ASSUME NocSide
  PROVE  /\ bypass_queue = <<>> => ~TileInNoc
         /\ TileInNoc => bypass_queue = <<TilePacket(TilesGone)>>
         /\ bypass_queue # <<>> /\ ~TileInNoc =>
              /\ bypass_queue = <<bypass_queue[1]>> /\ bypass_queue[1] \in StoreMsg
              /\ bypass_queue[1].cmd = "STORE_REQUEST"
<1>1. TilePacket(TilesGone).cmd = "TILE"
  BY DEF TilePacket
<1>2. \A b \in StoreMsg : b.cmd = "STORE_REQUEST"
  BY DEF StoreMsg
<1>3. ASSUME NEW b \in StoreMsg, bypass_queue = <<b>>
      PROVE  bypass_queue = <<bypass_queue[1]>> /\ bypass_queue[1] = b
  BY <1>3
<1>4. CASE bypass_queue = <<>>
  BY <1>4 DEF TileInNoc
<1>5. CASE \E b \in StoreMsg : bypass_queue = <<b>>
  <2>1. PICK b \in StoreMsg : bypass_queue = <<b>>
    BY <1>5
  <2>2. bypass_queue[1] = b /\ b.cmd = "STORE_REQUEST" /\ bypass_queue # <<>>
    BY <1>2, <2>1
  <2> QED BY <2>1, <2>2 DEF TileInNoc
<1>6. CASE bypass_queue = <<TilePacket(TilesGone)>>
  <2>1. bypass_queue[1] = TilePacket(TilesGone) /\ bypass_queue # <<>>
    BY <1>6
  <2> QED BY <1>1, <1>6, <2>1 DEF TileInNoc
<1> QED BY <1>4, <1>5, <1>6 DEF NocSide

LEMMA GrantCpuInv ==
  ASSUME Im2colShape, Im2colInv, Im2col!GrantCpu
  PROVE  Im2colInv'
<1>0. /\ CpuSide /\ cpu_queue # <<>> /\ Head(cpu_queue).cmd = "TILE" /\ bypass_queue = <<>>
      /\ cpu_queue' = Tail(cpu_queue) /\ bypass_queue' = <<Head(cpu_queue)>>
      /\ UNCHANGED <<shape, packets, engine_active, config_regs, engine, im2col_queue>>
      /\ UNCHANGED <<store_queue, stored, at_tiles>>
  BY DEF Im2colInv, Im2col!GrantCpu, Im2col!engine_side
<1>1. CpuSide' /\ Gone' = Gone + 1 /\ Len(cpu_queue') = Len(cpu_queue) - 1
  BY <1>0, TakeHead
<1>2. Gone \in Nat /\ Early \in Nat /\ Launch = Early + 7 /\ Len(cpu_queue) \in Nat
  BY <1>0, Counters
<1>3. Gone + 1 <= Early \/ Launch < Gone + 1
  BY <1>0, <1>2, HeadOfQueue, KindOfPacket
<1>4. TilesGone \in Nat /\ TilesGone' = TilesGone + 1 /\ Head(cpu_queue) = TilePacket(TilesGone')
  <2>1. Head(cpu_queue) = Sent(shape, Gone + 1) /\ Gone + 1 \in Nat
    BY <1>0, HeadOfQueue
  <2>2. CASE Gone + 1 <= Early
    <3>1. TilesGone = Gone /\ TilesGone' = Gone + 1
      BY <1>1, <1>2, <2>2 DEF TilesGone, Launch
    <3> QED BY <1>2, <2>1, <2>2, <3>1, KindOfPacket
  <2>3. CASE Launch < Gone + 1
    <3>1. TilesGone = Gone - 7 /\ TilesGone' = (Gone + 1) - 7 /\ Gone >= Launch
      BY <1>1, <1>2, <2>3 DEF TilesGone, Launch
    <3>2. Head(cpu_queue) = TilePacket((Gone + 1) - 7)
      BY <1>2, <2>1, <2>3, KindOfPacket
    <3> QED BY <1>2, <3>1, <3>2
  <2> QED BY <1>3, <2>2, <2>3
<1>5. ~TileInNoc /\ TileInNoc'
  <2>1. TilePacket(TilesGone').cmd = "TILE"
    BY DEF TilePacket
  <2>2. bypass_queue' # <<>> /\ bypass_queue'[1] = TilePacket(TilesGone')
    BY <1>0, <1>4
  <2> QED BY <1>0, <2>1, <2>2 DEF TileInNoc
<1>6. StoreSide'
  BY <1>0 DEF Im2colInv, StoreSide
<1>7. NocSide'
  BY <1>0, <1>4 DEF NocSide, TilePacket
<1>8. TileSide'
  <2>1. Len(at_tiles) = TilesGone
    BY <1>4, <1>5 DEF Im2colInv, TileSide
  <2>2. Len(at_tiles') = TilesGone' - 1
    BY <1>0, <1>4, <2>1
  <2> QED BY <1>0, <1>5, <2>2 DEF Im2colInv, TileSide, TilePacket
<1>9. GateHolds'
  <2>1. /\ engine.state = "IDLE" <=> Gone < Launch
        /\ engine.state \in {"READ", "EMIT"} => engine_active /\ Gone + Len(cpu_queue) <= Launch + 1
    BY DEF Im2colInv, GateHolds
  <2>2. Gone' + Len(cpu_queue') = Gone + Len(cpu_queue) /\ (Gone' < Launch <=> Gone < Launch)
    BY <1>1, <1>2, <1>3
  <2> QED BY <1>0, <2>1, <2>2 DEF GateHolds, Launch
<1> QED BY <1>1, <1>6, <1>7, <1>8, <1>9 DEF Im2colInv

(* The packets for the tiles and the gate, in steps of the store path.     *)
LEMMA StorePathKeeps ==
  ASSUME Im2colShape, Im2colInv, ~TileInNoc, ~TileInNoc',
         UNCHANGED <<shape, packets, engine_active, cpu_queue, config_regs, engine, at_tiles>>
  PROVE  CpuSide' /\ TileSide' /\ GateHolds'
<1>1. CpuSide' /\ Gone' = Gone /\ TilesGone' = TilesGone /\ Launch' = Launch
  BY CpuSideKept DEF Im2colInv
<1> QED BY <1>1 DEF Im2colInv, TileSide, TilePacket, GateHolds

LEMMA StoreInNoc ==
  ASSUME NEW b \in StoreMsg, NEW q, q = <<b>>
  PROVE  q # <<>> /\ q[1] = b /\ q[1].cmd # "TILE" /\ q[1].cmd = "STORE_REQUEST"
  BY DEF StoreMsg

LEMMA GrantIm2colInv ==
  ASSUME Im2colShape, Im2colInv, Im2col!GrantIm2col
  PROVE  Im2colInv'
<1>0. /\ UNCHANGED <<shape, packets, engine_active, cpu_queue, config_regs, engine>>
      /\ UNCHANGED <<store_queue, stored, at_tiles>>
      /\ bypass_queue = <<>> /\ im2col_queue # <<>>
      /\ bypass_queue' = <<Head(im2col_queue)>> /\ im2col_queue' = Tail(im2col_queue)
  BY DEF Im2col!GrantIm2col, Im2col!cpu_side, Im2col!engine_side
<1>1. Head(im2col_queue) \in StoreMsg /\ Tail(im2col_queue) \in Seq(StoreMsg)
  BY <1>0, HeadTailProperties DEF Im2colInv, StoreSide
<1>2. ~TileInNoc /\ ~TileInNoc'
  BY <1>0, <1>1, StoreInNoc DEF TileInNoc
<1>3. StoreSide' /\ NocSide'
  BY <1>0, <1>1 DEF Im2colInv, StoreSide, NocSide, StoreMsg
<1> QED BY <1>0, <1>2, <1>3, StorePathKeeps DEF Im2colInv

LEMMA ToMemoryInv ==
  ASSUME Im2colShape, Im2colInv, Im2col!ToMemory
  PROVE  Im2colInv'
<1>0. /\ UNCHANGED <<shape, packets, engine_active, cpu_queue, config_regs, engine>>
      /\ UNCHANGED <<im2col_queue, stored, at_tiles>>
      /\ bypass_queue # <<>> /\ bypass_queue[1].cmd = "STORE_REQUEST" /\ bypass_queue' = <<>>
      /\ store_queue' = Append(store_queue, bypass_queue[1])
  BY DEF Im2col!ToMemory, Im2col!cpu_side, Im2col!engine_side
<1>1. ~TileInNoc /\ ~TileInNoc'
  BY <1>0 DEF TileInNoc
<1>2. bypass_queue[1] \in StoreMsg
  BY <1>0, <1>1, NocContents DEF Im2colInv
<1>3. StoreSide' /\ NocSide'
  BY <1>0, <1>2, AppendProperties DEF Im2colInv, StoreSide, NocSide
<1> QED BY <1>0, <1>1, <1>3, StorePathKeeps DEF Im2colInv

LEMMA WriteMemoryInv ==
  ASSUME Im2colShape, Im2colInv, Im2col!WriteMemory
  PROVE  Im2colInv'
<1>0. /\ UNCHANGED <<shape, packets, engine_active, cpu_queue, config_regs, engine>>
      /\ UNCHANGED <<im2col_queue, bypass_queue, at_tiles>>
      /\ store_queue # <<>> /\ store_queue' = Tail(store_queue)
      /\ stored' = Append(stored, Head(store_queue))
  BY DEF Im2col!WriteMemory, Im2col!cpu_side, Im2col!engine_side
<1>1. /\ Head(store_queue) \in StoreMsg /\ Tail(store_queue) \in Seq(StoreMsg)
      /\ Append(stored, Head(store_queue)) \in Seq(StoreMsg)
  BY <1>0, HeadTailProperties, AppendProperties DEF Im2colInv, StoreSide
<1>2. CpuSide' /\ Gone' = Gone /\ TilesGone' = TilesGone /\ Launch' = Launch /\ TileInNoc' = TileInNoc
  BY <1>0, CpuSideKept DEF Im2colInv, TileInNoc
<1>3. StoreSide' /\ NocSide'
  BY <1>0, <1>1, <1>2 DEF Im2colInv, StoreSide, NocSide, StoreMsg, TilePacket
<1>4. TileSide' /\ GateHolds'
  BY <1>0, <1>2 DEF Im2colInv, TileSide, GateHolds, TilePacket
<1> QED BY <1>2, <1>3, <1>4 DEF Im2colInv

LEMMA ToTilesInv ==
  ASSUME Im2colShape, Im2colInv, Im2col!ToTiles
  PROVE  Im2colInv'
<1>0. /\ UNCHANGED <<shape, packets, engine_active, cpu_queue, config_regs, engine>>
      /\ UNCHANGED <<im2col_queue, store_queue, stored>>
      /\ bypass_queue # <<>> /\ bypass_queue[1].cmd = "TILE" /\ bypass_queue' = <<>>
      /\ at_tiles' = Append(at_tiles, bypass_queue[1])
  BY DEF Im2col!ToTiles, Im2col!cpu_side, Im2col!engine_side
<1>1. CpuSide' /\ Gone' = Gone /\ TilesGone' = TilesGone /\ Launch' = Launch
  BY <1>0, CpuSideKept DEF Im2colInv
<1>2. TileInNoc /\ ~TileInNoc'
  BY <1>0 DEF TileInNoc
<1>3. bypass_queue[1] = TilePacket(TilesGone) /\ TilesGone \in Nat
  <2>1. bypass_queue = <<TilePacket(TilesGone)>>
    BY <1>2, NocContents DEF Im2colInv
  <2>2. TilesGone \in Nat
    BY Counters DEF Im2colInv
  <2> QED BY <2>1, <2>2
<1>4. StoreSide' /\ NocSide'
  BY <1>0 DEF Im2colInv, StoreSide, NocSide
<1>5. TileSide'
  <2> DEFINE T == {TilePacket(i) : i \in Nat}
  <2>1. /\ at_tiles \in Seq(T) /\ Len(at_tiles) = TilesGone - 1 /\ Len(at_tiles) \in Nat
        /\ \A i \in 1 .. Len(at_tiles) : at_tiles[i] = TilePacket(i)
    BY <1>2 DEF Im2colInv, TileSide
  <2>2. TilePacket(TilesGone) \in T
    BY <1>3
  <2>3. /\ at_tiles' \in Seq(T) /\ Len(at_tiles') = Len(at_tiles) + 1
        /\ \A i \in 1 .. Len(at_tiles) : at_tiles'[i] = at_tiles[i]
        /\ at_tiles'[Len(at_tiles) + 1] = TilePacket(TilesGone)
    <3> HIDE DEF T
    <3> QED BY <1>0, <1>3, <2>1, <2>2, AppendProperties
  <2>4. ASSUME NEW i \in 1 .. Len(at_tiles') PROVE at_tiles'[i] = TilePacket(i)
    <3>1. i \in 1 .. Len(at_tiles) \/ (i = Len(at_tiles) + 1 /\ i = TilesGone)
      BY <1>3, <2>1, <2>3
    <3> QED BY <2>1, <2>3, <3>1
  <2>5. Len(at_tiles') = TilesGone'
    BY <1>1, <1>3, <2>1, <2>3
  <2> QED BY <1>2, <2>3, <2>4, <2>5 DEF TileSide, TilePacket
<1>6. GateHolds'
  BY <1>0, <1>1 DEF Im2colInv, GateHolds
<1> QED BY <1>1, <1>4, <1>5, <1>6 DEF Im2colInv

LEMMA Im2colInitInv ==
  ASSUME Im2colShape, Im2col!Init
  PROVE  Im2colInv
<1>1. /\ shape \in Shapes /\ packets = Im2col!Program(shape) /\ cpu_queue = <<>>
      /\ engine.state = "IDLE" /\ bypass_queue = <<>> /\ at_tiles = <<>>
      /\ im2col_queue = <<>> /\ store_queue = <<>> /\ stored = <<>>
      /\ config_regs = [g \in Im2col!Geometry |-> 0]
      /\ engine = [state |-> "IDLE", ox |-> 0, oy |-> 0, kx |-> 0, ky |-> 0, Hout |-> 0,
                   Wout |-> 0, emit_idx |-> 0, data_reg |-> 0]
  BY DEF Im2col!Init, Im2col!Reset
<1>2. /\ packets \in Seq(PacketsOf(shape)) /\ Len(packets) = Planned
      /\ \A i \in 1 .. Planned : packets[i] = Sent(shape, i)
  BY <1>1, ProgramIsSent
<1>3. Early \in Nat /\ Launch = Early + 7 /\ Planned = Early + 7 + Late /\ Late \in Nat
  BY DEF Im2colShape, Launch, Planned
<1>4. Gone = 0 /\ TilesGone = 0
  <2>1. Len(cpu_queue) = 0
    BY <1>1
  <2>2. Gone = Planned - (Planned + 0)
    BY <1>2, <2>1 DEF Gone
  <2>3. Gone = 0
    BY <1>3, <2>2
  <2> QED BY <1>3, <2>3 DEF TilesGone
<1>5. CpuSide
  <2>1. \A i \in 1 .. Planned : Gone + Len(cpu_queue) + i = i
    BY <1>1, <1>3, <1>4
  <2>2. Len(cpu_queue) = 0 /\ cpu_queue \in Seq(PacketsOf(shape))
    BY <1>1
  <2> QED BY <1>1, <1>2, <1>3, <1>4, <2>1, <2>2 DEF CpuSide
<1>6. StoreSide
  BY <1>1 DEF StoreSide
<1>7. TileSide
  BY <1>1, <1>4 DEF TileSide, TileInNoc
<1>8. GateHolds
  BY <1>1, <1>3, <1>4 DEF GateHolds
<1> QED BY <1>1, <1>5, <1>6, <1>7, <1>8 DEF Im2colInv, NocSide

LEMMA Im2colStep ==
  ASSUME Im2colShape, Im2colInv, Im2col!Next
  PROVE  Im2colInv'
  BY SendCpuInv, RecvConfigInv, RecvLaunchInv, ReadImageInv, SendStoreInv, ReleaseGateInv,
     GrantCpuInv, GrantIm2colInv, ToMemoryInv, ToTilesInv, WriteMemoryInv
  DEF Im2col!Next

LEMMA Im2colStutter ==
  ASSUME Im2colInv, UNCHANGED Im2col!vars
  PROVE  Im2colInv'
<1>1. /\ UNCHANGED <<shape, packets, engine_active, cpu_queue, config_regs, engine>>
      /\ UNCHANGED <<im2col_queue, bypass_queue, store_queue, stored, at_tiles>>
  BY DEF Im2col!vars, Im2col!cpu_side, Im2col!engine_side
<1>2. CpuSide' /\ Gone' = Gone /\ TilesGone' = TilesGone /\ Launch' = Launch /\ TileInNoc' = TileInNoc
  BY <1>1, CpuSideKept DEF Im2colInv, TileInNoc
<1>3. StoreSide' /\ NocSide' /\ TileSide'
  BY <1>1, <1>2 DEF Im2colInv, StoreSide, NocSide, TileSide, TilePacket
<1>4. GateHolds'
  BY <1>1, <1>2 DEF Im2colInv, GateHolds
<1> QED BY <1>2, <1>3, <1>4 DEF Im2colInv

(* The packets the CPU sent reach the engine and the tiles in the order    *)
(* sent, each once, whatever the stores do in the network between them;    *)
(* from the launch on the gate is closed until the engine is done.         *)
THEOREM Im2colInvariance ==
  ASSUME Im2colShape
  PROVE  Im2col!Spec => []Im2colInv
<1>1. Im2col!Init => Im2colInv
  BY Im2colInitInv
<1>2. Im2colInv /\ [Im2col!Next]_(Im2col!vars) => Im2colInv'
  BY Im2colStep, Im2colStutter
<1> QED BY <1>1, <1>2, PTL DEF Im2col!Spec

(* For every geometry, program and interleaving with the stores, at most   *)
(* one packet sent behind the launch gets to the tiles before the engine   *)
(* is done: the gate, late by the one packet next to the launch, holds.    *)
THEOREM GateHoldsBack ==
  ASSUME Im2colShape
  PROVE  Im2col!Spec => []OneSlipsThrough
<1>1. Im2colInv => OneSlipsThrough
  <2> SUFFICES ASSUME Im2colInv, engine.state # "DONE" PROVE Im2col!Behind <= 1
    BY DEF OneSlipsThrough, Im2col!OneSlipsThrough
  <2> DEFINE L == {i \in DOMAIN at_tiles : at_tiles[i].late}
  <2>1. /\ Gone \in Nat /\ Early \in Nat /\ Launch = Early + 7 /\ Len(cpu_queue) \in Nat
    BY Counters DEF Im2colInv
  <2>2. TilesGone <= Early + 1
    <3>1. Gone <= Launch + 1
      BY <2>1 DEF Im2colInv, GateHolds, StoreSide
    <3> QED BY <2>1, <3>1 DEF TilesGone
  <2>3. Len(at_tiles) \in Nat /\ Len(at_tiles) <= Early + 1 /\ DOMAIN at_tiles = 1 .. Len(at_tiles)
    <3>1. at_tiles \in Seq({TilePacket(i) : i \in Nat})
      BY DEF Im2colInv, TileSide
    <3>2. Len(at_tiles) = TilesGone - (IF TileInNoc THEN 1 ELSE 0)
      BY DEF Im2colInv, TileSide
    <3>3. Len(at_tiles) \in Nat /\ DOMAIN at_tiles = 1 .. Len(at_tiles)
      BY <3>1, LenProperties
    <3>4. TilesGone \in Nat
      BY Counters DEF Im2colInv
    <3> QED BY <2>1, <2>2, <3>2, <3>3, <3>4
  <2>4. L \subseteq {Early + 1}
    <3> SUFFICES ASSUME NEW i \in L PROVE i = Early + 1
      OBVIOUS
    <3>1. at_tiles[i] = TilePacket(i) /\ at_tiles[i].late
      BY <2>3 DEF Im2colInv, TileSide
    <3>2. TilePacket(i).late = (i > Early)
      BY DEF TilePacket
    <3>3. i > Early /\ i \in 1 .. Len(at_tiles)
      BY <2>3, <3>1, <3>2
    <3> QED BY <2>1, <2>3, <3>3
  <2> HIDE DEF L
  <2>5. IsFiniteSet({Early + 1}) /\ Cardinality({Early + 1}) = 1
    BY FS_Singleton
  <2>6. Cardinality(L) <= 1
    BY <2>4, <2>5, FS_Subset
  <2>7. Im2col!Behind = Cardinality(L)
    BY DEF Im2col!Behind, Im2col!Cardinality, Cardinality, L
  <2> QED BY <2>6, <2>7
<1> QED BY <1>1, Im2colInvariance, PTL
-----------------------------------------------------------------------------
(* The matrix the engine stores, for shapes that fit in the memories.      *)
Stride == 2^shape.log2_stride
Hout == Im2col!OutputsOf("H", "kH")
Wout == Im2col!OutputsOf("W", "kW")

LEMMA ProductGrows ==
  ASSUME NEW a \in Nat, NEW b \in Nat, NEW c \in Nat, a <= c
  PROVE  a * b <= c * b
<1>1. PICK k \in Nat : c = a + k
  BY c = a + (c - a)
<1>2. c * b = a * b + k * b
  BY <1>1
<1>3. k * b \in Nat
  OBVIOUS
<1> QED BY <1>2, <1>3

(* Place j of row i when a row has n places.                               *)
Place(i, n, j) == i * n + j

LEMMA PlaceInRows ==
  ASSUME NEW m \in Nat, NEW n \in Nat \ {0}, NEW i \in Nat, NEW j \in Nat, i < m, j < n
  PROVE  /\ Place(i, n, j) \in Nat /\ Place(i, n, j) < m * n
         /\ Place(i, n, j) \div n = i /\ Place(i, n, j) % n = j
<1>1. (i + 1) * n <= m * n
  BY ProductGrows
<1>2. (i + 1) * n = i * n + n /\ i * n \in Nat
  OBVIOUS
<1>3. i * n + j < m * n /\ i * n + j \in Nat
  <2>1. m * n \in Nat
    OBVIOUS
  <2> QED BY <1>1, <1>2, <2>1
<1>4. j \in 0 .. (n - 1) /\ i \in Int
  OBVIOUS
<1>5. (i * n + j) % n = j /\ (i * n + j) \div n = i
  BY <1>4, RemainderUnique
<1> QED BY <1>3, <1>5 DEF Place

LEMMA ShapeFacts ==
  ASSUME Im2colShape, Im2col!ShapesFit, shape \in Shapes
  PROVE  /\ shape["H"] \in Nat \ {0} /\ shape["W"] \in Nat \ {0}
         /\ shape["kH"] \in Nat \ {0} /\ shape["kW"] \in Nat \ {0}
         /\ shape["H"] < ScratchMod /\ shape["W"] < ScratchMod
         /\ shape["kH"] < ScratchMod /\ shape["kW"] < ScratchMod
         /\ shape["kH"] <= shape["H"] /\ shape["kW"] <= shape["W"]
         /\ shape["H"] * shape["W"] <= ScratchMod
         /\ shape["log2_stride"] \in Nat /\ shape["log2_stride"] < ScratchMod
         /\ shape["dst_sram_base"] \in Nat
         /\ shape["dst_sram_base"] + Im2col!Total <= DataAddrMod
<1>1. shape \in [Im2col!Geometry -> Nat]
  BY DEF Im2colShape
<1>2. /\ shape["H"] \in Nat /\ shape["W"] \in Nat /\ shape["kH"] \in Nat /\ shape["kW"] \in Nat
      /\ shape["log2_stride"] \in Nat /\ shape["dst_sram_base"] \in Nat
  BY <1>1 DEF Im2col!Geometry
<1>3. Im2col!Total = shape["kH"] * shape["kW"] * (Hout * Wout)
  BY DEF Im2col!Total, Im2col!Columns, Hout, Wout
<1>4. /\ Hout = (shape["H"] - shape["kH"]) \div 2^shape["log2_stride"] + 1
      /\ Wout = (shape["W"] - shape["kW"]) \div 2^shape["log2_stride"] + 1
  BY DEF Hout, Wout, Im2col!OutputsOf
<1>5. /\ \A g \in {"H", "W", "kH", "kW"} : 0 < shape[g] /\ shape[g] < ScratchMod
      /\ shape["kH"] <= shape["H"] /\ shape["kW"] <= shape["W"]
      /\ shape["H"] * shape["W"] <= ScratchMod /\ shape["log2_stride"] < ScratchMod
      /\ shape["dst_sram_base"] + Im2col!Total <= DataAddrMod
  BY <1>3, <1>4 DEF Im2col!ShapesFit
<1> QED BY <1>2, <1>5

(* The number of positions of a kernel in one direction.                   *)
LEMMA OutputsFit ==
  ASSUME NEW size \in Nat, NEW kernel \in Nat \ {0}, kernel <= size, NEW d \in Nat \ {0}
  PROVE  LET n == (size - kernel) \div d + 1
         IN /\ n \in Nat \ {0} /\ n <= size
            /\ \A o, k \in Nat : o < n /\ k < kernel => o * d + k < size
<1> DEFINE a == size - kernel
           q == a \div d
<1>1. a \in Nat
  OBVIOUS
<1> HIDE DEF a
<1>2. q \in Nat /\ q <= a /\ q * d <= a
  BY <1>1
<1> HIDE DEF q
<1>3. ASSUME NEW o \in Nat, NEW k \in Nat, o < q + 1, k < kernel
      PROVE  o * d + k < size
  <2>1. o * d <= q * d
    BY <1>2, <1>3, ProductGrows
  <2>2. o * d \in Nat /\ q * d \in Nat
    BY <1>2
  <2> QED BY <1>2, <1>3, <2>1, <2>2 DEF a
<1>4. q + 1 \in Nat \ {0} /\ q + 1 <= size
  BY <1>2 DEF a
<1> QED BY <1>3, <1>4 DEF q, a

LEMMA MatrixFacts ==
  ASSUME Im2colShape, Im2col!ShapesFit, shape \in Shapes
  PROVE  /\ Stride \in Nat \ {0}
         /\ Hout \in Nat \ {0} /\ Hout <= shape["H"]
         /\ Wout \in Nat \ {0} /\ Wout <= shape["W"]
         /\ \A o, k \in Nat : o < Hout /\ k < shape["kH"] => o * Stride + k < shape["H"]
         /\ \A o, k \in Nat : o < Wout /\ k < shape["kW"] => o * Stride + k < shape["W"]
         /\ Im2col!Columns = Hout * Wout /\ Im2col!Columns \in Nat \ {0}
         /\ Im2col!Total = shape["kH"] * shape["kW"] * Im2col!Columns /\ Im2col!Total \in Nat \ {0}
<1> DEFINE H == shape["H"]
           W == shape["W"]
           kH == shape["kH"]
           kW == shape["kW"]
<1>1. /\ H \in Nat \ {0} /\ W \in Nat \ {0} /\ kH \in Nat \ {0} /\ kW \in Nat \ {0}
      /\ kH <= H /\ kW <= W
  BY ShapeFacts
<1>2. Stride \in Nat \ {0}
  <2>1. shape["log2_stride"] \in Nat
    BY ShapeFacts
  <2>2. 2^shape["log2_stride"] > 0 /\ 2^shape["log2_stride"] \in Int
    BY <2>1 DEF Im2colShape
  <2> QED BY <2>2 DEF Stride
<1>3. /\ Hout = (H - kH) \div Stride + 1 /\ Wout = (W - kW) \div Stride + 1
      /\ Im2col!Columns = Hout * Wout /\ Im2col!Total = kH * kW * Im2col!Columns
  BY DEF Hout, Wout, Stride, Im2col!OutputsOf, Im2col!Columns, Im2col!Total
<1> HIDE DEF H, W, kH, kW
<1>4. /\ Hout \in Nat \ {0} /\ Hout <= H
      /\ \A o, k \in Nat : o < Hout /\ k < kH => o * Stride + k < H
  BY <1>1, <1>2, <1>3, OutputsFit
<1>5. /\ Wout \in Nat \ {0} /\ Wout <= W
      /\ \A o, k \in Nat : o < Wout /\ k < kW => o * Stride + k < W
  BY <1>1, <1>2, <1>3, OutputsFit
<1>6. \A a, b \in Nat \ {0} : a * b \in Nat \ {0}
  OBVIOUS
<1>7. Im2col!Columns \in Nat \ {0}
  BY <1>3, <1>4, <1>5, <1>6
<1>8. kH * kW \in Nat \ {0}
  BY <1>1, <1>6
<1>9. Im2col!Total \in Nat \ {0}
  BY <1>3, <1>6, <1>7, <1>8
<1> QED BY <1>2, <1>3, <1>4, <1>5, <1>7, <1>9 DEF H, W, kH, kW

(* The place of an element at a position of the four loops.                *)
PlaceOf(oy, ox, ky, kx) ==
  Place(Place(ky, shape["kW"], kx), Im2col!Columns, Place(oy, Wout, ox))

(* Entry n + 1 of the matrix stores the input word of that position.       *)
EntryAt(oy, ox, ky, kx, n) ==
  /\ n \in Nat /\ n < Im2col!Total
  /\ Im2col!Matrix[n + 1] =
       [cmd |-> "STORE_REQUEST",
        data |-> Im2col!in_mem((oy * Stride + ky) * shape["W"] + (ox * Stride + kx)),
        addr |-> shape["dst_sram_base"] + n]

LEMMA ElementAt ==
  ASSUME Im2colShape, Im2col!ShapesFit, shape \in Shapes,
         NEW oy \in Nat, NEW ox \in Nat, NEW ky \in Nat, NEW kx \in Nat,
         oy < Hout, ox < Wout, ky < shape["kH"], kx < shape["kW"]
  PROVE  EntryAt(oy, ox, ky, kx, PlaceOf(oy, ox, ky, kx))
<1> DEFINE n == PlaceOf(oy, ox, ky, kx)
            kW == shape["kW"]
           kH == shape["kH"]
           C == Im2col!Columns
           r == Place(ky, kW, kx)
           c == Place(oy, Wout, ox)
           T == Im2col!Total
<1>1. /\ kW \in Nat \ {0} /\ kH \in Nat \ {0} /\ Hout \in Nat \ {0} /\ Wout \in Nat \ {0}
      /\ C = Hout * Wout /\ C \in Nat \ {0} /\ T = kH * kW * C /\ T \in Nat
      /\ shape["dst_sram_base"] \in Nat
  BY ShapeFacts, MatrixFacts
<1>2. ky < kH /\ kx < kW /\ n = Place(r, C, c)
  BY DEF PlaceOf
<1> HIDE DEF kW, kH, C, T, n
<1>3. r \in Nat /\ r < kH * kW /\ r \div kW = ky /\ r % kW = kx
  BY <1>1, <1>2, PlaceInRows
<1>4. c \in Nat /\ c < C /\ c \div Wout = oy /\ c % Wout = ox
  BY <1>1, PlaceInRows
<1> HIDE DEF r, c
<1>5. n \in Nat /\ n < T /\ n \div C = r /\ n % C = c
  <2>1. kH * kW \in Nat
    BY <1>1
  <2> QED BY <1>1, <1>2, <1>3, <1>4, <2>1, PlaceInRows
<1>6. n + 1 \in 1 .. T /\ (n + 1) - 1 = n
  BY <1>1, <1>5
<1>7. Im2col!Matrix[n + 1] =
        [cmd |-> "STORE_REQUEST", data |-> Im2col!Element(((n + 1) - 1) \div C, ((n + 1) - 1) % C),
         addr |-> shape["dst_sram_base"] + (n + 1) - 1]
  BY <1>6 DEF Im2col!Matrix, C, T
<1>8. Im2col!Element(r, c) = Im2col!in_mem((oy * Stride + ky) * shape["W"] + (ox * Stride + kx))
  BY <1>3, <1>4 DEF Im2col!Element, Wout, Stride, kW
<1>9. shape["dst_sram_base"] + (n + 1) - 1 = shape["dst_sram_base"] + n
  BY <1>1, <1>5
<1> QED BY <1>5, <1>6, <1>7, <1>8, <1>9 DEF T, n, EntryAt

(* The element the engine is at between two stores.                        *)
LEMMA NextElement ==
  ASSUME Im2colShape, Im2col!ShapesFit, shape \in Shapes, NEW e, NEW n,
         e \in [state : {"IDLE", "READ", "EMIT", "DONE"}, ox : Nat, oy : Nat, kx : Nat,
                ky : Nat, Hout : Nat, Wout : Nat, emit_idx : Nat, data_reg : Nat],
         e.oy < Hout, e.ox < Wout, e.ky < shape["kH"], e.kx < shape["kW"],
         n = PlaceOf(e.oy, e.ox, e.ky, e.kx)
  PROVE  /\ n \in Nat /\ n < Im2col!Total
         /\ Im2col!Matrix[n + 1] =
              [cmd |-> "STORE_REQUEST",
               data |-> Im2col!in_mem((e.oy * Stride + e.ky) * shape["W"] + (e.ox * Stride + e.kx)),
               addr |-> shape["dst_sram_base"] + n]
<1> DEFINE oy == e.oy
           ox == e.ox
           ky == e.ky
           kx == e.kx
<1>1. /\ oy \in Nat /\ ox \in Nat /\ ky \in Nat /\ kx \in Nat
      /\ oy < Hout /\ ox < Wout /\ ky < shape["kH"] /\ kx < shape["kW"]
      /\ n = PlaceOf(oy, ox, ky, kx)
  OBVIOUS
<1> HIDE DEF oy, ox, ky, kx
<1>2. EntryAt(oy, ox, ky, kx, n)
  BY <1>1, ElementAt
<1> QED BY <1>2 DEF oy, ox, ky, kx, EntryAt
-----------------------------------------------------------------------------
(* The registers the CPU has written so far.                               *)
EngineConfigured ==
  \A i \in 1 .. 6 : Early + i <= Gone => config_regs[Im2col!Order[i]] = shape[Im2col!Order[i]]

(* Between two stores the loop counters stand at the next element.         *)
AtPosition ==
  /\ engine.Hout = Hout /\ engine.Wout = Wout
  /\ engine.oy < Hout /\ engine.ox < Wout /\ engine.ky < shape["kH"] /\ engine.kx < shape["kW"]
  /\ engine.emit_idx = Len(Im2col!Emitted)
  /\ engine.emit_idx = PlaceOf(engine.oy, engine.ox, engine.ky, engine.kx)

Pixel == (engine.oy * Stride + engine.ky) * shape["W"] + (engine.ox * Stride + engine.kx)

EngineSide ==
  /\ engine.state = "IDLE" => Len(Im2col!Emitted) = 0
  /\ engine.state \in {"READ", "EMIT"} => AtPosition
  /\ engine.state = "EMIT" => engine.data_reg = Im2col!in_mem(Pixel)
  /\ engine.state = "DONE" => Len(Im2col!Emitted) = Im2col!Total

RightSoFar ==
  \A i \in 1 .. Len(Im2col!Emitted) : Im2col!Emitted[i] = Im2col!Matrix[i]

ColumnsInv ==
  /\ Im2colInv /\ EngineConfigured /\ EngineSide /\ RightSoFar
  /\ Im2col!Emitted \in Seq(StoreMsg)

(* Behind the launch all registers hold the shape.                         *)
LEMMA AllConfigured ==
  ASSUME Im2colShape, Im2col!ShapesFit, Im2colInv, EngineConfigured, Gone + 1 >= Launch
  PROVE  /\ shape \in Shapes
         /\ config_regs["H"] = shape["H"] /\ config_regs["W"] = shape["W"]
         /\ config_regs["kH"] = shape["kH"] /\ config_regs["kW"] = shape["kW"]
         /\ config_regs["log2_stride"] = shape["log2_stride"]
         /\ config_regs["dst_sram_base"] = shape["dst_sram_base"]
<1>1. Gone \in Nat /\ Early \in Nat /\ Launch = Early + 7 /\ shape \in Shapes
  BY Counters DEF Im2colInv, CpuSide
<1>2. \A i \in 1 .. 6 : Early + i <= Gone
  BY <1>1
<1>3. \A i \in 1 .. 6 : config_regs[Im2col!Order[i]] = shape[Im2col!Order[i]]
  BY <1>2 DEF EngineConfigured
<1>4. \A g \in Im2col!Geometry : config_regs[g] = shape[g]
  BY <1>3, OrderOfGeometry
<1> QED BY <1>1, <1>4 DEF Im2col!Geometry

LEMMA RunningIsLaunched ==
  ASSUME Im2colShape, Im2colInv, engine.state # "IDLE"
  PROVE  Gone >= Launch /\ Gone + 1 >= Launch
<1>1. Gone \in Nat /\ Early \in Nat /\ Launch = Early + 7
  BY Counters DEF Im2colInv
<1> QED BY <1>1 DEF Im2colInv, GateHolds

(* Moving the stores on does not change what was emitted.                  *)
LEMMA MoveOn ==
  ASSUME NEW T, NEW a \in Seq(T), NEW b \in Seq(T), b # <<>>
  PROVE  (a \o <<Head(b)>>) \o Tail(b) = a \o b
<1>1. Head(b) \in T /\ Tail(b) \in Seq(T) /\ <<Head(b)>> \in Seq(T)
  BY HeadTailProperties
<1>2. b = <<Head(b)>> \o Tail(b)
  <2>1. Len(b) \in Nat /\ 1 \in 1 .. Len(b) /\ Len(b) \in 1 .. Len(b)
    BY EmptySeq
  <2>2. SubSeq(b, 1, Len(b)) = <<b[1]>> \o SubSeq(b, 1 + 1, Len(b))
    BY <2>1, SubSeqRecursiveFirst
  <2>3. SubSeq(b, 1, Len(b)) = b /\ Tail(b) = SubSeq(b, 2, Len(b)) /\ Head(b) = b[1]
    BY SubSeqFull, TailIsSubSeq
  <2> QED BY <2>2, <2>3
<1>3. (a \o <<Head(b)>>) \o Tail(b) = a \o (<<Head(b)>> \o Tail(b))
  BY <1>1, ConcatAssociative
<1> QED BY <1>2, <1>3

LEMMA StoresType ==
  ASSUME NocSide
  PROVE  /\ Im2col!Stores \in Seq(StoreMsg)
         /\ bypass_queue = <<>> \/ TileInNoc => Im2col!Stores = <<>>
         /\ bypass_queue # <<>> /\ ~TileInNoc => Im2col!Stores = bypass_queue
<1>1. CASE bypass_queue = <<>> \/ TileInNoc
  <2>1. Im2col!Stores = <<>>
    BY <1>1 DEF Im2col!Stores, TileInNoc
  <2> QED BY <1>1, <2>1, NocContents
<1>2. CASE bypass_queue # <<>> /\ ~TileInNoc
  <2>1. /\ bypass_queue = <<bypass_queue[1]>> /\ bypass_queue[1] \in StoreMsg
        /\ bypass_queue[1].cmd = "STORE_REQUEST"
    BY <1>2, NocContents
  <2>2. Im2col!Stores = bypass_queue
    BY <1>2, <2>1 DEF Im2col!Stores
  <2>3. bypass_queue \in Seq(StoreMsg)
    <3> DEFINE b == bypass_queue[1]
    <3>1. b \in StoreMsg /\ bypass_queue = <<b>>
      BY <2>1
    <3> HIDE DEF b
    <3> QED BY <3>1
  <2> QED BY <1>2, <2>2, <2>3
<1> QED BY <1>1, <1>2

LEMMA GrantKeepsEmitted ==
  ASSUME Im2colShape, Im2colInv, Im2col!GrantIm2col
  PROVE  Im2col!Emitted' = Im2col!Emitted
<1>0. /\ bypass_queue = <<>> /\ im2col_queue # <<>> /\ stored' = stored
      /\ store_queue' = store_queue
      /\ bypass_queue' = <<Head(im2col_queue)>> /\ im2col_queue' = Tail(im2col_queue)
  BY DEF Im2col!GrantIm2col
<1>1. im2col_queue \in Seq(StoreMsg) /\ store_queue \in Seq(StoreMsg) /\ stored \in Seq(StoreMsg)
  BY DEF Im2colInv, StoreSide
<1> DEFINE a == stored \o store_queue
<1>2. a \in Seq(StoreMsg)
  BY <1>1, ConcatProperties
<1>3. Im2col!Stores = <<>> /\ Im2col!Stores' = <<Head(im2col_queue)>>
  <2>1. Head(im2col_queue) \in StoreMsg
    BY <1>0, <1>1, HeadTailProperties
  <2>2. bypass_queue'[1].cmd = "STORE_REQUEST" /\ bypass_queue' # <<>>
    BY <1>0, <2>1, StoreInNoc
  <2> QED BY <1>0, <2>2 DEF Im2col!Stores
<1>4. Im2col!Emitted = (a \o <<>>) \o im2col_queue
  BY <1>3 DEF Im2col!Emitted
<1>5. Im2col!Emitted' = (a \o <<Head(im2col_queue)>>) \o Tail(im2col_queue)
  BY <1>0, <1>3 DEF Im2col!Emitted
<1>6. a \o <<>> = a
  BY <1>2, ConcatEmptySeq
<1> HIDE DEF a
<1>7. (a \o <<Head(im2col_queue)>>) \o Tail(im2col_queue) = a \o im2col_queue
  BY <1>0, <1>1, <1>2, MoveOn
<1> QED BY <1>4, <1>5, <1>6, <1>7

LEMMA ToMemoryKeepsEmitted ==
  ASSUME Im2colShape, Im2colInv, Im2col!ToMemory
  PROVE  Im2col!Emitted' = Im2col!Emitted
<1> DEFINE b == bypass_queue[1]
<1>0. /\ bypass_queue # <<>> /\ b.cmd = "STORE_REQUEST" /\ bypass_queue' = <<>>
      /\ store_queue' = Append(store_queue, b) /\ stored' = stored /\ im2col_queue' = im2col_queue
  BY DEF Im2col!ToMemory
<1>1. im2col_queue \in Seq(StoreMsg) /\ store_queue \in Seq(StoreMsg) /\ stored \in Seq(StoreMsg)
  BY DEF Im2colInv, StoreSide
<1>2. ~TileInNoc
  BY <1>0 DEF TileInNoc
<1>3. b \in StoreMsg /\ bypass_queue = <<b>>
  BY <1>0, <1>2, NocContents DEF Im2colInv
<1>4. Im2col!Stores = <<b>> /\ Im2col!Stores' = <<>>
  BY <1>0, <1>3 DEF Im2col!Stores
<1> HIDE DEF b
<1>5. store_queue' = store_queue \o <<b>> /\ <<b>> \in Seq(StoreMsg)
  BY <1>0, <1>1, <1>3, AppendIsConcat
<1>6. store_queue' \in Seq(StoreMsg)
  BY <1>1, <1>5, ConcatProperties
<1>7. (stored \o store_queue) \o <<b>> = stored \o store_queue'
  BY <1>1, <1>5, ConcatAssociative
<1>8. (stored \o store_queue') \o <<>> = stored \o store_queue'
  <2>1. stored \o store_queue' \in Seq(StoreMsg)
    BY <1>1, <1>6, ConcatProperties
  <2> QED BY <2>1, ConcatEmptySeq
<1>9. Im2col!Emitted = ((stored \o store_queue) \o <<b>>) \o im2col_queue
  BY <1>4 DEF Im2col!Emitted
<1>10. Im2col!Emitted' = ((stored \o store_queue') \o <<>>) \o im2col_queue
  BY <1>0, <1>4 DEF Im2col!Emitted
<1> QED BY <1>7, <1>8, <1>9, <1>10

LEMMA WriteKeepsEmitted ==
  ASSUME Im2colShape, Im2colInv, Im2col!WriteMemory
  PROVE  Im2col!Emitted' = Im2col!Emitted
<1>0. /\ store_queue # <<>> /\ store_queue' = Tail(store_queue)
      /\ stored' = Append(stored, Head(store_queue))
      /\ im2col_queue' = im2col_queue /\ bypass_queue' = bypass_queue
  BY DEF Im2col!WriteMemory
<1>1. store_queue \in Seq(StoreMsg) /\ stored \in Seq(StoreMsg) /\ Head(store_queue) \in StoreMsg
  BY <1>0, HeadTailProperties DEF Im2colInv, StoreSide
<1>2. stored' = stored \o <<Head(store_queue)>>
  BY <1>0, <1>1, AppendIsConcat
<1>3. stored' \o store_queue' = stored \o store_queue
  <2>1. (stored \o <<Head(store_queue)>>) \o Tail(store_queue) = stored \o store_queue
    BY <1>0, <1>1, MoveOn
  <2> QED BY <1>0, <1>2, <2>1
<1>4. Im2col!Stores' = Im2col!Stores
  BY <1>0 DEF Im2col!Stores
<1> QED BY <1>0, <1>3, <1>4 DEF Im2col!Emitted

LEMMA SendAppends ==
  ASSUME Im2colShape, Im2colInv, Im2col!SendStore
  PROVE  Im2col!Emitted' = Append(Im2col!Emitted, Im2col!Store)
<1>0. /\ im2col_queue' = Append(im2col_queue, Im2col!Store) /\ stored' = stored
      /\ store_queue' = store_queue /\ bypass_queue' = bypass_queue
  BY DEF Im2col!SendStore
<1>1. /\ im2col_queue \in Seq(StoreMsg) /\ store_queue \in Seq(StoreMsg)
      /\ stored \in Seq(StoreMsg) /\ Im2col!Store \in StoreMsg /\ Im2col!Stores \in Seq(StoreMsg)
  BY StoreType, StoresType DEF Im2colInv, StoreSide
<1> DEFINE a == (stored \o store_queue) \o Im2col!Stores
           m == Im2col!Store
<1>2. a \in Seq(StoreMsg)
  <2>1. stored \o store_queue \in Seq(StoreMsg)
    BY <1>1, ConcatProperties
  <2> QED BY <1>1, <2>1, ConcatProperties
<1>3. Im2col!Emitted = a \o im2col_queue
  BY DEF Im2col!Emitted
<1>4. Im2col!Emitted' = a \o im2col_queue'
  BY <1>0 DEF Im2col!Emitted, Im2col!Stores
<1> HIDE DEF a, m
<1>5. m \in StoreMsg /\ im2col_queue' = Append(im2col_queue, m) /\ <<m>> \in Seq(StoreMsg)
  BY <1>0, <1>1 DEF m
<1>6. im2col_queue' = im2col_queue \o <<m>>
  BY <1>1, <1>5, AppendIsConcat
<1>7. a \o im2col_queue' = (a \o im2col_queue) \o <<m>>
  BY <1>1, <1>2, <1>5, <1>6, ConcatAssociative
<1>8. a \o im2col_queue \in Seq(StoreMsg)
  BY <1>1, <1>2, ConcatProperties
<1>9. Append(a \o im2col_queue, m) = (a \o im2col_queue) \o <<m>>
  BY <1>5, <1>8, AppendIsConcat
<1> QED BY <1>3, <1>4, <1>7, <1>9 DEF m
-----------------------------------------------------------------------------
LEMMA MatrixKept ==
  ASSUME shape' = shape
  PROVE  /\ Im2col!Matrix' = Im2col!Matrix /\ Im2col!Total' = Im2col!Total
         /\ Im2col!Columns' = Im2col!Columns
         /\ Hout' = Hout /\ Wout' = Wout /\ Stride' = Stride
<1>1. /\ Im2col!OutputsOf("H", "kH")' = Im2col!OutputsOf("H", "kH")
      /\ Im2col!OutputsOf("W", "kW")' = Im2col!OutputsOf("W", "kW")
  BY DEF Im2col!OutputsOf
<1>2. Im2col!Columns' = Im2col!Columns /\ Im2col!Total' = Im2col!Total
  BY <1>1 DEF Im2col!Columns, Im2col!Total
<1>3. \A i \in 1 .. Im2col!Total :
        Im2col!Element((i - 1) \div Im2col!Columns, (i - 1) % Im2col!Columns)'
          = Im2col!Element((i - 1) \div Im2col!Columns, (i - 1) % Im2col!Columns)
  BY <1>1, <1>2 DEF Im2col!Element, Im2col!in_mem
<1>4. Im2col!Matrix' = Im2col!Matrix
  BY <1>2, <1>3 DEF Im2col!Matrix
<1> QED BY <1>1, <1>2, <1>4 DEF Hout, Wout, Stride

LEMMA ConfiguredKept ==
  ASSUME Im2colShape, Im2colInv, EngineConfigured, config_regs' = config_regs, shape' = shape,
         Gone' = Gone \/ (Gone' = Gone + 1 /\ (Gone + 1 <= Early \/ Gone + 1 >= Launch))
  PROVE  EngineConfigured'
<1>1. Gone \in Nat /\ Early \in Nat /\ Launch = Early + 7
  BY Counters DEF Im2colInv
<1>2. \A i \in 1 .. 6 : Early + i <= Gone' => Early + i <= Gone
  BY <1>1
<1> QED BY <1>2 DEF EngineConfigured

(* Steps that leave the engine and what it emitted as they are.            *)
LEMMA EngineKept ==
  ASSUME ColumnsInv, Im2colInv', EngineConfigured', shape' = shape, engine' = engine,
         Im2col!Emitted' = Im2col!Emitted
  PROVE  ColumnsInv'
<1>1. AtPosition' = AtPosition /\ Pixel' = Pixel
  BY MatrixKept DEF AtPosition, PlaceOf, Pixel
<1>2. EngineSide'
  BY <1>1, MatrixKept DEF ColumnsInv, EngineSide, Im2col!in_mem
<1>3. RightSoFar' /\ Im2col!Emitted' \in Seq(StoreMsg)
  BY MatrixKept DEF ColumnsInv, RightSoFar
<1>4. StoreMsg' = StoreMsg
  BY DEF StoreMsg
<1> QED BY <1>2, <1>3, <1>4 DEF ColumnsInv

LEMMA RecvConfigColumns ==
  ASSUME Im2colShape, Im2col!ShapesFit, ColumnsInv, Im2col!RecvConfig
  PROVE  ColumnsInv'
<1> DEFINE g == Head(cpu_queue).cmd
           m == IF g = "dst_sram_base" THEN DataAddrMod ELSE ScratchMod
           n == Head(cpu_queue).n
<1>0. /\ Im2colInv /\ CpuSide /\ cpu_queue # <<>> /\ g \in Im2col!Geometry
      /\ cpu_queue' = Tail(cpu_queue) /\ UNCHANGED <<shape, packets, engine>>
      /\ UNCHANGED <<im2col_queue, bypass_queue, store_queue, stored>>
      /\ config_regs' = [config_regs EXCEPT ![g] = n % m]
  BY DEF ColumnsInv, Im2colInv, Im2col!RecvConfig
<1>1. Gone' = Gone + 1
  BY <1>0, TakeHead
<1>2. Gone \in Nat /\ Early \in Nat /\ Launch = Early + 7
  BY <1>0, Counters
<1>3. Early < Gone + 1 /\ Gone + 1 < Launch
  BY <1>0, <1>2, HeadOfQueue, KindOfPacket
<1>4. PICK k \in 1 .. 6 : k = (Gone + 1) - Early
  BY <1>2, <1>3
<1>5. g = Im2col!Order[k] /\ n = shape[Im2col!Order[k]]
  BY <1>0, <1>3, <1>4, HeadOfQueue, KindOfPacket
<1>6. n % m = shape[g]
  <2>1. shape \in Shapes /\ g \in {"H", "W", "kH", "kW", "log2_stride", "dst_sram_base"}
    BY <1>0 DEF CpuSide, Im2col!Geometry
  <2>2. shape["dst_sram_base"] < DataAddrMod
    BY <2>1, ShapeFacts, MatrixFacts DEF Im2colShape
  <2>3. n = shape[g] /\ n \in Nat /\ n < m /\ m \in Nat
    BY <1>5, <2>1, <2>2, ShapeFacts DEF Im2colShape
  <2> HIDE DEF m, n, g
  <2> QED BY <2>3
<1>7. EngineConfigured'
  <2> SUFFICES ASSUME NEW i \in 1 .. 6, Early + i <= Gone'
               PROVE  config_regs'[Im2col!Order[i]] = shape'[Im2col!Order[i]]
    BY DEF EngineConfigured
  <2>1. i = k \/ (i # k /\ Early + i <= Gone)
    BY <1>1, <1>2, <1>4
  <2>2. config_regs \in [Im2col!Geometry -> Nat]
    BY <1>0 DEF Im2colInv, StoreSide
  <2>3. Im2col!Order[i] \in Im2col!Geometry /\ (i # k => Im2col!Order[i] # g)
    BY <1>5, OrderOfGeometry
  <2> HIDE DEF m, n, g
  <2>4. CASE i = k
    BY <1>0, <1>5, <1>6, <2>2, <2>4
  <2>5. CASE i # k /\ Early + i <= Gone
    <3>1. config_regs[Im2col!Order[i]] = shape[Im2col!Order[i]]
      BY <2>5 DEF ColumnsInv, EngineConfigured
    <3> QED BY <1>0, <2>2, <2>3, <2>5, <3>1
  <2> QED BY <2>1, <2>4, <2>5
<1>8. Im2col!Emitted' = Im2col!Emitted
  BY <1>0 DEF Im2col!Emitted, Im2col!Stores
<1>9. Im2colInv'
  BY <1>0, RecvConfigInv
<1> QED BY <1>0, <1>7, <1>8, <1>9, EngineKept

LEMMA PositionsAreOutputs ==
  ASSUME Im2colShape, Im2col!ShapesFit, Im2colInv, EngineConfigured, Gone + 1 >= Launch
  PROVE  Im2col!Positions("H", "kH") = Hout /\ Im2col!Positions("W", "kW") = Wout
<1>1. ASSUME NEW size \in Nat \ {0}, NEW kernel \in Nat \ {0}, NEW d \in Nat \ {0},
             kernel <= size, size < ScratchMod
      PROVE  (((size - kernel) % ScratchMod) \div d + 1) % ScratchMod = (size - kernel) \div d + 1
  <2> DEFINE a == size - kernel
             q == a \div d
  <2>0. ScratchMod \in Nat
    BY DEF Im2colShape
  <2>1. a \in Nat /\ a + 1 < ScratchMod
    BY <1>1, <2>0
  <2> HIDE DEF a
  <2>2. a % ScratchMod = a
    BY <2>0, <2>1
  <2>3. q \in Nat /\ q <= a
    BY <2>1
  <2>4. q + 1 \in Nat /\ q + 1 < ScratchMod
    BY <2>0, <2>1, <2>3
  <2> HIDE DEF q
  <2>5. (q + 1) % ScratchMod = q + 1
    BY <2>0, <2>4
  <2> QED BY <2>2, <2>5 DEF q, a
<1>2. /\ shape \in Shapes
      /\ config_regs["H"] = shape["H"] /\ config_regs["W"] = shape["W"]
      /\ config_regs["kH"] = shape["kH"] /\ config_regs["kW"] = shape["kW"]
      /\ config_regs["log2_stride"] = shape["log2_stride"]
  BY AllConfigured
<1>3. /\ Im2col!Positions("H", "kH")
           = (((shape["H"] - shape["kH"]) % ScratchMod) \div Stride + 1) % ScratchMod
      /\ Im2col!Positions("W", "kW")
           = (((shape["W"] - shape["kW"]) % ScratchMod) \div Stride + 1) % ScratchMod
  BY <1>2 DEF Im2col!Positions, Stride
<1>4. Stride \in Nat \ {0}
  BY <1>2, MatrixFacts
<1>5. /\ Hout = (shape["H"] - shape["kH"]) \div Stride + 1
      /\ Wout = (shape["W"] - shape["kW"]) \div Stride + 1
  BY DEF Hout, Wout, Stride, Im2col!OutputsOf
<1>6. /\ shape["H"] \in Nat \ {0} /\ shape["kH"] \in Nat \ {0} /\ shape["kH"] <= shape["H"]
      /\ shape["W"] \in Nat \ {0} /\ shape["kW"] \in Nat \ {0} /\ shape["kW"] <= shape["W"]
      /\ shape["H"] < ScratchMod /\ shape["W"] < ScratchMod
  BY <1>2, ShapeFacts
<1>7. Im2col!Positions("H", "kH") = Hout
  BY <1>1, <1>3, <1>4, <1>5, <1>6
<1>8. Im2col!Positions("W", "kW") = Wout
  BY <1>1, <1>3, <1>4, <1>5, <1>6
<1> QED BY <1>7, <1>8

LEMMA RecvLaunchColumns ==
  ASSUME Im2colShape, Im2col!ShapesFit, ColumnsInv, Im2col!RecvLaunch
  PROVE  ColumnsInv'
<1>0. /\ Im2colInv /\ CpuSide /\ EngineConfigured /\ cpu_queue # <<>> /\ Head(cpu_queue).cmd = "LAUNCH"
      /\ cpu_queue' = Tail(cpu_queue) /\ engine.state = "IDLE"
      /\ UNCHANGED <<shape, packets, config_regs>>
      /\ UNCHANGED <<im2col_queue, bypass_queue, store_queue, stored>>
  BY DEF ColumnsInv, Im2colInv, Im2col!RecvLaunch
<1>1. Gone' = Gone + 1 /\ Gone \in Nat /\ Gone + 1 = Launch /\ Launch \in Nat
  <2>1. Gone \in Nat /\ Launch \in Nat
    BY <1>0, Counters
  <2> QED BY <1>0, <2>1, TakeHead, HeadOfQueue, KindOfPacket
<1>2. EngineConfigured'
  BY <1>0, <1>1, ConfiguredKept
<1>3. Im2col!Emitted' = Im2col!Emitted /\ Len(Im2col!Emitted) = 0
  BY <1>0 DEF Im2col!Emitted, Im2col!Stores, ColumnsInv, EngineSide
<1>4. /\ engine'.state = "READ" /\ engine'.ox = 0 /\ engine'.oy = 0 /\ engine'.kx = 0
      /\ engine'.ky = 0 /\ engine'.emit_idx = 0 /\ engine'.Hout = Hout /\ engine'.Wout = Wout
  <2>1. Im2col!Positions("H", "kH") = Hout /\ Im2col!Positions("W", "kW") = Wout
    BY <1>0, <1>1, PositionsAreOutputs
  <2> QED BY <1>0, <2>1 DEF Im2col!RecvLaunch, Im2colInv, StoreSide
<1>5. AtPosition'
  <2>1. /\ shape["kH"] > 0 /\ shape["kW"] > 0 /\ Hout > 0 /\ Wout > 0 /\ shape["kW"] \in Nat
        /\ Wout \in Nat /\ Im2col!Columns \in Nat
    <3>1. shape \in Shapes
      BY <1>0 DEF CpuSide
    <3>2. shape["kH"] \in Nat \ {0} /\ shape["kW"] \in Nat \ {0}
      BY <3>1, ShapeFacts
    <3>3. Hout \in Nat \ {0} /\ Wout \in Nat \ {0} /\ Im2col!Columns \in Nat \ {0}
      BY <3>1, MatrixFacts
    <3> QED BY <3>2, <3>3
  <2>2. \A n \in Nat : Place(0, n, 0) = 0
    BY DEF Place
  <2> QED BY <1>0, <1>3, <1>4, <2>1, <2>2, MatrixKept DEF AtPosition, PlaceOf
<1>6. EngineSide'
  BY <1>4, <1>5 DEF EngineSide
<1>7. RightSoFar'
  BY <1>3 DEF RightSoFar
<1>8. Im2colInv'
  BY <1>0, RecvLaunchInv
<1>9. Im2col!Emitted' \in Seq(StoreMsg)'
  BY <1>3 DEF ColumnsInv, StoreMsg
<1> QED BY <1>2, <1>6, <1>7, <1>8, <1>9 DEF ColumnsInv

LEMMA ReadImageColumns ==
  ASSUME Im2colShape, Im2col!ShapesFit, ColumnsInv, Im2col!ReadImage
  PROVE  ColumnsInv'
<1>0. /\ Im2colInv /\ EngineConfigured /\ engine.state = "READ" /\ AtPosition
      /\ UNCHANGED <<shape, packets, cpu_queue, config_regs>>
      /\ UNCHANGED <<im2col_queue, bypass_queue, store_queue, stored>>
      /\ engine' = [engine EXCEPT !.state = "EMIT", !.data_reg = Im2col!in_mem(Im2col!in_addr)]
  BY DEF ColumnsInv, EngineSide, Im2col!ReadImage, Im2col!cpu_side
<1>1. /\ shape \in Shapes /\ config_regs["W"] = shape["W"]
      /\ config_regs["log2_stride"] = shape["log2_stride"]
  BY <1>0, RunningIsLaunched, AllConfigured
<1>2. Im2col!in_addr = Pixel
  <2> DEFINE r == engine.oy * Stride + engine.ky
             c == engine.ox * Stride + engine.kx
             H == shape["H"]
             W == shape["W"]
  <2>1. Im2col!in_addr = (r * W + c) % ScratchMod
    BY <1>1 DEF Im2col!in_addr, Im2col!in_row, Im2col!in_col, Stride
  <2>2. /\ engine.oy \in Nat /\ engine.ky \in Nat /\ engine.ox \in Nat /\ engine.kx \in Nat
        /\ engine.oy < Hout /\ engine.ky < shape["kH"] /\ engine.ox < Wout /\ engine.kx < shape["kW"]
    BY <1>0 DEF AtPosition, Im2colInv, StoreSide
  <2>3. r < H /\ c < W
    BY <1>1, <2>2, MatrixFacts
  <2>4. r \in Nat /\ c \in Nat
    <3>1. Stride \in Nat
      BY <1>1, MatrixFacts
    <3> QED BY <2>2, <3>1
  <2>5. H \in Nat /\ W \in Nat \ {0} /\ H * W <= ScratchMod /\ ScratchMod \in Nat
    BY <1>1, ShapeFacts DEF Im2colShape
  <2>6. Pixel = Place(r, W, c)
    BY DEF Pixel, Place
  <2> HIDE DEF r, c, H, W
  <2>7. Place(r, W, c) \in Nat /\ Place(r, W, c) < H * W
    BY <2>3, <2>4, <2>5, PlaceInRows
  <2>8. H * W \in Nat
    BY <2>5
  <2>9. Place(r, W, c) % ScratchMod = Place(r, W, c)
    BY <2>5, <2>7, <2>8
  <2> QED BY <2>1, <2>6, <2>9 DEF Place
<1>3. /\ engine'.state = "EMIT" /\ engine'.data_reg = Im2col!in_mem(Pixel)
      /\ engine'.ox = engine.ox /\ engine'.oy = engine.oy /\ engine'.kx = engine.kx
      /\ engine'.ky = engine.ky /\ engine'.Hout = engine.Hout /\ engine'.Wout = engine.Wout
      /\ engine'.emit_idx = engine.emit_idx
  BY <1>0, <1>2 DEF Im2colInv, StoreSide
<1>4. Im2col!Emitted' = Im2col!Emitted
  BY <1>0 DEF Im2col!Emitted, Im2col!Stores
<1>5. AtPosition' /\ Pixel' = Pixel
  BY <1>0, <1>3, <1>4, MatrixKept DEF AtPosition, PlaceOf, Pixel
<1>6. EngineSide'
  BY <1>3, <1>5 DEF EngineSide, Im2col!in_mem
<1>7. RightSoFar'
  BY <1>0, <1>4, MatrixKept DEF ColumnsInv, RightSoFar
<1>8. Im2colInv'
  BY <1>0, ReadImageInv
<1>9. EngineConfigured'
  <2>1. Gone' = Gone
    BY <1>0 DEF Gone, Planned, Launch
  <2> QED BY <1>0, <2>1, ConfiguredKept
<1>10. Im2col!Emitted' \in Seq(StoreMsg)'
  BY <1>4 DEF ColumnsInv, StoreMsg
<1> QED BY <1>6, <1>7, <1>8, <1>9, <1>10 DEF ColumnsInv

(* The place behind the last one of a row is the first one of the next.    *)
LEMMA NextPlace ==
  ASSUME NEW i \in Nat, NEW n \in Nat, NEW j \in Nat
  PROVE  /\ Place(i, n, j + 1) = Place(i, n, j) + 1
         /\ j + 1 = n => Place(i + 1, n, 0) = Place(i, n, j) + 1
         /\ Place(0, n, 0) = 0 /\ Place(i, n, 0) = i * n
  BY DEF Place

LEMMA MoreIsLess ==
  ASSUME Im2colShape, NEW i \in Nat, NEW b \in Nat, i < b, b < ScratchMod
  PROVE  /\ Im2col!more(i, b) <=> i + 1 < b
         /\ ~Im2col!more(i, b) <=> i + 1 = b
<1>1. ScratchMod \in Nat \ {0} /\ i + 1 \in Nat /\ i + 1 < ScratchMod
  BY DEF Im2colShape
<1>2. (i + 1) % ScratchMod = i + 1
  BY <1>1
<1> QED BY <1>2 DEF Im2col!more

(* The loops go to the next element, or are done after the last.           *)
LEMMA AdvanceToNext ==
  ASSUME Im2colShape, Im2col!ShapesFit, Im2colInv, EngineConfigured, AtPosition, engine.state = "EMIT"
  PROVE  LET e == Im2col!Advance
             n == engine.emit_idx + 1
         IN \/ /\ e.state = "EMIT" /\ e.Hout = Hout /\ e.Wout = Wout
               /\ e.oy < Hout /\ e.ox < Wout /\ e.ky < shape["kH"] /\ e.kx < shape["kW"]
               /\ n = PlaceOf(e.oy, e.ox, e.ky, e.kx)
            \/ e.state = "DONE" /\ n = Im2col!Total
<1> DEFINE kH == shape["kH"]
           kW == shape["kW"]
           C == Im2col!Columns
           ox == engine.ox
           oy == engine.oy
           kx == engine.kx
           ky == engine.ky
           r == Place(ky, kW, kx)
           c == Place(oy, Wout, ox)
           n == engine.emit_idx + 1
           Right(e) ==
             \/ /\ e.state = "EMIT" /\ e.Hout = Hout /\ e.Wout = Wout
                /\ e.oy < Hout /\ e.ox < Wout /\ e.ky < kH /\ e.kx < kW
                /\ n = Place(Place(e.ky, kW, e.kx), C, Place(e.oy, Wout, e.ox))
             \/ e.state = "DONE" /\ n = Im2col!Total
<1> SUFFICES Right(Im2col!Advance)
  BY DEF PlaceOf
<1>1. shape \in Shapes /\ config_regs["kH"] = kH /\ config_regs["kW"] = kW
  BY RunningIsLaunched, AllConfigured
<1>2. /\ kH \in Nat \ {0} /\ kW \in Nat \ {0} /\ kH < ScratchMod /\ kW < ScratchMod
      /\ Hout \in Nat \ {0} /\ Wout \in Nat \ {0} /\ Hout < ScratchMod /\ Wout < ScratchMod
      /\ C = Hout * Wout /\ C \in Nat \ {0} /\ Im2col!Total = kH * kW * C
      /\ ScratchMod \in Nat
  <2>1. /\ kH \in Nat \ {0} /\ kW \in Nat \ {0} /\ kH < ScratchMod /\ kW < ScratchMod
        /\ shape["H"] < ScratchMod /\ shape["W"] < ScratchMod
        /\ shape["H"] \in Nat /\ shape["W"] \in Nat
    BY <1>1, ShapeFacts
  <2>2. /\ Hout \in Nat \ {0} /\ Wout \in Nat \ {0} /\ Hout <= shape["H"] /\ Wout <= shape["W"]
        /\ C = Hout * Wout /\ C \in Nat \ {0} /\ Im2col!Total = kH * kW * C
    BY <1>1, MatrixFacts
  <2>3. ScratchMod \in Nat
    BY DEF Im2colShape
  <2> QED BY <2>1, <2>2, <2>3
<1>3. /\ ox \in Nat /\ oy \in Nat /\ kx \in Nat /\ ky \in Nat /\ engine.emit_idx \in Nat
      /\ ox < Wout /\ oy < Hout /\ kx < kW /\ ky < kH
      /\ engine.Hout = Hout /\ engine.Wout = Wout /\ n = Place(r, C, c) + 1
      /\ engine.state = "EMIT"
      /\ engine \in [state : {"IDLE", "READ", "EMIT", "DONE"}, ox : Nat, oy : Nat, kx : Nat,
                     ky : Nat, Hout : Nat, Wout : Nat, emit_idx : Nat, data_reg : Nat]
  BY DEF AtPosition, PlaceOf, Im2colInv, StoreSide
<1> HIDE DEF kH, kW, C, ox, oy, kx, ky, n
<1>4. /\ Im2col!more(ox, Wout) <=> ox + 1 < Wout
      /\ ~Im2col!more(ox, Wout) <=> ox + 1 = Wout
      /\ Im2col!more(oy, Hout) <=> oy + 1 < Hout
      /\ ~Im2col!more(oy, Hout) <=> oy + 1 = Hout
      /\ Im2col!more(kx, kW) <=> kx + 1 < kW
      /\ ~Im2col!more(kx, kW) <=> kx + 1 = kW
      /\ Im2col!more(ky, kH) <=> ky + 1 < kH
      /\ ~Im2col!more(ky, kH) <=> ky + 1 = kH
  BY <1>2, <1>3, MoreIsLess
<1>5. r \in Nat /\ c \in Nat
  BY <1>2, <1>3 DEF Place
<1> HIDE DEF r, c, Right
<1>6. CASE Im2col!more(ox, Wout)
  <2> DEFINE e == [engine EXCEPT !.ox = @ + 1]
  <2>1. Im2col!Advance = e
    BY <1>1, <1>3, <1>6 DEF Im2col!Advance, ox
  <2>2. /\ e.state = "EMIT" /\ e.Hout = Hout /\ e.Wout = Wout /\ e.ox = ox + 1 /\ e.oy = oy
        /\ e.kx = kx /\ e.ky = ky
    BY <1>3 DEF ox, oy, kx, ky
  <2> HIDE DEF e
  <2>3. Place(oy, Wout, ox + 1) = c + 1
    BY <1>2, <1>3, NextPlace DEF c
  <2>4. n = Place(r, C, c + 1)
    BY <1>2, <1>3, <1>5, NextPlace
  <2> QED BY <1>3, <1>4, <1>6, <2>1, <2>2, <2>3, <2>4 DEF Right, r
<1>7. CASE ~Im2col!more(ox, Wout) /\ Im2col!more(oy, Hout)
  <2> DEFINE e == [engine EXCEPT !.ox = 0, !.oy = @ + 1]
  <2>1. Im2col!Advance = e
    BY <1>1, <1>3, <1>7 DEF Im2col!Advance, ox, oy
  <2>2. /\ e.state = "EMIT" /\ e.Hout = Hout /\ e.Wout = Wout /\ e.ox = 0 /\ e.oy = oy + 1
        /\ e.kx = kx /\ e.ky = ky
    BY <1>3 DEF ox, oy, kx, ky
  <2> HIDE DEF e
  <2>3. Place(oy + 1, Wout, 0) = c + 1
    BY <1>2, <1>3, <1>4, <1>7, NextPlace DEF c
  <2>4. n = Place(r, C, c + 1)
    BY <1>2, <1>3, <1>5, NextPlace
  <2> QED BY <1>2, <1>3, <1>4, <1>7, <2>1, <2>2, <2>3, <2>4 DEF Right, r
<1>8. ASSUME ox + 1 = Wout, oy + 1 = Hout
      PROVE  Place(r + 1, C, 0) = n /\ Place(0, Wout, 0) = 0
  <2>1. Place(oy + 1, Wout, 0) = c + 1 /\ Place(oy + 1, Wout, 0) = (oy + 1) * Wout
    <3>1. Place(oy + 1, Wout, 0) = c + 1
      BY <1>2, <1>3, <1>8, NextPlace DEF c
    <3>2. oy + 1 \in Nat /\ Wout \in Nat
      BY <1>2, <1>3
    <3>3. Place(oy + 1, Wout, 0) = (oy + 1) * Wout
      BY <3>2 DEF Place
    <3> QED BY <3>1, <3>3
  <2>2. c + 1 = C
    BY <1>2, <1>8, <2>1
  <2>3. Place(r + 1, C, 0) = Place(r, C, c) + 1
    BY <1>2, <1>5, <2>2, NextPlace
  <2> QED BY <1>2, <1>3, <2>3, NextPlace
<1>9. CASE ~Im2col!more(ox, Wout) /\ ~Im2col!more(oy, Hout) /\ Im2col!more(kx, kW)
  <2> DEFINE e == [engine EXCEPT !.ox = 0, !.oy = 0, !.kx = @ + 1]
  <2>1. Im2col!Advance = e
    BY <1>1, <1>3, <1>9 DEF Im2col!Advance, ox, oy, kx
  <2>2. /\ e.state = "EMIT" /\ e.Hout = Hout /\ e.Wout = Wout /\ e.ox = 0 /\ e.oy = 0
        /\ e.kx = kx + 1 /\ e.ky = ky
    BY <1>3 DEF ox, oy, kx, ky
  <2> HIDE DEF e
  <2>3. Place(ky, kW, kx + 1) = r + 1
    BY <1>2, <1>3, NextPlace DEF r
  <2>4. Place(r + 1, C, 0) = n /\ Place(0, Wout, 0) = 0
    BY <1>4, <1>8, <1>9
  <2> QED BY <1>2, <1>3, <1>4, <1>9, <2>1, <2>2, <2>3, <2>4 DEF Right
<1>10. CASE ~Im2col!more(ox, Wout) /\ ~Im2col!more(oy, Hout) /\ ~Im2col!more(kx, kW)
            /\ Im2col!more(ky, kH)
  <2> DEFINE e == [engine EXCEPT !.ox = 0, !.oy = 0, !.kx = 0, !.ky = @ + 1]
  <2>1. Im2col!Advance = e
    BY <1>1, <1>3, <1>10 DEF Im2col!Advance, ox, oy, kx, ky
  <2>2. /\ e.state = "EMIT" /\ e.Hout = Hout /\ e.Wout = Wout /\ e.ox = 0 /\ e.oy = 0
        /\ e.kx = 0 /\ e.ky = ky + 1
    BY <1>3 DEF ox, oy, kx, ky
  <2> HIDE DEF e
  <2>3. Place(ky + 1, kW, 0) = r + 1
    BY <1>2, <1>3, <1>4, <1>10, NextPlace DEF r
  <2>4. Place(r + 1, C, 0) = n /\ Place(0, Wout, 0) = 0
    BY <1>4, <1>8, <1>10
  <2> QED BY <1>2, <1>3, <1>4, <1>10, <2>1, <2>2, <2>3, <2>4 DEF Right
<1>11. CASE ~Im2col!more(ox, Wout) /\ ~Im2col!more(oy, Hout) /\ ~Im2col!more(kx, kW)
            /\ ~Im2col!more(ky, kH)
  <2> DEFINE e == [engine EXCEPT !.state = "DONE"]
  <2>1. Im2col!Advance = e
    BY <1>1, <1>3, <1>11 DEF Im2col!Advance, ox, oy, kx, ky
  <2>2. e.state = "DONE"
    BY <1>3
  <2> HIDE DEF e
  <2>3. Place(ky + 1, kW, 0) = r + 1 /\ Place(ky + 1, kW, 0) = (ky + 1) * kW
    <3>1. Place(ky + 1, kW, 0) = r + 1
      BY <1>2, <1>3, <1>4, <1>11, NextPlace DEF r
    <3>2. ky + 1 \in Nat /\ kW \in Nat
      BY <1>2, <1>3
    <3>3. Place(ky + 1, kW, 0) = (ky + 1) * kW
      BY <3>2 DEF Place
    <3> QED BY <3>1, <3>3
  <2>4. Place(r + 1, C, 0) = n /\ Place(r + 1, C, 0) = (r + 1) * C
    BY <1>2, <1>4, <1>5, <1>8, <1>11, NextPlace
  <2>5. r + 1 = kH * kW
    BY <1>4, <1>11, <2>3
  <2> QED BY <1>2, <2>1, <2>2, <2>4, <2>5 DEF Right
<1> QED BY <1>6, <1>7, <1>9, <1>10, <1>11

LEMMA SendStoreColumns ==
  ASSUME Im2colShape, Im2col!ShapesFit, ColumnsInv, Im2col!SendStore
  PROVE  ColumnsInv'
<1> DEFINE a == Im2col!Advance
           n == engine.emit_idx
           m == Im2col!Store
           emitted == Im2col!Emitted
           T == Im2col!Total
<1>0. /\ Im2colInv /\ EngineConfigured /\ engine.state = "EMIT" /\ AtPosition
      /\ engine.data_reg = Im2col!in_mem(Pixel) /\ RightSoFar /\ emitted \in Seq(StoreMsg)
      /\ UNCHANGED <<shape, packets, cpu_queue, config_regs>>
      /\ engine' = [a EXCEPT !.state = IF @ = "EMIT" THEN "READ" ELSE @,
                             !.emit_idx = (@ + 1) % DataAddrMod]
  BY DEF ColumnsInv, EngineSide, Im2col!SendStore, Im2col!cpu_side
<1>1. /\ shape \in Shapes /\ config_regs["dst_sram_base"] = shape["dst_sram_base"]
  BY <1>0, RunningIsLaunched, AllConfigured
<1>2. /\ engine.oy \in Nat /\ engine.ky \in Nat /\ engine.ox \in Nat /\ engine.kx \in Nat
      /\ n \in Nat /\ n = Len(emitted) /\ StoreSide
  BY <1>0 DEF AtPosition, Im2colInv, StoreSide
<1>3. /\ n < T
      /\ Im2col!Matrix[n + 1] = [cmd |-> "STORE_REQUEST", data |-> Im2col!in_mem(Pixel),
                                 addr |-> shape["dst_sram_base"] + n]
  BY <1>0, <1>1, <1>2, NextElement DEF AtPosition, Pixel, StoreSide
<1>4. /\ T \in Nat /\ shape["dst_sram_base"] \in Nat /\ shape["dst_sram_base"] + T <= DataAddrMod
      /\ DataAddrMod \in Nat \ {0}
  BY <1>1, ShapeFacts, MatrixFacts DEF Im2colShape
<1>5. m = Im2col!Matrix[n + 1]
  <2> DEFINE b == shape["dst_sram_base"]
  <2>1. m = [cmd |-> "STORE_REQUEST", data |-> engine.data_reg, addr |-> (b + n) % DataAddrMod]
    BY <1>1 DEF Im2col!Store
  <2>2. b \in Nat /\ b + T <= DataAddrMod
    BY <1>4
  <2> HIDE DEF b, n, T, m
  <2>3. b + n \in Nat /\ b + n < DataAddrMod
    BY <1>2, <1>3, <1>4, <2>2
  <2>4. (b + n) % DataAddrMod = b + n
    BY <1>4, <2>3
  <2> QED BY <1>0, <1>3, <2>1, <2>4 DEF b
<1>6. Im2col!Emitted' = Append(emitted, m) /\ m \in StoreMsg
  BY <1>0, <1>2, SendAppends, StoreType
<1> HIDE DEF a, n, m, emitted, T
<1>7. /\ Im2col!Emitted' \in Seq(StoreMsg) /\ Len(Im2col!Emitted') = n + 1
      /\ \A i \in 1 .. n : Im2col!Emitted'[i] = emitted[i]
      /\ Im2col!Emitted'[n + 1] = m
  BY <1>0, <1>2, <1>6, AppendProperties
<1>8. RightSoFar'
  <2> SUFFICES ASSUME NEW i \in 1 .. n + 1 PROVE Im2col!Emitted'[i] = Im2col!Matrix[i]
    BY <1>0, <1>7, MatrixKept DEF RightSoFar
  <2>1. i \in 1 .. n \/ i = n + 1
    BY <1>2
  <2>2. \A j \in 1 .. n : emitted[j] = Im2col!Matrix[j]
    BY <1>0, <1>2 DEF RightSoFar, emitted
  <2> QED BY <1>5, <1>7, <2>1, <2>2
<1>9. /\ a.emit_idx = n
      /\ a \in [state : {"EMIT", "DONE"}, ox : Nat, oy : Nat, kx : Nat, ky : Nat, Hout : Nat,
                Wout : Nat, emit_idx : Nat, data_reg : Nat]
  BY <1>0, <1>2, AdvanceType DEF a, n
<1>10. /\ a.state = "EMIT" => engine'.state = "READ"
       /\ a.state = "DONE" => engine'.state = "DONE"
       /\ engine'.ox = a.ox /\ engine'.oy = a.oy /\ engine'.kx = a.kx /\ engine'.ky = a.ky
       /\ engine'.Hout = a.Hout /\ engine'.Wout = a.Wout
       /\ engine'.emit_idx = (n + 1) % DataAddrMod
  BY <1>0, <1>9
<1>11. \/ /\ a.state = "EMIT" /\ a.Hout = Hout /\ a.Wout = Wout
          /\ a.oy < Hout /\ a.ox < Wout /\ a.ky < shape["kH"] /\ a.kx < shape["kW"]
          /\ n + 1 = PlaceOf(a.oy, a.ox, a.ky, a.kx)
       \/ a.state = "DONE" /\ n + 1 = T
  BY <1>0, AdvanceToNext DEF a, n, T
<1>12. CASE a.state = "DONE"
  <2>1. n + 1 = T /\ engine'.state = "DONE"
    BY <1>10, <1>11, <1>12
  <2>2. Len(Im2col!Emitted') = Im2col!Total'
    BY <1>0, <1>7, <2>1, MatrixKept DEF T
  <2>3. EngineSide'
    BY <2>1, <2>2 DEF EngineSide
  <2> QED BY <2>3, <1>0, <1>7, <1>8, SendStoreInv, ConfiguredKept
          DEF ColumnsInv, Gone, Planned, Launch, StoreMsg
<1>13. CASE a.state = "EMIT"
  <2>1. \/ n + 1 < T
        \/ n + 1 = T
    BY <1>2, <1>3, <1>4
  <2>2. engine'.state = "READ" /\ a.Hout = Hout /\ a.Wout = Wout
    BY <1>10, <1>11, <1>13
  <2>3. n + 1 < T
    <3>1. n + 1 = PlaceOf(a.oy, a.ox, a.ky, a.kx)
      BY <1>11, <1>13
    <3>2. a.oy < Hout /\ a.ox < Wout /\ a.ky < shape["kH"] /\ a.kx < shape["kW"]
      BY <1>11, <1>13
    <3> QED BY <1>1, <1>9, <3>1, <3>2, NextElement DEF T
  <2>4. (n + 1) % DataAddrMod = n + 1
    <3>1. n + 1 \in Nat /\ n + 1 < DataAddrMod
      BY <1>2, <1>4, <2>3
    <3> QED BY <1>4, <3>1
  <2>5. AtPosition'
    BY <1>0, <1>7, <1>10, <1>11, <1>13, <2>4, MatrixKept DEF AtPosition, PlaceOf
  <2>6. EngineSide'
    BY <2>2, <2>5 DEF EngineSide
  <2> QED BY <2>6, <1>0, <1>7, <1>8, SendStoreInv, ConfiguredKept
          DEF ColumnsInv, Gone, Planned, Launch, StoreMsg
<1> QED BY <1>9, <1>12, <1>13

LEMMA ColumnsInitInv ==
  ASSUME Im2colShape, Im2col!Init
  PROVE  ColumnsInv
<1>1. /\ Im2colInv /\ engine.state = "IDLE"
      /\ im2col_queue = <<>> /\ bypass_queue = <<>> /\ store_queue = <<>> /\ stored = <<>>
  BY Im2colInitInv DEF Im2col!Init, Im2col!Reset
<1>2. Im2col!Emitted = <<>>
  <2>1. <<>> \in Seq(StoreMsg)
    OBVIOUS
  <2>2. <<>> \o <<>> = <<>>
    BY <2>1, ConcatEmptySeq
  <2>3. Im2col!Stores = <<>>
    BY <1>1 DEF Im2col!Stores
  <2> QED BY <1>1, <2>2, <2>3 DEF Im2col!Emitted
<1>3. Len(Im2col!Emitted) = 0 /\ Im2col!Emitted \in Seq(StoreMsg)
  BY <1>2
<1>4. EngineConfigured
  <2>1. engine.state = "IDLE" /\ cpu_queue = <<>> /\ packets = Im2col!Program(shape)
    BY DEF Im2col!Init, Im2col!Reset
  <2>2. Len(packets) = Planned /\ Len(cpu_queue) = 0
    BY <2>1, ProgramIsSent
  <2>3. Gone = Planned - (Planned + 0) /\ Planned \in Nat /\ Early \in Nat
    <3>1. Gone = Planned - (Planned + 0)
      BY <2>2 DEF Gone
    <3>2. Early \in Nat /\ Late \in Nat /\ Planned = Early + 7 + Late
      BY DEF Im2colShape, Planned, Launch
    <3> QED BY <3>1, <3>2
  <2>4. \A i \in 1 .. 6 : ~(Early + i <= Gone)
    BY <2>3
  <2> QED BY <2>4 DEF EngineConfigured
<1>5. EngineSide /\ RightSoFar
  BY <1>1, <1>3 DEF EngineSide, RightSoFar
<1> QED BY <1>1, <1>3, <1>4, <1>5 DEF ColumnsInv

LEMMA ColumnsStep ==
  ASSUME Im2colShape, Im2col!ShapesFit, ColumnsInv, Im2col!Next
  PROVE  ColumnsInv'
<1>0. Im2colInv /\ CpuSide /\ EngineConfigured /\ NocSide /\ Im2colInv'
  BY Im2colStep DEF ColumnsInv, Im2colInv
<1>1. ASSUME shape' = shape, engine' = engine, config_regs' = config_regs,
             Im2col!Emitted' = Im2col!Emitted,
             packets' = packets, cpu_queue' = cpu_queue
      PROVE  ColumnsInv'
  <2>1. Gone' = Gone
    BY <1>1 DEF Gone, Planned, Launch
  <2>2. EngineConfigured'
    BY <1>0, <1>1, <2>1, ConfiguredKept
  <2> QED BY <1>0, <1>1, <2>2, EngineKept
<1>2. CASE Im2col!SendCpu
  <2>1. /\ UNCHANGED <<shape, config_regs, engine, im2col_queue, bypass_queue, store_queue, stored>>
        /\ cpu_queue' = Append(cpu_queue, Head(packets)) /\ packets' = Tail(packets)
        /\ packets # <<>>
    BY <1>2 DEF Im2col!SendCpu, Im2col!engine_side
  <2>2. Im2col!Emitted' = Im2col!Emitted
    BY <2>1 DEF Im2col!Emitted, Im2col!Stores
  <2>3. Gone' = Gone
    <3>1. Len(packets) \in Nat /\ Len(cpu_queue) \in Nat /\ Planned \in Nat
      BY <1>0, Counters
    <3>2. Len(packets') = Len(packets) - 1 /\ Len(cpu_queue') = Len(cpu_queue) + 1
      <4>1. packets \in Seq(PacketsOf(shape)) /\ cpu_queue \in Seq(PacketsOf(shape))
        BY <1>0 DEF CpuSide
      <4> HIDE DEF CpuSide
      <4>2. Head(packets) \in PacketsOf(shape) /\ Len(Tail(packets)) = Len(packets) - 1
        BY <2>1, <4>1, HeadTailProperties
      <4>3. Len(Append(cpu_queue, Head(packets))) = Len(cpu_queue) + 1
        BY <4>1, <4>2, AppendProperties
      <4> QED BY <2>1, <4>2, <4>3
    <3>3. Gone' = Planned - (Len(packets') + Len(cpu_queue'))
      BY DEF Gone, Planned, Launch
    <3>4. Gone = Planned - (Len(packets) + Len(cpu_queue))
      BY DEF Gone
    <3> QED BY <3>1, <3>2, <3>3, <3>4
  <2>4. EngineConfigured'
    BY <1>0, <2>1, <2>3, ConfiguredKept
  <2> QED BY <1>0, <2>1, <2>2, <2>4, EngineKept
<1>3. CASE Im2col!ReleaseGate
  <2>1. /\ UNCHANGED <<shape, config_regs, engine, packets, cpu_queue>>
        /\ UNCHANGED <<im2col_queue, bypass_queue, store_queue, stored>>
    BY <1>3 DEF Im2col!ReleaseGate, Im2col!engine_side
  <2> QED BY <1>1, <2>1 DEF Im2col!Emitted, Im2col!Stores
<1>4. CASE Im2col!GrantCpu
  <2>1. /\ UNCHANGED <<shape, packets, config_regs, engine, im2col_queue, store_queue, stored>>
        /\ cpu_queue # <<>> /\ Head(cpu_queue).cmd = "TILE" /\ bypass_queue = <<>>
        /\ cpu_queue' = Tail(cpu_queue) /\ bypass_queue' = <<Head(cpu_queue)>>
    BY <1>4 DEF Im2col!GrantCpu, Im2col!engine_side
  <2>2. Im2col!Emitted' = Im2col!Emitted
    <3>1. bypass_queue'[1].cmd = "TILE"
      BY <2>1
    <3>2. Im2col!Stores = <<>> /\ Im2col!Stores' = <<>>
      BY <2>1, <3>1 DEF Im2col!Stores
    <3> QED BY <2>1, <3>2 DEF Im2col!Emitted
  <2>3. Gone' = Gone + 1 /\ (Gone + 1 <= Early \/ Gone + 1 >= Launch)
    <3>1. Gone \in Nat /\ Early \in Nat /\ Launch = Early + 7
      BY <1>0, Counters
    <3>2. Gone + 1 <= Early \/ Launch < Gone + 1
      BY <1>0, <2>1, <3>1, HeadOfQueue, KindOfPacket
    <3> QED BY <1>0, <2>1, <3>1, <3>2, TakeHead
  <2>4. EngineConfigured'
    BY <1>0, <2>1, <2>3, ConfiguredKept
  <2> QED BY <1>0, <2>1, <2>2, <2>4, EngineKept
<1>5. CASE Im2col!GrantIm2col
  BY <1>0, <1>1, <1>5, GrantKeepsEmitted
  DEF Im2col!GrantIm2col, Im2col!cpu_side, Im2col!engine_side
<1>6. CASE Im2col!ToMemory
  BY <1>0, <1>1, <1>6, ToMemoryKeepsEmitted
  DEF Im2col!ToMemory, Im2col!cpu_side, Im2col!engine_side
<1>7. CASE Im2col!WriteMemory
  BY <1>0, <1>1, <1>7, WriteKeepsEmitted
  DEF Im2col!WriteMemory, Im2col!cpu_side, Im2col!engine_side
<1>8. CASE Im2col!ToTiles
  <2>1. /\ UNCHANGED <<shape, packets, cpu_queue, config_regs, engine>>
        /\ UNCHANGED <<im2col_queue, store_queue, stored>>
        /\ bypass_queue[1].cmd = "TILE" /\ bypass_queue' = <<>>
    BY <1>8 DEF Im2col!ToTiles, Im2col!cpu_side, Im2col!engine_side
  <2>2. Im2col!Stores = <<>> /\ Im2col!Stores' = <<>>
    BY <2>1 DEF Im2col!Stores
  <2> QED BY <1>1, <2>1, <2>2 DEF Im2col!Emitted
<1> QED BY <1>2, <1>3, <1>4, <1>5, <1>6, <1>7, <1>8, RecvConfigColumns, RecvLaunchColumns,
           ReadImageColumns, SendStoreColumns DEF Im2col!Next

(* For every geometry that fits in the memories and every interleaving of  *)
(* the engine, the network and the data memory, the words the engine has   *)
(* emitted are the lowered matrix in order, at its addresses, and all of   *)
(* it when the engine is done: no wrap of a register or of an address      *)
(* shows, and nothing is lost, doubled or overtaken on the way.            *)
THEOREM MatrixIsStored ==
  ASSUME Im2colShape, Im2col!ShapesFit
  PROVE  Im2col!Spec => []ColumnsExact
<1>1. Im2col!Init => ColumnsInv
  BY ColumnsInitInv
<1>2. ColumnsInv /\ [Im2col!Next]_(Im2col!vars) => ColumnsInv'
  <2> SUFFICES ASSUME ColumnsInv, UNCHANGED Im2col!vars PROVE ColumnsInv'
    BY ColumnsStep
  <2>1. /\ UNCHANGED <<shape, packets, cpu_queue, config_regs, engine>>
        /\ UNCHANGED <<im2col_queue, bypass_queue, store_queue, stored>>
    BY DEF Im2col!vars, Im2col!cpu_side, Im2col!engine_side
  <2>2. Im2colInv' /\ Im2col!Emitted' = Im2col!Emitted
    BY <2>1, Im2colStutter DEF ColumnsInv, Im2col!Emitted, Im2col!Stores
  <2>3. EngineConfigured'
    <3>1. Gone' = Gone
      BY <2>1 DEF Gone, Planned, Launch
    <3> QED BY <2>1, <3>1, ConfiguredKept DEF ColumnsInv
  <2> QED BY <2>1, <2>2, <2>3, EngineKept
<1>3. ColumnsInv => ColumnsExact
  <2> SUFFICES ASSUME ColumnsInv PROVE ColumnsExact
    OBVIOUS
  <2> DEFINE l == Len(Im2col!Emitted)
             T == Im2col!Total
  <2>1. /\ shape \in Shapes /\ Im2colInv /\ EngineSide /\ Im2col!Emitted \in Seq(StoreMsg)
        /\ RightSoFar /\ l \in Nat /\ T \in Nat
    BY MatrixFacts DEF ColumnsInv, Im2colInv, CpuSide
  <2>2. l <= T /\ (engine.state = "DONE" => l = T)
    <3>1. CASE engine.state = "IDLE"
      BY <2>1, <3>1 DEF EngineSide
    <3>2. CASE engine.state \in {"READ", "EMIT"}
      <4>1. AtPosition
        BY <2>1, <3>2 DEF EngineSide
      <4>2. engine.emit_idx < Im2col!Total /\ engine.emit_idx = l
        BY <2>1, <4>1, NextElement DEF AtPosition, Im2colInv, StoreSide
      <4> QED BY <2>1, <3>2, <4>2
    <3>3. CASE engine.state = "DONE"
      BY <2>1, <3>3 DEF EngineSide
    <3>4. engine.state \in {"IDLE", "READ", "EMIT", "DONE"}
      BY <2>1 DEF Im2colInv, StoreSide
    <3> QED BY <3>1, <3>2, <3>3, <3>4
  <2>3. Im2col!Emitted = SubSeq(Im2col!Matrix, 1, l)
    <3>1. \A i \in 1 .. l : Im2col!Matrix[i] = Im2col!Emitted[i] /\ Im2col!Matrix[i] \in StoreMsg
      BY <2>1, ElementOfSeq DEF RightSoFar
    <3> DEFINE e == Im2col!Emitted
               M == Im2col!Matrix
    <3>2. e \in Seq(StoreMsg) /\ Len(e) = l /\ l \in Nat /\ \A i \in 1 .. l : M[i] = e[i] /\ M[i] \in StoreMsg
      BY <2>1, <3>1
    <3> HIDE DEF e, M, l
    <3>3. /\ SubSeq(M, 1, l) \in Seq(StoreMsg)
          /\ Len(SubSeq(M, 1, l)) = IF 1 <= l THEN l - 1 + 1 ELSE 0
          /\ \A i \in 1 .. l - 1 + 1 : SubSeq(M, 1, l)[i] = M[1 + i - 1]
      BY <3>2, SubSeqProperties
    <3>4. Len(SubSeq(M, 1, l)) = l
      BY <3>2, <3>3
    <3>5. \A i \in 1 .. l : SubSeq(M, 1, l)[i] = e[i]
      <4> TAKE i \in 1 .. l
      <4>1. i \in 1 .. l - 1 + 1 /\ 1 + i - 1 = i
        BY <3>2
      <4> QED BY <3>2, <3>3, <4>1
    <3>6. e = SubSeq(M, 1, l)
      BY <3>2, <3>3, <3>4, <3>5, SeqEqual
    <3> QED BY <3>6 DEF e, M
  <2> QED BY <2>2, <2>3 DEF ColumnsExact, Im2col!ColumnsExact
<1> QED BY <1>1, <1>2, <1>3, PTL DEF Im2col!Spec
-----------------------------------------------------------------------------
(* A loop nest at work, for every proper configuration.                    *)

CcuConfig ==
  [lower : 0 .. (ValueLimit - 1), upper : 0 .. (ValueLimit - 1), step : 0 .. (ValueLimit - 1),
   child_count : 0 .. (CountLimit - 1), targets : Seq(Target), root : BOOLEAN, parent : CCU]

Reset(a) == [cmd |-> "RESET_LEAF", addr |-> a, data |-> 0]
Update(a, v) == [cmd |-> "UPDATE_SHADOW", addr |-> a, data |-> v]
LeafAddrs == {l.addr : l \in Leaves}

NestTypes ==
  /\ nest \in Nests /\ pc \in 0 .. Len(nest)
  /\ cfg \in [CCU -> CcuConfig]
  /\ value \in [CCU -> 0 .. (ValueLimit - 1)]
  /\ ccu_state \in [CCU -> {"IDLE", "RUNNING", "DISPATCHING", "COMPLETE"}]
  /\ received \in [CCU -> 0 .. (CountLimit - 1)]
  /\ dispatch_idx \in [CCU -> 0 .. (MaxTargets - 1)]
  /\ DOMAIN to_dcu = Addr
  /\ from_tile \in Seq(Addr) /\ from_remote \in Seq(Addr)
  /\ already_done \in [Addr -> BOOLEAN] /\ runs \in [Addr -> Nat] /\ DOMAIN shadow = Addr

(* What the commands sent so far have left in the registers of a CCU.      *)
Arrived(c, register, x) ==
  \A j \in 1 .. pc : nest[j].cmd = register /\ nest[j].ccu = c => nest[j].n = x

Given(c) ==
  LET ts == cfg[c].targets
  IN  /\ \A i \in 1 .. Len(ts) : \E j \in TargetsOf(nest, c) : j <= pc /\ ts[i] = nest[j].target
      /\ \A j \in TargetsOf(nest, c) : j <= pc => \E i \in 1 .. Len(ts) : ts[i] = nest[j].target
      /\ \A i, k \in 1 .. Len(ts) : ts[i].addr = ts[k].addr => i = k
      /\ Len(ts) = Cardinality({j \in TargetsOf(nest, c) : j <= pc})

ConfigInv ==
  \A c \in CCU :
    /\ Arrived(c, "LOWER", cfg[c].lower) /\ Arrived(c, "UPPER", cfg[c].upper)
    /\ Arrived(c, "STEP", cfg[c].step) /\ Arrived(c, "CHILD_COUNT", cfg[c].child_count)
    /\ \A j \in 1 .. pc : nest[j].cmd = "PARENT" /\ nest[j].ccu = c =>
         cfg[c].root = nest[j].root /\ cfg[c].parent = nest[j].parent
    /\ Given(c)
    /\ c \notin InUse(nest) => cfg[c] = CcuReset

(* What is on the links: a leaf's completion is reported once, and a reset *)
(* finds it counted.                                                       *)
Reported(a) ==
  \/ \E i \in 1 .. Len(from_tile) : from_tile[i] = a
  \/ \E i \in 1 .. Len(from_remote) : from_remote[i] = a

LinksInv ==
  /\ \A i \in 1 .. Len(from_tile) : \E l \in Leaves : l.addr = from_tile[i] /\ ~l.remote
  /\ \A i \in 1 .. Len(from_remote) : \E l \in Leaves : l.addr = from_remote[i] /\ l.remote
  /\ \A i, j \in 1 .. Len(from_tile) : from_tile[i] = from_tile[j] => i = j
  /\ \A i, j \in 1 .. Len(from_remote) : from_remote[i] = from_remote[j] => i = j
  /\ \A a \in Addr :
       /\ to_dcu[a] # <<>> => \/ to_dcu[a] = <<Reset(a)>> /\ a \in LeafAddrs /\ already_done[a]
                              \/ /\ a \notin LeafAddrs
                                 /\ \E v \in 0 .. (ValueLimit - 1) : to_dcu[a] = <<Update(a, v)>>
       /\ Reported(a) => already_done[a] /\ to_dcu[a] = <<>>

(* Before the launch, the leaves that have run wait to be counted.         *)
Asleep ==
  /\ \A c \in CCU : ccu_state[c] = "IDLE" /\ received[c] = 0 /\ dispatch_idx[c] = 0
  /\ \A c \in CCU \ InUse(nest) : value[c] = 0
  /\ \A a \in Addr : to_dcu[a] = <<>>
  /\ \A a \in LeafAddrs : /\ runs[a] = (IF already_done[a] THEN 1 ELSE 0)
                          /\ already_done[a] => Reported(a)

(* In the lap k of the loop a leaf is counted, or has its run before it or *)
(* behind it but not counted.                                              *)
Resting(a, k) == already_done[a] /\ to_dcu[a] = <<>> /\ ~Reported(a) /\ runs[a] = k
Ran(a, k) == runs[a] = k + (IF Finished(a) THEN 1 ELSE 0)
Going(a, k) == ~Counted(a) /\ Ran(a, k)

Delivered(a, v) == IF to_dcu[a] = <<>> THEN shadow[a] = v ELSE to_dcu[a] = <<Update(a, v)>>

CountedLeaves(c) == {l \in LeavesOf(c) : Counted(l.addr)}

LapOf(c, k) ==
  /\ value[c] = cfg[c].lower + k * cfg[c].step
  /\ CASE ccu_state[c] = "RUNNING" ->
            /\ value[c] < cfg[c].upper
            /\ received[c] = Cardinality(CountedLeaves(c))
            /\ \A l \in LeavesOf(c) : Ran(l.addr, k)
            /\ k > 0 => \A a \in DeliveriesOf(c) : Delivered(a, value[c])
       [] ccu_state[c] = "DISPATCHING" ->
            /\ k > 0 /\ value[c] < cfg[c].upper
            /\ dispatch_idx[c] < Len(cfg[c].targets)
            /\ \A i \in 1 .. Len(cfg[c].targets) :
                 LET t == cfg[c].targets[i]
                 IN  IF t.shadow THEN i <= dispatch_idx[c] => Delivered(t.addr, value[c])
                     ELSE IF i <= dispatch_idx[c] THEN Going(t.addr, k) ELSE Resting(t.addr, k)
       [] ccu_state[c] = "COMPLETE" ->
            /\ k > 0 /\ value[c] >= cfg[c].upper /\ value[c] < cfg[c].upper + cfg[c].step
            /\ \A l \in LeavesOf(c) : Resting(l.addr, k)
       [] OTHER -> FALSE

DriverInv(c) == \E k \in Nat : LapOf(c, k)

CompleteUnder(c) == {d \in Under(nest, c) : ccu_state[d] = "COMPLETE"}

OuterInv(c) ==
  \/ /\ ccu_state[c] = "RUNNING" /\ value[c] = cfg[c].lower
     /\ received[c] = Cardinality(CompleteUnder(c))
  \/ ccu_state[c] = "COMPLETE" /\ \A d \in Under(nest, c) : ccu_state[d] = "COMPLETE"

(* A CCU without a configuration may be restarted as a child of CCU 0, and *)
(* completes with the next completion from another CGRA.                   *)
IdleInv(c) ==
  /\ ccu_state[c] # "DISPATCHING" /\ value[c] = 0 /\ dispatch_idx[c] = 0
  /\ \/ ccu_state[c] # "RUNNING"
     \/ \A d \in Drivers(nest) : \A l \in LeavesOf(d) : ~l.remote
     \/ \A d \in InUse(nest) : ccu_state[d] = "RUNNING"

Awake ==
  /\ \A c \in Drivers(nest) : DriverInv(c)
  /\ \A c \in InUse(nest) \ Drivers(nest) : OuterInv(c)
  /\ \A c \in CCU \ InUse(nest) : IdleInv(c)

LoopInv ==
  /\ NestTypes /\ ConfigInv /\ LinksInv
  /\ IF pc < Len(nest) THEN Asleep ELSE Awake
-----------------------------------------------------------------------------
NestsProper == \A n \in Nests : Proper(n)

LEMMA CommandForms ==
  ASSUME NEW m \in NestCommand
  PROVE  /\ m.cmd # "LAUNCH" => m.ccu \in CCU
         /\ m.cmd \in {"LOWER", "UPPER", "STEP"} => m.n \in 0 .. (ValueLimit - 1)
         /\ m.cmd = "CHILD_COUNT" => m.n \in 0 .. (CountLimit - 1)
         /\ m.cmd = "PARENT" => m.root \in BOOLEAN /\ m.parent \in CCU
         /\ m.cmd = "TARGET" => m.target \in Target
         /\ m.cmd \in {"LOWER", "UPPER", "STEP", "CHILD_COUNT", "PARENT", "TARGET", "LAUNCH"}
  BY DEF NestCommand

LEMMA NestFacts ==
  ASSUME NestsProper, nest \in Nests
  PROVE  /\ Proper(nest)
         /\ nest \in Seq(NestCommand) /\ Len(nest) \in Nat \ {0}
         /\ \A j \in 1 .. Len(nest) :
              nest[j] \in NestCommand /\ (nest[j].cmd = "LAUNCH" <=> j = Len(nest))
<1>1. Proper(nest)
  BY DEF NestsProper
<1>2. /\ nest \in Seq(NestCommand) /\ Len(nest) > 0
      /\ \A j \in 1 .. Len(nest) : nest[j].cmd = "LAUNCH" <=> j = Len(nest)
  BY <1>1 DEF Proper
<1> QED BY <1>1, <1>2

(* The leaves and the deliveries of a CCU are targets of its own.          *)
LEMMA TargetFacts ==
  ASSUME NestsProper, nest \in Nests, NEW c \in CCU
  PROVE  /\ \A j \in TargetsOf(nest, c) : j \in 1 .. (Len(nest) - 1) /\ nest[j].target \in Target
         /\ \A l \in LeavesOf(c) : l \in Target /\ ~l.shadow /\ l.addr \in Addr
         /\ DeliveriesOf(c) \subseteq Addr
         /\ IsFiniteSet(LeavesOf(c))
         /\ LeavesOf(c) # {} => c \in Drivers(nest)
<1>1. ASSUME NEW j \in TargetsOf(nest, c)
      PROVE  /\ j \in 1 .. (Len(nest) - 1) /\ nest[j].target \in Target
             /\ nest[j].target.addr \in Addr /\ nest[j].ccu = c
  <2>1. j \in 1 .. Len(nest) /\ nest[j].cmd = "TARGET" /\ nest[j].ccu = c
    BY DEF TargetsOf
  <2>2. /\ Len(nest) \in Nat
        /\ nest[j] \in NestCommand /\ (nest[j].cmd = "LAUNCH" <=> j = Len(nest))
    BY <2>1, NestFacts
  <2>3. nest[j].target \in Target
    BY <2>1, <2>2, CommandForms
  <2> QED BY <2>1, <2>2, <2>3 DEF Target
<1>2. /\ \A l \in LeavesOf(c) : l \in Target /\ ~l.shadow /\ l.addr \in Addr
      /\ DeliveriesOf(c) \subseteq Addr
  BY <1>1 DEF LeavesOf, LeavesIn, DeliveriesOf
<1>3. IsFiniteSet(LeavesOf(c))
  <2> DEFINE J == {i \in TargetsOf(nest, c) : ~nest[i].target.shadow}
  <2>1. IsFiniteSet(1 .. Len(nest))
    BY NestFacts, FS_Interval
  <2>2. J \in SUBSET (1 .. Len(nest))
    BY DEF TargetsOf
  <2>3. IsFiniteSet(J)
    BY <2>1, <2>2, FS_Subset
  <2>4. LeavesOf(c) = {nest[j].target : j \in J}
    BY DEF LeavesOf, LeavesIn
  <2> HIDE DEF J
  <2>5. [j \in J |-> nest[j].target] \in Surjection(J, LeavesOf(c))
    BY <2>4 DEF Surjection
  <2> QED BY <2>3, <2>5, FS_Surjection
<1>4. LeavesOf(c) # {} => c \in Drivers(nest)
  BY <1>1 DEF Drivers, InUse, LeavesOf, LeavesIn
<1> QED BY <1>1, <1>2, <1>3, <1>4

LEMMA UsersAreCCUs ==
  ASSUME NestsProper, nest \in Nests
  PROVE  InUse(nest) \subseteq CCU /\ Drivers(nest) \subseteq InUse(nest)
<1>1. ASSUME NEW j \in 1 .. (Len(nest) - 1) PROVE nest[j].ccu \in CCU
  <2>1. Len(nest) \in Nat /\ j \in 1 .. Len(nest) /\ j # Len(nest)
    BY NestFacts
  <2>2. nest[j] \in NestCommand /\ nest[j].cmd # "LAUNCH"
    BY <2>1, NestFacts
  <2> QED BY <2>2, CommandForms
<1> QED BY <1>1 DEF InUse, Drivers

(* No two targets of a nest share an address.                              *)
LEMMA Apart ==
  ASSUME NestsProper, nest \in Nests, NEW c \in CCU, NEW d \in CCU
  PROVE  /\ \A i \in TargetsOf(nest, c), j \in TargetsOf(nest, d) :
              nest[i].target.addr = nest[j].target.addr => i = j /\ c = d
         /\ \A l \in LeavesOf(c), m \in LeavesOf(d) : l.addr = m.addr => l = m /\ c = d
         /\ \A a \in DeliveriesOf(c) : a \notin LeafAddrs /\ (a \in DeliveriesOf(d) => c = d)
<1>1. ASSUME NEW b \in CCU, NEW e \in CCU, NEW i \in TargetsOf(nest, b), NEW j \in TargetsOf(nest, e),
             nest[i].target.addr = nest[j].target.addr
      PROVE  i = j /\ b = e
  <2>1. /\ i \in 1 .. (Len(nest) - 1) /\ j \in 1 .. (Len(nest) - 1)
        /\ nest[i].cmd = "TARGET" /\ nest[i].ccu = b
        /\ nest[j].cmd = "TARGET" /\ nest[j].ccu = e
    BY TargetFacts DEF TargetsOf
  <2>2. i = j
    BY <1>1, <2>1, NestFacts DEF Proper
  <2> QED BY <2>1, <2>2
<1>2. \A l \in LeavesOf(c), m \in LeavesOf(d) : l.addr = m.addr => l = m /\ c = d
  BY <1>1 DEF LeavesOf, LeavesIn
<1>3. ASSUME NEW a \in DeliveriesOf(c) PROVE a \notin LeafAddrs /\ (a \in DeliveriesOf(d) => c = d)
  <2>1. PICK i \in TargetsOf(nest, c) : nest[i].target.shadow /\ a = nest[i].target.addr
    BY <1>3 DEF DeliveriesOf
  <2>2. ASSUME NEW e \in CCU, NEW l \in LeavesOf(e) PROVE l.addr # a
    <3>1. PICK j \in TargetsOf(nest, e) : l = nest[j].target /\ ~nest[j].target.shadow
      BY DEF LeavesOf, LeavesIn
    <3> QED BY <1>1, <2>1, <3>1
  <2>3. a \in DeliveriesOf(d) => c = d
    BY <1>1, <2>1 DEF DeliveriesOf
  <2> QED BY <2>2, <2>3 DEF LeafAddrs, Leaves
<1> QED BY <1>1, <1>2, <1>3
-----------------------------------------------------------------------------
(* Configuration: each command lands in its register, once.                *)
LEMMA NextCommand ==
  ASSUME NestsProper, NestTypes, pc < Len(nest)
  PROVE  /\ pc \in Nat /\ pc + 1 \in 1 .. Len(nest) /\ Len(nest) \in Nat
         /\ nest[pc + 1] \in NestCommand
         /\ nest[pc + 1].cmd = "LAUNCH" <=> pc + 1 = Len(nest)
         /\ \A j \in 1 .. pc : /\ j \in 1 .. (Len(nest) - 1) /\ nest[j] \in NestCommand
                               /\ nest[j].cmd # "LAUNCH"
         /\ nest[pc + 1].cmd \notin {"TARGET", "LAUNCH"} =>
              \A j \in 1 .. pc : ~(nest[j].cmd = nest[pc + 1].cmd /\ nest[j].ccu = nest[pc + 1].ccu)
<1>1. /\ pc \in Nat /\ Len(nest) \in Nat /\ pc + 1 \in 1 .. Len(nest)
      /\ \A j \in 1 .. pc : j \in 1 .. (Len(nest) - 1) /\ j \in 1 .. Len(nest) /\ j # Len(nest)
  BY NestFacts DEF NestTypes
<1>2. /\ nest[pc + 1] \in NestCommand
      /\ nest[pc + 1].cmd = "LAUNCH" <=> pc + 1 = Len(nest)
      /\ \A j \in 1 .. pc : nest[j] \in NestCommand /\ nest[j].cmd # "LAUNCH"
  BY <1>1, NestFacts DEF NestTypes
<1>3. ASSUME nest[pc + 1].cmd \notin {"TARGET", "LAUNCH"}, NEW j \in 1 .. pc,
             nest[j].cmd = nest[pc + 1].cmd, nest[j].ccu = nest[pc + 1].ccu
      PROVE  FALSE
  <2>1. j \in 1 .. (Len(nest) - 1) /\ pc + 1 \in 1 .. (Len(nest) - 1) /\ j # pc + 1
    BY <1>1, <1>2, <1>3
  <2>2. Proper(nest)
    BY NestFacts DEF NestTypes
  <2> QED BY <1>3, <2>1, <2>2 DEF Proper
<1> QED BY <1>1, <1>2, <1>3

LEMMA NextArrived ==
  ASSUME NestsProper, NestTypes, pc < Len(nest), pc' = pc + 1, nest' = nest, NEW c \in CCU,
         NEW register \in {"LOWER", "UPPER", "STEP", "CHILD_COUNT"}, NEW x, NEW y,
         Arrived(c, register, x),
         IF nest[pc + 1].cmd = register /\ nest[pc + 1].ccu = c THEN y = nest[pc + 1].n ELSE y = x
  PROVE  \A j \in 1 .. pc' : nest'[j].cmd = register /\ nest'[j].ccu = c => nest'[j].n = y
<1> SUFFICES ASSUME NEW j \in 1 .. (pc + 1), nest[j].cmd = register, nest[j].ccu = c
             PROVE  nest[j].n = y
  OBVIOUS
<1>1. CASE j = pc + 1
  BY <1>1
<1>2. CASE j # pc + 1
  <2>1. j \in 1 .. pc
    BY <1>2, NextCommand
  <2>2. ~(nest[pc + 1].cmd = register /\ nest[pc + 1].ccu = c)
    BY <2>1, NextCommand
  <2> QED BY <2>1, <2>2 DEF Arrived
<1> QED BY <1>1, <1>2

LEMMA NextParent ==
  ASSUME NestsProper, NestTypes, pc < Len(nest), pc' = pc + 1, nest' = nest, NEW c \in CCU,
         \A j \in 1 .. pc : nest[j].cmd = "PARENT" /\ nest[j].ccu = c =>
           cfg[c].root = nest[j].root /\ cfg[c].parent = nest[j].parent,
         IF nest[pc + 1].cmd = "PARENT" /\ nest[pc + 1].ccu = c
           THEN cfg'[c].root = nest[pc + 1].root /\ cfg'[c].parent = nest[pc + 1].parent
           ELSE cfg'[c].root = cfg[c].root /\ cfg'[c].parent = cfg[c].parent
  PROVE  \A j \in 1 .. pc' : nest'[j].cmd = "PARENT" /\ nest'[j].ccu = c =>
           cfg'[c].root = nest'[j].root /\ cfg'[c].parent = nest'[j].parent
<1> SUFFICES ASSUME NEW j \in 1 .. (pc + 1), nest[j].cmd = "PARENT", nest[j].ccu = c
             PROVE  cfg'[c].root = nest[j].root /\ cfg'[c].parent = nest[j].parent
  OBVIOUS
<1>1. CASE j = pc + 1
  BY <1>1
<1>2. CASE j # pc + 1
  <2>1. j \in 1 .. pc
    BY <1>2, NextCommand
  <2>2. ~(nest[pc + 1].cmd = "PARENT" /\ nest[pc + 1].ccu = c)
    BY <2>1, NextCommand
  <2> QED BY <2>1, <2>2
<1> QED BY <1>1, <1>2

LEMMA NextGiven ==
  ASSUME NestsProper, NestTypes, pc < Len(nest), pc' = pc + 1, nest' = nest, NEW c \in CCU, Given(c),
         cfg'[c].targets = IF nest[pc + 1].cmd = "TARGET" /\ nest[pc + 1].ccu = c
                             THEN Append(cfg[c].targets, nest[pc + 1].target) ELSE cfg[c].targets
  PROVE  Given(c)'
<1> DEFINE ts == cfg[c].targets
           new == cfg'[c].targets
           t == nest[pc + 1].target
           Past == {j \in TargetsOf(nest, c) : j <= pc}
<1>1. /\ pc \in Nat /\ pc + 1 \in 1 .. Len(nest) /\ Len(nest) \in Nat /\ ts \in Seq(Target)
      /\ nest[pc + 1] \in NestCommand
  BY NextCommand DEF NestTypes, CcuConfig
<1>2. /\ TargetsOf(nest, c)' = TargetsOf(nest, c) /\ TargetsOf(nest, c) \subseteq 1 .. Len(nest)
      /\ pc + 1 \in TargetsOf(nest, c) <=> nest[pc + 1].cmd = "TARGET" /\ nest[pc + 1].ccu = c
  BY <1>1 DEF TargetsOf
<1>3. /\ \A i \in 1 .. Len(ts) : \E j \in Past : ts[i] = nest[j].target
      /\ \A j \in Past : \E i \in 1 .. Len(ts) : ts[i] = nest[j].target
      /\ \A i, k \in 1 .. Len(ts) : ts[i].addr = ts[k].addr => i = k
      /\ Len(ts) = Cardinality(Past)
  BY DEF Given
<1>4. IsFiniteSet(Past)
  <2>1. Past \in SUBSET (1 .. Len(nest)) /\ IsFiniteSet(1 .. Len(nest))
    BY <1>1, <1>2, FS_Interval
  <2> QED BY <2>1, FS_Subset
<1> DEFINE Now == {j \in TargetsOf(nest, c) : j <= pc + 1}
       Complete ==
         /\ \A i \in 1 .. Len(new) : \E j \in Now : new[i] = nest[j].target
         /\ \A j \in Now : \E i \in 1 .. Len(new) : new[i] = nest[j].target
         /\ \A i, k \in 1 .. Len(new) : new[i].addr = new[k].addr => i = k
         /\ Len(new) = Cardinality(Now)
<1>5. ASSUME pc + 1 \notin TargetsOf(nest, c) PROVE Complete
  <2>1. new = ts
    BY <1>2, <1>5
  <2>2. Now = Past
    BY <1>1, <1>2, <1>5
  <2> HIDE DEF ts, new, Past, Now
  <2> QED BY <1>3, <2>1, <2>2
<1>6. ASSUME pc + 1 \in TargetsOf(nest, c) PROVE Complete
  <2>1. /\ new = Append(ts, t) /\ Len(new) = Len(ts) + 1 /\ new[Len(ts) + 1] = t
        /\ \A i \in 1 .. Len(ts) : new[i] = ts[i]
        /\ Len(ts) \in Nat
    <3>1. t \in Target
      BY <1>1, <1>2, <1>6, CommandForms
    <3> QED BY <1>1, <1>2, <1>6, <3>1
  <2>2. /\ Now = Past \cup {pc + 1} /\ pc + 1 \notin Past
    BY <1>1, <1>2, <1>6
  <2>3. Cardinality(Now) = Cardinality(Past) + 1
    BY <1>4, <2>2, FS_AddElement
  <2>4. ASSUME NEW i \in 1 .. Len(ts) PROVE ts[i].addr # t.addr
    <3>1. PICK j \in Past : ts[i] = nest[j].target
      BY <1>3
    <3>2. j \in TargetsOf(nest, c) /\ j # pc + 1
      BY <2>2, <3>1
    <3>3. nest \in Nests
      BY DEF NestTypes
    <3> QED BY <1>6, <3>1, <3>2, <3>3, Apart
  <2> HIDE DEF ts, new, t, Past, Now
  <2>5. \A i \in 1 .. Len(new) : i \in 1 .. Len(ts) \/ i = Len(ts) + 1
    BY <2>1
  <2>6. /\ 1 .. Len(ts) \subseteq 1 .. Len(new) /\ Len(ts) + 1 \in 1 .. Len(new)
    BY <2>1
  <2>7. \A i \in 1 .. Len(new) : \E j \in Now : new[i] = nest[j].target
    <3> TAKE i \in 1 .. Len(new)
    <3>1. CASE i \in 1 .. Len(ts)
      <4>1. PICK j \in Past : ts[i] = nest[j].target
        BY <1>3, <3>1
      <4> QED BY <2>1, <2>2, <3>1, <4>1
    <3>2. CASE i = Len(ts) + 1
      BY <2>1, <2>2, <3>2 DEF t
    <3> QED BY <2>5, <3>1, <3>2
  <2>8. \A j \in Now : \E i \in 1 .. Len(new) : new[i] = nest[j].target
    <3> TAKE j \in Now
    <3>1. CASE j \in Past
      BY <1>3, <2>1, <2>6, <3>1
    <3>2. CASE j = pc + 1
      BY <2>1, <2>6, <3>2 DEF t
    <3> QED BY <2>2, <3>1, <3>2
  <2>9. \A i, k \in 1 .. Len(new) : new[i].addr = new[k].addr => i = k
    <3> TAKE i, k \in 1 .. Len(new)
    <3>1. CASE i \in 1 .. Len(ts) /\ k \in 1 .. Len(ts)
      BY <1>3, <2>1, <3>1
    <3>2. CASE i \in 1 .. Len(ts) /\ k = Len(ts) + 1
      BY <2>1, <2>4, <3>2
    <3>3. CASE i = Len(ts) + 1 /\ k \in 1 .. Len(ts)
      BY <2>1, <2>4, <3>3
    <3> QED BY <2>5, <3>1, <3>2, <3>3
  <2> QED BY <1>3, <2>1, <2>3, <2>7, <2>8, <2>9
<1>7. Complete
  BY <1>5, <1>6
<1>8. /\ {j \in TargetsOf(nest, c) : j <= pc}' = Now
      /\ nest' = nest /\ TargetsOf(nest, c)' = TargetsOf(nest, c) /\ pc' = pc + 1
  BY <1>2
<1>9. \A j : j \in Now <=> j \in TargetsOf(nest, c) /\ j <= pc + 1
  OBVIOUS
<1> HIDE DEF Now, new
<1>10. new = cfg'[c].targets
  BY DEF new
<1>11. \A i \in 1 .. Len(new) : \E j \in TargetsOf(nest', c) : j <= pc' /\ new[i] = nest'[j].target
  BY <1>7, <1>8, <1>9
<1>12. \A j \in TargetsOf(nest', c) : j <= pc' => \E i \in 1 .. Len(new) : new[i] = nest'[j].target
  BY <1>7, <1>8, <1>9
<1>13. Len(new) = Cardinality({j \in TargetsOf(nest', c) : j <= pc'})
  BY <1>7, <1>8
<1> QED BY <1>7, <1>10, <1>11, <1>12, <1>13 DEF Given

LEMMA ConfigStep ==
  ASSUME NestsProper, NestTypes, ConfigInv, pc < Len(nest), pc' = pc + 1, nest' = nest,
         configure(nest[pc + 1])
  PROVE  ConfigInv' /\ cfg' \in [CCU -> CcuConfig]
<1> DEFINE m == nest[pc + 1]
           At(cmd, c) == m.cmd = cmd /\ m.ccu = c
<1>1. /\ pc + 1 \in 1 .. Len(nest) /\ Len(nest) \in Nat /\ m \in NestCommand
      /\ m.cmd = "LAUNCH" <=> pc + 1 = Len(nest)
  BY NextCommand
<1>2. /\ m.cmd # "LAUNCH" => m.ccu \in CCU
      /\ m.cmd \in {"LOWER", "UPPER", "STEP"} => m.n \in 0 .. (ValueLimit - 1)
      /\ m.cmd = "CHILD_COUNT" => m.n \in 0 .. (CountLimit - 1)
      /\ m.cmd = "PARENT" => m.root \in BOOLEAN /\ m.parent \in CCU
      /\ m.cmd = "TARGET" => m.target \in Target
      /\ m.cmd \in {"LOWER", "UPPER", "STEP", "CHILD_COUNT", "PARENT", "TARGET", "LAUNCH"}
  BY <1>1, CommandForms
<1>3. cfg \in [CCU -> CcuConfig]
  BY DEF NestTypes
<1> HIDE DEF m
<1> DEFINE Config(lo, up, st, n, ts, r, p) ==
             [lower |-> lo, upper |-> up, step |-> st, child_count |-> n, targets |-> ts,
              root |-> r, parent |-> p]
           Becomes(rec) == cfg' = [cfg EXCEPT ![m.ccu] = rec]
           u == m.ccu
<1>a. ASSUME m.cmd # "LAUNCH"
      PROVE  /\ u \in CCU /\ cfg[u] \in CcuConfig
             /\ Becomes(Config(IF m.cmd = "LOWER" THEN m.n ELSE cfg[u].lower,
                               IF m.cmd = "UPPER" THEN m.n ELSE cfg[u].upper,
                               IF m.cmd = "STEP" THEN m.n ELSE cfg[u].step,
                               IF m.cmd = "CHILD_COUNT" THEN m.n ELSE cfg[u].child_count,
                               IF m.cmd = "TARGET" THEN Append(cfg[u].targets, m.target)
                                                   ELSE cfg[u].targets,
                               IF m.cmd = "PARENT" THEN m.root ELSE cfg[u].root,
                               IF m.cmd = "PARENT" THEN m.parent ELSE cfg[u].parent))
  <2>0. configure(m) /\ u \in CCU /\ cfg[u] \in CcuConfig
    BY <1>2, <1>3, <1>a DEF m
  <2>r. cfg[u] = Config(cfg[u].lower, cfg[u].upper, cfg[u].step, cfg[u].child_count,
                        cfg[u].targets, cfg[u].root, cfg[u].parent)
    BY <2>0 DEF CcuConfig
  <2>1. CASE m.cmd = "LOWER"
    <3>1. cfg' = [cfg EXCEPT ![m.ccu] = [@ EXCEPT !.lower = m.n]]
      BY <2>0, <2>1 DEF configure
    <3>2. [cfg[u] EXCEPT !.lower = m.n]
            = Config(m.n, cfg[u].upper, cfg[u].step, cfg[u].child_count,
                     cfg[u].targets, cfg[u].root, cfg[u].parent)
      BY <2>0 DEF CcuConfig
    <3> QED BY <2>0, <2>1, <3>1, <3>2
  <2>2. CASE m.cmd = "UPPER"
    <3>1. cfg' = [cfg EXCEPT ![m.ccu] = [@ EXCEPT !.upper = m.n]]
      BY <2>0, <2>2 DEF configure
    <3>2. [cfg[u] EXCEPT !.upper = m.n]
            = Config(cfg[u].lower, m.n, cfg[u].step, cfg[u].child_count,
                     cfg[u].targets, cfg[u].root, cfg[u].parent)
      BY <2>0 DEF CcuConfig
    <3> QED BY <2>0, <2>2, <3>1, <3>2
  <2>3. CASE m.cmd = "STEP"
    <3>1. cfg' = [cfg EXCEPT ![m.ccu] = [@ EXCEPT !.step = m.n]]
      BY <2>0, <2>3 DEF configure
    <3>2. [cfg[u] EXCEPT !.step = m.n]
            = Config(cfg[u].lower, cfg[u].upper, m.n, cfg[u].child_count,
                     cfg[u].targets, cfg[u].root, cfg[u].parent)
      BY <2>0 DEF CcuConfig
    <3> QED BY <2>0, <2>3, <3>1, <3>2
  <2>4. CASE m.cmd = "CHILD_COUNT"
    <3>1. cfg' = [cfg EXCEPT ![m.ccu] = [@ EXCEPT !.child_count = m.n]]
      BY <2>0, <2>4 DEF configure
    <3>2. [cfg[u] EXCEPT !.child_count = m.n]
            = Config(cfg[u].lower, cfg[u].upper, cfg[u].step, m.n,
                     cfg[u].targets, cfg[u].root, cfg[u].parent)
      BY <2>0 DEF CcuConfig
    <3> QED BY <2>0, <2>4, <3>1, <3>2
  <2>5. CASE m.cmd = "TARGET"
    <3>1. cfg' = [cfg EXCEPT ![m.ccu] = [@ EXCEPT !.targets = Append(cfg[m.ccu].targets, m.target)]]
      BY <2>0, <2>5 DEF configure
    <3> DEFINE ts == Append(cfg[u].targets, m.target)
    <3> HIDE DEF ts
    <3>2. [cfg[u] EXCEPT !.targets = ts]
            = Config(cfg[u].lower, cfg[u].upper, cfg[u].step, cfg[u].child_count,
                     ts, cfg[u].root, cfg[u].parent)
      BY <2>0 DEF CcuConfig
    <3> USE DEF ts
    <3> QED BY <2>0, <2>5, <3>1, <3>2
  <2>6. CASE m.cmd = "PARENT"
    <3>1. cfg' = [cfg EXCEPT ![m.ccu] = [@ EXCEPT !.parent = m.parent, !.root = m.root]]
      BY <2>0, <2>6 DEF configure
    <3>2. [cfg[u] EXCEPT !.parent = m.parent]
            = Config(cfg[u].lower, cfg[u].upper, cfg[u].step, cfg[u].child_count,
                     cfg[u].targets, cfg[u].root, m.parent)
      BY <2>0 DEF CcuConfig
    <3>3. [Config(cfg[u].lower, cfg[u].upper, cfg[u].step, cfg[u].child_count,
                  cfg[u].targets, cfg[u].root, m.parent) EXCEPT !.root = m.root]
            = Config(cfg[u].lower, cfg[u].upper, cfg[u].step, cfg[u].child_count,
                     cfg[u].targets, m.root, m.parent)
      OBVIOUS
    <3> QED BY <2>0, <2>6, <3>1, <3>2, <3>3
  <2> QED BY <1>2, <1>a, <2>1, <2>2, <2>3, <2>4, <2>5, <2>6
<1>b. m.cmd = "LAUNCH" => cfg' = cfg
  BY DEF m, configure
<1>4. ASSUME NEW c \in CCU
      PROVE  /\ cfg' \in [CCU -> CcuConfig]
             /\ cfg'[c].lower = IF At("LOWER", c) THEN m.n ELSE cfg[c].lower
             /\ cfg'[c].upper = IF At("UPPER", c) THEN m.n ELSE cfg[c].upper
             /\ cfg'[c].step = IF At("STEP", c) THEN m.n ELSE cfg[c].step
             /\ cfg'[c].child_count = IF At("CHILD_COUNT", c) THEN m.n ELSE cfg[c].child_count
             /\ cfg'[c].root = IF At("PARENT", c) THEN m.root ELSE cfg[c].root
             /\ cfg'[c].parent = IF At("PARENT", c) THEN m.parent ELSE cfg[c].parent
             /\ cfg'[c].targets = IF At("TARGET", c) THEN Append(cfg[c].targets, m.target)
                                  ELSE cfg[c].targets
             /\ m.cmd # "LAUNCH" /\ c # m.ccu => cfg'[c] = cfg[c]
             /\ m.cmd = "LAUNCH" => cfg' = cfg
  <2>1. CASE m.cmd = "LAUNCH"
    BY <1>3, <1>b, <2>1
  <2>2. CASE m.cmd # "LAUNCH"
    <3>1. m.cmd = "TARGET" => Append(cfg[u].targets, m.target) \in Seq(Target)
      BY <1>2, <1>a, <2>2 DEF CcuConfig
    <3> DEFINE lo == IF m.cmd = "LOWER" THEN m.n ELSE cfg[u].lower
               up == IF m.cmd = "UPPER" THEN m.n ELSE cfg[u].upper
               st == IF m.cmd = "STEP" THEN m.n ELSE cfg[u].step
               n == IF m.cmd = "CHILD_COUNT" THEN m.n ELSE cfg[u].child_count
               ts == IF m.cmd = "TARGET" THEN Append(cfg[u].targets, m.target)
                     ELSE cfg[u].targets
               r == IF m.cmd = "PARENT" THEN m.root ELSE cfg[u].root
               p == IF m.cmd = "PARENT" THEN m.parent ELSE cfg[u].parent
    <3>2. Becomes(Config(lo, up, st, n, ts, r, p))
      BY <1>a, <2>2
    <3>9. /\ lo \in 0 .. (ValueLimit - 1) /\ up \in 0 .. (ValueLimit - 1)
          /\ st \in 0 .. (ValueLimit - 1) /\ n \in 0 .. (CountLimit - 1)
          /\ ts \in Seq(Target) /\ r \in BOOLEAN /\ p \in CCU
      BY <1>2, <1>a, <2>2, <3>1 DEF CcuConfig
    <3> HIDE DEF lo, up, st, n, ts, r, p
    <3>3. Config(lo, up, st, n, ts, r, p) \in CcuConfig
      BY <3>9 DEF CcuConfig
    <3>4. cfg' \in [CCU -> CcuConfig]
      BY <1>3, <1>a, <2>2, <3>2, <3>3
    <3>5. ASSUME c = u
          PROVE  /\ cfg'[c].lower = lo /\ cfg'[c].upper = up /\ cfg'[c].step = st
                 /\ cfg'[c].child_count = n /\ cfg'[c].targets = ts
                 /\ cfg'[c].root = r /\ cfg'[c].parent = p
      BY <1>3, <1>a, <2>2, <3>2, <3>5
    <3>6. c # u => cfg'[c] = cfg[c]
      BY <1>3, <1>a, <2>2, <3>2
    <3> HIDE DEF Becomes, Config
    <3>7. CASE c = u
      BY <2>2, <3>4, <3>5, <3>7 DEF lo, up, st, n, ts, r, p
    <3>8. CASE c # u
      BY <2>2, <3>4, <3>6, <3>8
    <3> QED BY <3>7, <3>8
  <2> QED BY <2>1, <2>2
<1> HIDE DEF u, Becomes, Config
<1>5. cfg' \in [CCU -> CcuConfig]
  <2>1. 0 \in CCU
    BY LoopNestAssumption DEF CCU
  <2> QED BY <1>4, <2>1
<1>6. ASSUME NEW c \in CCU
      PROVE  /\ Arrived(c, "LOWER", cfg[c].lower)' /\ Arrived(c, "UPPER", cfg[c].upper)'
             /\ Arrived(c, "STEP", cfg[c].step)' /\ Arrived(c, "CHILD_COUNT", cfg[c].child_count)'
             /\ (\A j \in 1 .. pc : nest[j].cmd = "PARENT" /\ nest[j].ccu = c =>
                   cfg[c].root = nest[j].root /\ cfg[c].parent = nest[j].parent)'
             /\ Given(c)'
             /\ (c \notin InUse(nest) => cfg[c] = CcuReset)'
  <2>1. Arrived(c, "LOWER", cfg[c].lower)'
    <3>1. Arrived(c, "LOWER", cfg[c].lower)
      BY DEF ConfigInv
    <3>2. IF nest[pc + 1].cmd = "LOWER" /\ nest[pc + 1].ccu = c
            THEN cfg'[c].lower = nest[pc + 1].n ELSE cfg'[c].lower = cfg[c].lower
      BY <1>4 DEF m
    <3>3. \A j \in 1 .. pc' : nest'[j].cmd = "LOWER" /\ nest'[j].ccu = c => nest'[j].n = cfg'[c].lower
      BY <3>1, <3>2, NextArrived
    <3> QED BY <3>3 DEF Arrived
  <2>2. Arrived(c, "UPPER", cfg[c].upper)'
    <3>1. Arrived(c, "UPPER", cfg[c].upper)
      BY DEF ConfigInv
    <3>2. IF nest[pc + 1].cmd = "UPPER" /\ nest[pc + 1].ccu = c
            THEN cfg'[c].upper = nest[pc + 1].n ELSE cfg'[c].upper = cfg[c].upper
      BY <1>4 DEF m
    <3>3. \A j \in 1 .. pc' : nest'[j].cmd = "UPPER" /\ nest'[j].ccu = c => nest'[j].n = cfg'[c].upper
      BY <3>1, <3>2, NextArrived
    <3> QED BY <3>3 DEF Arrived
  <2>3. Arrived(c, "STEP", cfg[c].step)'
    <3>1. Arrived(c, "STEP", cfg[c].step)
      BY DEF ConfigInv
    <3>2. IF nest[pc + 1].cmd = "STEP" /\ nest[pc + 1].ccu = c
            THEN cfg'[c].step = nest[pc + 1].n ELSE cfg'[c].step = cfg[c].step
      BY <1>4 DEF m
    <3>3. \A j \in 1 .. pc' : nest'[j].cmd = "STEP" /\ nest'[j].ccu = c => nest'[j].n = cfg'[c].step
      BY <3>1, <3>2, NextArrived
    <3> QED BY <3>3 DEF Arrived
  <2>4. Arrived(c, "CHILD_COUNT", cfg[c].child_count)'
    <3>1. Arrived(c, "CHILD_COUNT", cfg[c].child_count)
      BY DEF ConfigInv
    <3>2. IF nest[pc + 1].cmd = "CHILD_COUNT" /\ nest[pc + 1].ccu = c
            THEN cfg'[c].child_count = nest[pc + 1].n ELSE cfg'[c].child_count = cfg[c].child_count
      BY <1>4 DEF m
    <3>3. \A j \in 1 .. pc' : nest'[j].cmd = "CHILD_COUNT" /\ nest'[j].ccu = c => nest'[j].n = cfg'[c].child_count
      BY <3>1, <3>2, NextArrived
    <3> QED BY <3>3 DEF Arrived
  <2>5. (\A j \in 1 .. pc : nest[j].cmd = "PARENT" /\ nest[j].ccu = c =>
           cfg[c].root = nest[j].root /\ cfg[c].parent = nest[j].parent)'
    <3>1. \A j \in 1 .. pc : nest[j].cmd = "PARENT" /\ nest[j].ccu = c =>
            cfg[c].root = nest[j].root /\ cfg[c].parent = nest[j].parent
      BY DEF ConfigInv
    <3>2. IF nest[pc + 1].cmd = "PARENT" /\ nest[pc + 1].ccu = c
            THEN cfg'[c].root = nest[pc + 1].root /\ cfg'[c].parent = nest[pc + 1].parent
            ELSE cfg'[c].root = cfg[c].root /\ cfg'[c].parent = cfg[c].parent
      BY <1>4 DEF m
    <3>3. \A j \in 1 .. pc' : nest'[j].cmd = "PARENT" /\ nest'[j].ccu = c =>
            cfg'[c].root = nest'[j].root /\ cfg'[c].parent = nest'[j].parent
      BY <3>1, <3>2, NextParent
    <3> QED BY <3>3
  <2>6. Given(c)'
    <3>1. Given(c)
      BY DEF ConfigInv
    <3>2. cfg'[c].targets = IF nest[pc + 1].cmd = "TARGET" /\ nest[pc + 1].ccu = c
                              THEN Append(cfg[c].targets, nest[pc + 1].target) ELSE cfg[c].targets
      BY <1>4 DEF m
    <3> QED BY <3>1, <3>2, NextGiven
  <2>7. (c \notin InUse(nest) => cfg[c] = CcuReset)'
    <3> SUFFICES ASSUME c \notin InUse(nest) PROVE cfg'[c] = CcuReset
      BY DEF InUse
    <3>1. cfg[c] = CcuReset
      BY DEF ConfigInv
    <3>2. m.cmd # "LAUNCH" => m.ccu # c
      BY <1>1 DEF m, InUse
    <3> QED BY <1>4, <3>1, <3>2
  <2> QED BY <2>1, <2>2, <2>3, <2>4, <2>5, <2>6, <2>7
<1> QED BY <1>5, <1>6 DEF ConfigInv

-----------------------------------------------------------------------------
(* A configured nest: every register a CCU in use needs has been set.      *)
Configured ==
  NestsProper /\ NestTypes /\ ConfigInv /\ pc >= Len(nest) - 1

LEMMA SetsRegister ==
  ASSUME Configured, NEW c \in CCU, NEW x
  PROVE  /\ Sets(nest, c, "LOWER", x) => cfg[c].lower = x
         /\ Sets(nest, c, "UPPER", x) => cfg[c].upper = x
         /\ Sets(nest, c, "STEP", x) => cfg[c].step = x
         /\ Sets(nest, c, "CHILD_COUNT", x) => cfg[c].child_count = x
         /\ \A r, p : Attached(nest, c, r, p) => cfg[c].root = r /\ cfg[c].parent = p
<1>1. \A j \in 1 .. (Len(nest) - 1) : j \in 1 .. pc
  BY NestFacts DEF Configured, NestTypes
<1>2. /\ Arrived(c, "LOWER", cfg[c].lower) /\ Arrived(c, "UPPER", cfg[c].upper)
      /\ Arrived(c, "STEP", cfg[c].step) /\ Arrived(c, "CHILD_COUNT", cfg[c].child_count)
      /\ \A j \in 1 .. pc : nest[j].cmd = "PARENT" /\ nest[j].ccu = c =>
           cfg[c].root = nest[j].root /\ cfg[c].parent = nest[j].parent
  BY DEF Configured, ConfigInv
<1>3. ASSUME NEW r, NEW p, Attached(nest, c, r, p)
      PROVE  cfg[c].root = r /\ cfg[c].parent = p
  <2>1. PICK j \in 1 .. (Len(nest) - 1) :
          nest[j].cmd = "PARENT" /\ nest[j].ccu = c /\ nest[j].root = r /\ nest[j].parent = p
    BY <1>3 DEF Attached
  <2> QED BY <1>1, <1>2, <2>1
<1>4. ASSUME NEW register, NEW y, Arrived(c, register, y), Sets(nest, c, register, x)
      PROVE  y = x
  BY <1>1, <1>4 DEF Arrived, Sets
<1> QED BY <1>2, <1>3, <1>4

LEMMA Settled ==
  ASSUME Configured, NEW c \in InUse(nest)
  PROVE  /\ c \in CCU /\ cfg[c] \in CcuConfig
         /\ cfg[c].step > 0 /\ cfg[c].lower < cfg[c].upper
         /\ cfg[c].upper + cfg[c].step <= ValueLimit
         /\ Len(cfg[c].targets) < MaxTargets
         /\ c \in Drivers(nest) =>
              /\ cfg[c].child_count = Cardinality(LeavesOf(c))
              /\ cfg[c].root \/ cfg[c].parent \in InUse(nest) \ Drivers(nest)
         /\ c \notin Drivers(nest) =>
              /\ cfg[c].root /\ cfg[c].lower + cfg[c].step >= cfg[c].upper
              /\ Under(nest, c) # {} /\ cfg[c].child_count = Cardinality(Under(nest, c))
<1>1. /\ NestsProper /\ nest \in Nests /\ cfg \in [CCU -> CcuConfig] /\ pc \in 0 .. Len(nest)
      /\ pc >= Len(nest) - 1
  BY DEF Configured, NestTypes
<1>2. c \in CCU /\ cfg[c] \in CcuConfig
  BY <1>1, UsersAreCCUs
<1>3. ProperLoop(nest, c)
  BY <1>1, NestFacts DEF Proper
<1>4. PICK lower \in 0 .. (ValueLimit - 1), upper \in 0 .. (ValueLimit - 1),
           step \in 0 .. (ValueLimit - 1) :
       /\ Sets(nest, c, "LOWER", lower) /\ Sets(nest, c, "UPPER", upper)
       /\ Sets(nest, c, "STEP", step)
       /\ step > 0 /\ lower < upper /\ upper + step <= ValueLimit
       /\ \/ /\ c \in Drivers(nest)
             /\ Sets(nest, c, "CHILD_COUNT", Cardinality(LeavesIn(nest, c)))
             /\ \/ \E p \in CCU : Attached(nest, c, TRUE, p)
                \/ \E p \in InUse(nest) \ Drivers(nest) : Attached(nest, c, FALSE, p)
          \/ /\ c \notin Drivers(nest) /\ lower + step >= upper
             /\ Under(nest, c) # {}
             /\ Sets(nest, c, "CHILD_COUNT", Cardinality(Under(nest, c)))
             /\ \E p \in CCU : Attached(nest, c, TRUE, p)
  BY <1>3 DEF ProperLoop
<1>5. cfg[c].lower = lower /\ cfg[c].upper = upper /\ cfg[c].step = step
  BY <1>2, <1>4, SetsRegister
<1>6. Len(cfg[c].targets) < MaxTargets
  <2>1. Given(c)
    BY <1>2 DEF Configured, ConfigInv
  <2>2. {j \in TargetsOf(nest, c) : j <= pc} = TargetsOf(nest, c)
    <3>1. \A j \in TargetsOf(nest, c) : j \in 1 .. (Len(nest) - 1)
      BY <1>1, <1>2, TargetFacts
    <3>2. Len(nest) \in Nat
      BY <1>1, NestFacts
    <3> QED BY <1>1, <3>1, <3>2
  <2>3. Len(cfg[c].targets) = Cardinality({j \in TargetsOf(nest, c) : j <= pc})
    BY <2>1 DEF Given
  <2> QED BY <1>3, <2>2, <2>3 DEF ProperLoop
<1>7. ASSUME c \in Drivers(nest)
      PROVE  /\ cfg[c].child_count = Cardinality(LeavesOf(c))
             /\ cfg[c].root \/ cfg[c].parent \in InUse(nest) \ Drivers(nest)
  <2>1. /\ Sets(nest, c, "CHILD_COUNT", Cardinality(LeavesIn(nest, c)))
        /\ \/ \E p \in CCU : Attached(nest, c, TRUE, p)
           \/ \E p \in InUse(nest) \ Drivers(nest) : Attached(nest, c, FALSE, p)
    BY <1>4, <1>7
  <2>2. cfg[c].child_count = Cardinality(LeavesIn(nest, c))
    BY <1>2, <2>1, SetsRegister
  <2>3. cfg[c].root \/ cfg[c].parent \in InUse(nest) \ Drivers(nest)
    BY <1>2, <2>1, SetsRegister
  <2> QED BY <2>2, <2>3 DEF LeavesOf
<1>8. ASSUME c \notin Drivers(nest)
      PROVE  /\ cfg[c].root /\ cfg[c].lower + cfg[c].step >= cfg[c].upper
             /\ Under(nest, c) # {} /\ cfg[c].child_count = Cardinality(Under(nest, c))
  <2>1. /\ lower + step >= upper /\ Under(nest, c) # {}
        /\ Sets(nest, c, "CHILD_COUNT", Cardinality(Under(nest, c)))
        /\ \E p \in CCU : Attached(nest, c, TRUE, p)
    BY <1>4, <1>8
  <2>2. cfg[c].child_count = Cardinality(Under(nest, c))
    BY <1>2, <2>1, SetsRegister
  <2>3. cfg[c].root
    BY <1>2, <2>1, SetsRegister
  <2> QED BY <1>5, <2>1, <2>2, <2>3
<1> QED BY <1>2, <1>4, <1>5, <1>6, <1>7, <1>8

LEMMA TargetsAre ==
  ASSUME Configured, NEW c \in CCU
  PROVE  /\ Len(cfg[c].targets) \in Nat
         /\ \A i \in 1 .. Len(cfg[c].targets) :
              /\ cfg[c].targets[i] \in Target
              /\ IF cfg[c].targets[i].shadow THEN cfg[c].targets[i].addr \in DeliveriesOf(c)
                 ELSE cfg[c].targets[i] \in LeavesOf(c)
         /\ \A l \in LeavesOf(c) : \E i \in 1 .. Len(cfg[c].targets) : cfg[c].targets[i] = l
         /\ \A a \in DeliveriesOf(c) : \E i \in 1 .. Len(cfg[c].targets) :
              cfg[c].targets[i].shadow /\ cfg[c].targets[i].addr = a
         /\ \A i, k \in 1 .. Len(cfg[c].targets) :
              cfg[c].targets[i].addr = cfg[c].targets[k].addr => i = k
<1> DEFINE ts == cfg[c].targets
<1>1. /\ NestsProper /\ nest \in Nests /\ cfg \in [CCU -> CcuConfig] /\ pc >= Len(nest) - 1
      /\ Len(nest) \in Nat /\ pc \in Nat /\ Given(c)
  BY NestFacts DEF Configured, NestTypes, ConfigInv
<1>2. ts \in Seq(Target)
  BY <1>1 DEF CcuConfig
<1>3. \A j \in TargetsOf(nest, c) : j <= pc
  BY <1>1, TargetFacts
<1>4. /\ \A i \in 1 .. Len(ts) : \E j \in TargetsOf(nest, c) : ts[i] = nest[j].target
      /\ \A j \in TargetsOf(nest, c) : \E i \in 1 .. Len(ts) : ts[i] = nest[j].target
      /\ \A i, k \in 1 .. Len(ts) : ts[i].addr = ts[k].addr => i = k
  BY <1>1, <1>3 DEF Given
<1>5. Len(ts) \in Nat /\ \A i \in 1 .. Len(ts) : ts[i] \in Target
  BY <1>2
<1> HIDE DEF ts
<1>6. ASSUME NEW i \in 1 .. Len(ts)
      PROVE  IF ts[i].shadow THEN ts[i].addr \in DeliveriesOf(c) ELSE ts[i] \in LeavesOf(c)
  <2>1. PICK j \in TargetsOf(nest, c) : ts[i] = nest[j].target
    BY <1>4
  <2> QED BY <2>1 DEF DeliveriesOf, LeavesOf, LeavesIn
<1>7. ASSUME NEW l \in LeavesOf(c) PROVE \E i \in 1 .. Len(ts) : ts[i] = l
  <2>1. PICK j \in TargetsOf(nest, c) : l = nest[j].target
    BY DEF LeavesOf, LeavesIn
  <2> QED BY <1>4, <2>1
<1>8. ASSUME NEW a \in DeliveriesOf(c) PROVE \E i \in 1 .. Len(ts) : ts[i].shadow /\ ts[i].addr = a
  <2>1. PICK j \in TargetsOf(nest, c) : nest[j].target.shadow /\ a = nest[j].target.addr
    BY DEF DeliveriesOf
  <2> QED BY <1>4, <2>1
<1> QED BY <1>4, <1>5, <1>6, <1>7, <1>8 DEF ts

LEMMA UnderIs ==
  ASSUME Configured, NEW p \in CCU
  PROVE  /\ \A d \in CCU :
              d \in Under(nest, p) <=> d \in Drivers(nest) /\ ~cfg[d].root /\ cfg[d].parent = p
         /\ Under(nest, p) \subseteq Drivers(nest) /\ Under(nest, p) \subseteq CCU
         /\ IsFiniteSet(Under(nest, p))
<1>1. NestsProper /\ nest \in Nests
  BY DEF Configured, NestTypes
<1>2. Under(nest, p) \subseteq Drivers(nest) /\ Under(nest, p) \subseteq CCU
  BY <1>1, UsersAreCCUs DEF Under
<1>3. IsFiniteSet(Under(nest, p))
  <2>1. IsFiniteSet(CCU)
    BY LoopNestAssumption, FS_Interval DEF CCU
  <2> QED BY <1>2, <2>1, FS_Subset
<1>4. ASSUME NEW d \in Under(nest, p) PROVE d \in Drivers(nest) /\ ~cfg[d].root /\ cfg[d].parent = p
  <2>1. d \in CCU /\ Attached(nest, d, FALSE, p)
    BY <1>2 DEF Under
  <2> QED BY <1>2, <2>1, SetsRegister
<1>5. ASSUME NEW d \in Drivers(nest), ~cfg[d].root, cfg[d].parent = p PROVE d \in Under(nest, p)
  <2>1. d \in CCU /\ ProperLoop(nest, d)
    BY <1>1, UsersAreCCUs, NestFacts DEF Proper, Drivers
  <2>2. \/ \E q \in CCU : Attached(nest, d, TRUE, q)
        \/ \E q \in InUse(nest) \ Drivers(nest) : Attached(nest, d, FALSE, q)
    BY <2>1 DEF ProperLoop
  <2>3. ~ \E q \in CCU : Attached(nest, d, TRUE, q)
    BY <1>5, <2>1, SetsRegister
  <2>4. PICK q \in InUse(nest) \ Drivers(nest) : Attached(nest, d, FALSE, q)
    BY <2>2, <2>3
  <2>5. q = p
    BY <1>5, <2>1, <2>4, SetsRegister
  <2> QED BY <2>4, <2>5 DEF Under
<1> QED BY <1>2, <1>3, <1>4, <1>5

-----------------------------------------------------------------------------
(* What a step of the links or of the leaves leaves alone.                 *)
Holds(s, a) == \E i \in 1 .. Len(s) : s[i] = a

LEMMA Elements ==
  ASSUME NEW s \in Seq(Addr), NEW t \in Seq(Addr), NEW a
  PROVE  Holds(s \o t, a) <=> Holds(s, a) \/ Holds(t, a)
<1>1. /\ Len(s) \in Nat /\ Len(t) \in Nat /\ Len(s \o t) = Len(s) + Len(t)
      /\ \A i \in 1 .. Len(s) + Len(t) :
           (s \o t)[i] = IF i <= Len(s) THEN s[i] ELSE t[i - Len(s)]
  BY ConcatProperties
<1>2. ASSUME NEW i \in 1 .. Len(s \o t), (s \o t)[i] = a
      PROVE  (\E j \in 1 .. Len(s) : s[j] = a) \/ (\E j \in 1 .. Len(t) : t[j] = a)
  <2>1. CASE i <= Len(s)
    BY <1>1, <1>2, <2>1
  <2>2. CASE ~(i <= Len(s))
    <3>1. i - Len(s) \in 1 .. Len(t)
      BY <1>1, <2>2
    <3> QED BY <1>1, <1>2, <2>2, <3>1
  <2> QED BY <2>1, <2>2
<1>3. ASSUME NEW i \in 1 .. Len(s), s[i] = a PROVE \E j \in 1 .. Len(s \o t) : (s \o t)[j] = a
  BY <1>1, <1>3
<1>4. ASSUME NEW i \in 1 .. Len(t), t[i] = a PROVE \E j \in 1 .. Len(s \o t) : (s \o t)[j] = a
  <2>1. /\ i + Len(s) \in 1 .. Len(s) + Len(t) /\ ~(i + Len(s) <= Len(s))
        /\ (i + Len(s)) - Len(s) = i
    BY <1>1
  <2> QED BY <1>1, <1>4, <2>1
<1>5. Holds(s \o t, a) => Holds(s, a) \/ Holds(t, a)
  BY <1>2 DEF Holds
<1>6. Holds(s, a) \/ Holds(t, a) => Holds(s \o t, a)
  BY <1>3, <1>4 DEF Holds
<1> QED BY <1>5, <1>6

LEMMA CountedIs ==
  ASSUME NestTypes, NEW a
  PROVE  Counted(a) <=> Finished(a) /\ ~Reported(a)
<1>1. from_tile \in Seq(Addr) /\ from_remote \in Seq(Addr)
  BY DEF NestTypes
<1>2. (\E i \in 1 .. Len(from_tile \o from_remote) : (from_tile \o from_remote)[i] = a)
      <=> Reported(a)
  <2>1. Holds(from_tile \o from_remote, a) <=> Holds(from_tile, a) \/ Holds(from_remote, a)
    BY <1>1, Elements
  <2> QED BY <2>1, Zenon DEF Holds, Reported
<1> QED BY <1>2 DEF Counted

LEMMA CountedNext ==
  ASSUME NestTypes', NEW a
  PROVE  Counted(a)' <=> Finished(a)' /\ ~Reported(a)'
BY CountedIs, PTL

KeepsLeaf(a) ==
  /\ Counted(a)' <=> Counted(a)
  /\ \A k \in Nat : (Ran(a, k) => Ran(a, k)') /\ (Resting(a, k) => Resting(a, k)')

KeepsDelivery(a) == \A v \in 0 .. (ValueLimit - 1) : Delivered(a, v) => Delivered(a, v)'

LEMMA Untouched ==
  ASSUME NestTypes, NestTypes', NEW a, to_dcu'[a] = to_dcu[a], already_done'[a] = already_done[a],
         runs'[a] = runs[a], shadow'[a] = shadow[a], Reported(a)' <=> Reported(a)
  PROVE  KeepsLeaf(a) /\ KeepsDelivery(a)
<1>1. Finished(a)' <=> Finished(a)
  BY DEF Finished, ResetPending
<1>2. Counted(a) <=> Finished(a) /\ ~Reported(a)
  BY CountedIs
<1>3. Counted(a)' <=> Finished(a)' /\ ~Reported(a)'
  BY CountedIs, PTL
<1>4. ASSUME NEW k \in Nat PROVE (Ran(a, k) => Ran(a, k)') /\ (Resting(a, k) => Resting(a, k)')
  BY <1>1 DEF Ran, Resting
<1>5. ASSUME NEW v \in 0 .. (ValueLimit - 1) PROVE Delivered(a, v) => Delivered(a, v)'
  BY DEF Delivered, Update
<1> QED BY <1>1, <1>2, <1>3, <1>4, <1>5 DEF KeepsLeaf, KeepsDelivery

LEMMA ShapeKept ==
  ASSUME nest' = nest
  PROVE  /\ \A c : LeavesOf(c)' = LeavesOf(c) /\ DeliveriesOf(c)' = DeliveriesOf(c)
         /\ Drivers(nest)' = Drivers(nest) /\ InUse(nest)' = InUse(nest) /\ Leaves' = Leaves
         /\ \A c : Under(nest, c)' = Under(nest, c)
<1>1. \A c : LeavesOf(c)' = LeavesOf(c) /\ DeliveriesOf(c)' = DeliveriesOf(c)
  BY DEF LeavesOf, LeavesIn, TargetsOf, DeliveriesOf
<1>2. Drivers(nest)' = Drivers(nest) /\ InUse(nest)' = InUse(nest)
  BY DEF Drivers, InUse, LeavesIn, TargetsOf
<1>3. \A c : Under(nest, c)' = Under(nest, c)
  BY <1>2 DEF Under, Attached
<1>4. Leaves' = Leaves
  BY <1>1 DEF Leaves
<1> QED BY <1>1, <1>2, <1>3, <1>4

LEMMA ConfigKept ==
  ASSUME ConfigInv, nest' = nest, pc' = pc, cfg' = cfg
  PROVE  ConfigInv'
<1> SUFFICES ASSUME NEW c \in CCU
             PROVE  /\ Arrived(c, "LOWER", cfg[c].lower)' /\ Arrived(c, "UPPER", cfg[c].upper)'
                    /\ Arrived(c, "STEP", cfg[c].step)'
                    /\ Arrived(c, "CHILD_COUNT", cfg[c].child_count)'
                    /\ (\A j \in 1 .. pc : nest[j].cmd = "PARENT" /\ nest[j].ccu = c =>
                          cfg[c].root = nest[j].root /\ cfg[c].parent = nest[j].parent)'
                    /\ Given(c)'
                    /\ (c \notin InUse(nest) => cfg[c] = CcuReset)'
  BY DEF ConfigInv
<1>1. /\ Arrived(c, "LOWER", cfg[c].lower)' /\ Arrived(c, "UPPER", cfg[c].upper)'
      /\ Arrived(c, "STEP", cfg[c].step)' /\ Arrived(c, "CHILD_COUNT", cfg[c].child_count)'
  BY DEF ConfigInv, Arrived
<1>2. (\A j \in 1 .. pc : nest[j].cmd = "PARENT" /\ nest[j].ccu = c =>
         cfg[c].root = nest[j].root /\ cfg[c].parent = nest[j].parent)'
  BY DEF ConfigInv
<1>3. Given(c)'
  <2>1. Given(c)
    BY DEF ConfigInv
  <2>2. TargetsOf(nest', c) = TargetsOf(nest, c)
    OBVIOUS
  <2>3. {j \in TargetsOf(nest, c) : j <= pc}' = {j \in TargetsOf(nest, c) : j <= pc}
    BY <2>2
  <2> QED BY <2>1, <2>2, <2>3 DEF Given
<1>4. (c \notin InUse(nest) => cfg[c] = CcuReset)'
  BY DEF ConfigInv, InUse, CcuReset
<1> QED BY <1>1, <1>2, <1>3, <1>4

(* A driver that does not move keeps its lap.                              *)
LEMMA LapKept ==
  ASSUME Configured, NEW c \in CCU, NEW k \in Nat, LapOf(c, k),
         nest' = nest, cfg' = cfg, value'[c] = value[c], ccu_state'[c] = ccu_state[c],
         received'[c] = received[c], dispatch_idx'[c] = dispatch_idx[c],
         \A l \in LeavesOf(c) : KeepsLeaf(l.addr), \A a \in DeliveriesOf(c) : KeepsDelivery(a)
  PROVE  LapOf(c, k)'
<1> DEFINE ts == cfg[c].targets
<1>1. LeavesOf(c)' = LeavesOf(c) /\ DeliveriesOf(c)' = DeliveriesOf(c)
  BY ShapeKept
<1>2. value[c] \in 0 .. (ValueLimit - 1)
  BY DEF Configured, NestTypes
<1>3. /\ \A l \in LeavesOf(c) : (Counted(l.addr)' <=> Counted(l.addr))
      /\ \A l \in LeavesOf(c) : Ran(l.addr, k) => Ran(l.addr, k)'
      /\ \A l \in LeavesOf(c) : Resting(l.addr, k) => Resting(l.addr, k)'
      /\ \A l \in LeavesOf(c) : Going(l.addr, k) => Going(l.addr, k)'
  BY DEF KeepsLeaf, Going
<1>4. \A a \in DeliveriesOf(c) : Delivered(a, value[c]) => Delivered(a, value[c])'
  BY <1>2 DEF KeepsDelivery
<1>5. CountedLeaves(c)' = CountedLeaves(c)
  BY <1>1, <1>3 DEF CountedLeaves
<1>6. \A i \in 1 .. Len(ts) : IF ts[i].shadow THEN ts[i].addr \in DeliveriesOf(c)
                              ELSE ts[i] \in LeavesOf(c)
  BY TargetsAre
<1>7. value[c] = cfg[c].lower + k * cfg[c].step
  BY DEF LapOf
<1>a. ccu_state[c] \in {"RUNNING", "DISPATCHING", "COMPLETE"}
  BY DEF LapOf
<1>8. CASE ccu_state[c] = "RUNNING"
  <2>1. /\ value[c] < cfg[c].upper
        /\ received[c] = Cardinality(CountedLeaves(c))
        /\ \A l \in LeavesOf(c) : Ran(l.addr, k)
        /\ k > 0 => \A a \in DeliveriesOf(c) : Delivered(a, value[c])
    BY <1>8 DEF LapOf
  <2>2. /\ (value[c] < cfg[c].upper)'
        /\ (received[c] = Cardinality(CountedLeaves(c)))'
        /\ (\A l \in LeavesOf(c) : Ran(l.addr, k))'
    BY <1>1, <1>3, <1>5, <2>1
  <2>3. (k > 0 => \A a \in DeliveriesOf(c) : Delivered(a, value[c]))'
    <3>1. ASSUME k > 0, NEW a \in DeliveriesOf(c) PROVE Delivered(a, value[c])'
      BY <1>4, <2>1, <3>1
    <3> QED BY <1>1, <3>1
  <2> QED BY <1>7, <1>8, <2>2, <2>3 DEF LapOf
<1>9. CASE ccu_state[c] = "DISPATCHING"
  <2>1. /\ k > 0 /\ value[c] < cfg[c].upper
        /\ dispatch_idx[c] < Len(ts)
        /\ \A i \in 1 .. Len(ts) :
             IF ts[i].shadow THEN i <= dispatch_idx[c] => Delivered(ts[i].addr, value[c])
             ELSE IF i <= dispatch_idx[c] THEN Going(ts[i].addr, k) ELSE Resting(ts[i].addr, k)
    BY <1>9 DEF LapOf
  <2>2. ASSUME NEW i \in 1 .. Len(ts)
        PROVE  (IF ts[i].shadow THEN i <= dispatch_idx[c] => Delivered(ts[i].addr, value[c])
                ELSE IF i <= dispatch_idx[c] THEN Going(ts[i].addr, k)
                     ELSE Resting(ts[i].addr, k))'
    <3>1. CASE ts[i].shadow
      <4>1. Delivered(ts[i].addr, value[c]) => Delivered(ts[i].addr, value[c])'
        BY <1>4, <1>6, <3>1
      <4> HIDE DEF Delivered
      <4> QED BY <2>1, <3>1, <4>1
    <3>2. CASE ~ts[i].shadow
      <4>1. /\ Going(ts[i].addr, k) => Going(ts[i].addr, k)'
            /\ Resting(ts[i].addr, k) => Resting(ts[i].addr, k)'
        BY <1>3, <1>6, <3>2
      <4> QED BY <2>1, <3>2, <4>1
    <3> QED BY <3>1, <3>2
  <2>3. (/\ k > 0 /\ value[c] < cfg[c].upper
         /\ dispatch_idx[c] < Len(ts))'
    BY <2>1
  <2> QED BY <1>7, <1>9, <2>2, <2>3 DEF LapOf
<1>10. CASE ccu_state[c] = "COMPLETE"
  <2>1. /\ k > 0 /\ value[c] >= cfg[c].upper /\ value[c] < cfg[c].upper + cfg[c].step
        /\ \A l \in LeavesOf(c) : Resting(l.addr, k)
    BY <1>10 DEF LapOf
  <2>2. (\A l \in LeavesOf(c) : Resting(l.addr, k))'
    BY <1>1, <1>3, <2>1
  <2> QED BY <1>7, <1>10, <2>1, <2>2 DEF LapOf
<1> QED BY <1>a, <1>8, <1>9, <1>10

(* A step that leaves the controller alone and no leaf behind.             *)
LEMMA AwakeKept ==
  ASSUME Configured, Awake, UNCHANGED lc_vars, nest' = nest,
         \A l \in Leaves : KeepsLeaf(l.addr),
         \A c \in CCU : \A a \in DeliveriesOf(c) : KeepsDelivery(a)
  PROVE  Awake'
<1>1. /\ Drivers(nest)' = Drivers(nest) /\ InUse(nest)' = InUse(nest)
      /\ \A c : LeavesOf(c)' = LeavesOf(c) /\ Under(nest, c)' = Under(nest, c)
  BY ShapeKept
<1>2. /\ cfg' = cfg /\ value' = value /\ ccu_state' = ccu_state /\ received' = received
      /\ dispatch_idx' = dispatch_idx
  BY DEF lc_vars
<1>5. ASSUME NEW c \in Drivers(nest) PROVE DriverInv(c)'
  <2>1. c \in CCU
    BY UsersAreCCUs DEF Configured, NestTypes
  <2>2. PICK k \in Nat : LapOf(c, k)
    BY DEF Awake, DriverInv
  <2>3. \A l \in LeavesOf(c) : KeepsLeaf(l.addr)
    BY <2>1 DEF Leaves
  <2>4. LapOf(c, k)'
    BY <1>2, <2>1, <2>2, <2>3, LapKept
  <2> QED BY <2>4 DEF DriverInv
<1>3. ASSUME NEW c \in InUse(nest) \ Drivers(nest) PROVE OuterInv(c)'
  <2>1. OuterInv(c)
    BY DEF Awake
  <2>2. CompleteUnder(c)' = CompleteUnder(c)
    BY <1>1, <1>2 DEF CompleteUnder
  <2> QED BY <1>1, <1>2, <2>1, <2>2 DEF OuterInv
<1>4. ASSUME NEW c \in CCU \ InUse(nest) PROVE IdleInv(c)'
  <2>1. IdleInv(c)
    BY DEF Awake
  <2> QED BY <1>1, <1>2, <2>1 DEF IdleInv
<1> QED BY <1>1, <1>3, <1>4, <1>5 DEF Awake

-----------------------------------------------------------------------------
(* The start, and the steps of the leaves.                                 *)
LEMMA StartInv ==
  ASSUME NestsProper, NestInit
  PROVE  LoopInv
<1>1. /\ nest \in Nests /\ pc = 0 /\ Len(nest) \in Nat \ {0}
      /\ cfg = [c \in CCU |-> CcuReset] /\ value = [c \in CCU |-> 0]
      /\ ccu_state = [c \in CCU |-> "IDLE"] /\ received = [c \in CCU |-> 0]
      /\ dispatch_idx = [c \in CCU |-> 0]
      /\ already_done = [a \in Addr |-> FALSE] /\ shadow = [a \in Addr |-> NoShadow]
      /\ to_dcu = [a \in Addr |-> <<>>] /\ from_tile = <<>> /\ from_remote = <<>>
      /\ runs = [a \in Addr |-> 0]
  BY NestFacts DEF NestInit, LcInit, Dcu!CounterInit
<1>2. CcuReset \in CcuConfig /\ CcuReset.targets = <<>>
  BY LoopNestAssumption DEF CcuReset, CcuConfig, CCU, CountLimit
<1>3. NestTypes
  BY <1>1, <1>2, LoopNestAssumption DEF NestTypes, CountLimit
<1>4. ConfigInv
  <2> SUFFICES ASSUME NEW c \in CCU
               PROVE  /\ Arrived(c, "LOWER", cfg[c].lower) /\ Arrived(c, "UPPER", cfg[c].upper)
                      /\ Arrived(c, "STEP", cfg[c].step)
                      /\ Arrived(c, "CHILD_COUNT", cfg[c].child_count)
                      /\ \A j \in 1 .. pc : nest[j].cmd = "PARENT" /\ nest[j].ccu = c =>
                           cfg[c].root = nest[j].root /\ cfg[c].parent = nest[j].parent
                      /\ Given(c)
                      /\ c \notin InUse(nest) => cfg[c] = CcuReset
    BY DEF ConfigInv
  <2>1. 1 .. pc = {} /\ \A j \in 1 .. pc : FALSE
    BY <1>1
  <2>2. cfg[c] = CcuReset /\ cfg[c].targets = <<>>
    BY <1>1, <1>2
  <2>3. \A j \in TargetsOf(nest, c) : ~(j <= pc)
    BY <1>1 DEF TargetsOf
  <2>4. {j \in TargetsOf(nest, c) : j <= pc} = {}
    BY <2>3
  <2>5. Given(c)
    <3>1. Len(cfg[c].targets) = 0 /\ \A i \in 1 .. Len(cfg[c].targets) : FALSE
      BY <2>2
    <3>2. Cardinality({j \in TargetsOf(nest, c) : j <= pc}) = 0
      BY <2>4, FS_EmptySet
    <3> QED BY <2>3, <3>1, <3>2 DEF Given
  <2> QED BY <2>1, <2>2, <2>5 DEF Arrived
<1>5. LinksInv
  <2>1. /\ \A i \in 1 .. Len(from_tile) : FALSE
        /\ \A i \in 1 .. Len(from_remote) : FALSE
    BY <1>1
  <2>2. \A a \in Addr : to_dcu[a] = <<>> /\ ~Reported(a)
    BY <1>1, <2>1 DEF Reported
  <2> QED BY <2>1, <2>2 DEF LinksInv
<1>6. Asleep
  <2>1. LeafAddrs \subseteq Addr
    <3>1. \A c \in CCU : \A l \in LeavesOf(c) : l.addr \in Addr
      BY <1>1, TargetFacts
    <3> QED BY <3>1 DEF LeafAddrs, Leaves
  <2> QED BY <1>1, <2>1 DEF Asleep
<1> QED BY <1>1, <1>3, <1>4, <1>5, <1>6 DEF LoopInv

LEMMA LeafAddress ==
  ASSUME NestsProper, nest \in Nests
  PROVE  /\ LeafAddrs \subseteq Addr
         /\ \A l \in Leaves : l.addr \in LeafAddrs /\ l.addr \in Addr
         /\ \A c \in CCU : \A a \in DeliveriesOf(c) : a \in Addr /\ a \notin LeafAddrs
<1>1. \A c \in CCU : \A l \in LeavesOf(c) : l.addr \in Addr
  BY TargetFacts
<1>2. \A l \in Leaves : l.addr \in LeafAddrs /\ l.addr \in Addr
  BY <1>1 DEF LeafAddrs, Leaves
<1>3. \A c \in CCU : \A a \in DeliveriesOf(c) : a \in Addr /\ a \notin LeafAddrs
  BY TargetFacts, Apart
<1> QED BY <1>2, <1>3 DEF LeafAddrs

LEMMA AfterLaunch ==
  ASSUME NestsProper, LoopInv, ~(pc < Len(nest))
  PROVE  Configured /\ Awake
<1>1. pc \in 0 .. Len(nest) /\ Len(nest) \in Nat
  BY NestFacts DEF LoopInv, NestTypes
<1> QED BY <1>1 DEF LoopInv, Configured

(* Nothing but the counter of a leaf moves.                                *)
LEMMA StillStep ==
  ASSUME NestsProper, LoopInv, UNCHANGED lc_vars, nest' = nest, pc' = pc, to_dcu' = to_dcu,
         from_tile' = from_tile, from_remote' = from_remote, runs' = runs,
         already_done' = already_done, shadow' = shadow
  PROVE  LoopInv'
<1>1. /\ UNCHANGED lc_vars /\ nest' = nest /\ pc' = pc /\ to_dcu' = to_dcu /\ from_tile' = from_tile
      /\ from_remote' = from_remote /\ runs' = runs /\ already_done' = already_done
      /\ shadow' = shadow
      /\ cfg' = cfg /\ value' = value /\ ccu_state' = ccu_state /\ received' = received
      /\ dispatch_idx' = dispatch_idx
  BY DEF lc_vars
<1>2. NestTypes /\ NestTypes' /\ ConfigInv'
  BY <1>1, ConfigKept DEF LoopInv, NestTypes
<1>3. \A a : Reported(a)' <=> Reported(a)
  BY <1>1 DEF Reported
<1>4. LinksInv' /\ LeafAddrs' = LeafAddrs
  <2>1. Leaves' = Leaves /\ LeafAddrs' = LeafAddrs
    BY <1>1, ShapeKept DEF LeafAddrs
  <2>2. LinksInv
    BY DEF LoopInv
  <2>3. \A a \in Addr :
          /\ to_dcu'[a] # <<>> => \/ to_dcu'[a] = <<Reset(a)>> /\ a \in LeafAddrs' /\ already_done'[a]
                                  \/ /\ a \notin LeafAddrs'
                                     /\ \E v \in 0 .. (ValueLimit - 1) : to_dcu'[a] = <<Update(a, v)>>
          /\ Reported(a)' => already_done'[a] /\ to_dcu'[a] = <<>>
    BY <1>1, <1>3, <2>1, <2>2 DEF LinksInv
  <2>4. /\ \A i \in 1 .. Len(from_tile') : \E l \in Leaves' : l.addr = from_tile'[i] /\ ~l.remote
        /\ \A i \in 1 .. Len(from_remote') : \E l \in Leaves' : l.addr = from_remote'[i] /\ l.remote
        /\ \A i, j \in 1 .. Len(from_tile') : from_tile'[i] = from_tile'[j] => i = j
        /\ \A i, j \in 1 .. Len(from_remote') : from_remote'[i] = from_remote'[j] => i = j
    BY <1>1, <2>1, <2>2 DEF LinksInv
  <2>5. LinksInv'
    BY <2>3, <2>4 DEF LinksInv, Reset, Update
  <2> QED BY <2>1, <2>5
<1>5. CASE pc < Len(nest)
  <2>1. Asleep
    BY <1>5 DEF LoopInv
  <2>2. InUse(nest') = InUse(nest)
    BY <1>1
  <2>3. Asleep'
    BY <1>1, <1>3, <1>4, <2>1, <2>2 DEF Asleep
  <2> QED BY <1>1, <1>2, <1>4, <1>5, <2>3 DEF LoopInv
<1>6. CASE ~(pc < Len(nest))
  <2>1. Configured /\ Awake
    BY <1>6, AfterLaunch
  <2>2. \A a : KeepsLeaf(a) /\ KeepsDelivery(a)
    BY <1>1, <1>2, <1>3, Untouched
  <2>3. Awake'
    BY <1>1, <2>1, <2>2, AwakeKept
  <2> QED BY <1>1, <1>2, <1>4, <1>6, <2>3 DEF LoopInv
<1> QED BY <1>5, <1>6

LEMMA CountStep ==
  ASSUME NestsProper, LoopInv, NEW l \in Leaves, LeafCounts(l)
  PROVE  LoopInv'
<1>1. /\ UNCHANGED lc_vars /\ nest' = nest /\ pc' = pc /\ to_dcu' = to_dcu /\ from_tile' = from_tile
      /\ from_remote' = from_remote /\ runs' = runs /\ already_done' = already_done
      /\ shadow' = shadow
  BY DEF LeafCounts, Dcu!Count, nest_vars, links
<1> QED BY <1>1, StillStep

LEMMA Appended ==
  ASSUME NEW s \in Seq(Addr), NEW a \in Addr
  PROVE  /\ Append(s, a) \in Seq(Addr) /\ Len(Append(s, a)) = Len(s) + 1 /\ Len(s) \in Nat
         /\ \A i \in 1 .. Len(s) : Append(s, a)[i] = s[i]
         /\ Append(s, a)[Len(s) + 1] = a
  OBVIOUS

(* A link that takes an address it does not hold.                          *)
LEMMA AppendedOnce ==
  ASSUME NEW s \in Seq(Addr), NEW a \in Addr, NEW t, t = Append(s, a),
         \A i \in 1 .. Len(s) : s[i] # a,
         \A i, j \in 1 .. Len(s) : s[i] = s[j] => i = j
  PROVE  /\ \A i, j \in 1 .. Len(t) : t[i] = t[j] => i = j
         /\ \A b : (\E i \in 1 .. Len(t) : t[i] = b) <=> b = a \/ (\E i \in 1 .. Len(s) : s[i] = b)
         /\ \A i \in 1 .. Len(t) : t[i] = a \/ \E j \in 1 .. Len(s) : t[i] = s[j]
<1>1. /\ Len(t) = Len(s) + 1 /\ Len(s) \in Nat /\ t[Len(s) + 1] = a
      /\ \A i \in 1 .. Len(s) : t[i] = s[i]
  BY Appended
<1>2. /\ \A i \in 1 .. Len(t) : i \in 1 .. Len(s) \/ i = Len(s) + 1
      /\ 1 .. Len(s) \subseteq 1 .. Len(t) /\ Len(s) + 1 \in 1 .. Len(t)
  BY <1>1
<1>3. ASSUME NEW i \in 1 .. Len(t), NEW j \in 1 .. Len(t), t[i] = t[j] PROVE i = j
  <2>1. CASE i \in 1 .. Len(s) /\ j \in 1 .. Len(s)
    BY <1>1, <1>3, <2>1
  <2>2. CASE i \in 1 .. Len(s) /\ j = Len(s) + 1
    BY <1>1, <1>3, <2>2
  <2>3. CASE i = Len(s) + 1 /\ j \in 1 .. Len(s)
    BY <1>1, <1>3, <2>3
  <2> QED BY <1>2, <2>1, <2>2, <2>3
<1>4. ASSUME NEW b, NEW i \in 1 .. Len(t), t[i] = b
      PROVE  b = a \/ (\E j \in 1 .. Len(s) : s[j] = b)
  BY <1>1, <1>2, <1>4
<1>5. ASSUME NEW b, b = a \/ (\E i \in 1 .. Len(s) : s[i] = b)
      PROVE  \E i \in 1 .. Len(t) : t[i] = b
  BY <1>1, <1>2, <1>5
<1>6. \A i \in 1 .. Len(t) : t[i] = a \/ \E j \in 1 .. Len(s) : t[i] = s[j]
  BY <1>1, <1>2
<1> QED BY <1>3, <1>4, <1>5, <1>6

LEMMA CompleteStep ==
  ASSUME NestsProper, LoopInv, NEW l \in Leaves, LeafCompletes(l)
  PROVE  LoopInv'
<1> DEFINE a == l.addr
<1>1. /\ UNCHANGED lc_vars /\ nest' = nest /\ pc' = pc /\ to_dcu' = to_dcu
      /\ IF l.remote THEN from_remote' = Append(from_remote, a) /\ from_tile' = from_tile
         ELSE from_tile' = Append(from_tile, a) /\ from_remote' = from_remote
      /\ runs' = [runs EXCEPT ![a] = @ + 1] /\ ~already_done[a]
      /\ already_done' = [already_done EXCEPT ![a] = TRUE] /\ shadow' = shadow
      /\ cfg' = cfg /\ value' = value /\ ccu_state' = ccu_state /\ received' = received
      /\ dispatch_idx' = dispatch_idx
  BY DEF LeafCompletes, Dcu!Complete, lc_vars, nest_vars
<1>2. NestTypes /\ ConfigInv /\ LinksInv /\ nest \in Nests
  BY DEF LoopInv, NestTypes
<1>3. a \in Addr /\ a \in LeafAddrs
  BY <1>2, LeafAddress
<1>4. NestTypes'
  <2>1. runs' \in [Addr -> Nat] /\ already_done' \in [Addr -> BOOLEAN]
    BY <1>1, <1>2, <1>3 DEF NestTypes
  <2>2. from_tile' \in Seq(Addr) /\ from_remote' \in Seq(Addr)
    <3>1. from_tile \in Seq(Addr) /\ from_remote \in Seq(Addr)
      BY <1>2 DEF NestTypes
    <3>2. Append(from_tile, a) \in Seq(Addr) /\ Append(from_remote, a) \in Seq(Addr)
      BY <1>3, <3>1, Appended
    <3> HIDE DEF a
    <3> QED BY <1>1, <3>1, <3>2
  <2>3. DOMAIN to_dcu' = Addr /\ DOMAIN shadow' = Addr
    BY <1>1, <1>2 DEF NestTypes
  <2> QED BY <1>1, <1>2, <2>1, <2>2, <2>3 DEF NestTypes
<1>5. ConfigInv' /\ Leaves' = Leaves /\ LeafAddrs' = LeafAddrs /\ InUse(nest)' = InUse(nest)
  BY <1>1, <1>2, ConfigKept, ShapeKept DEF LeafAddrs
<1>6. to_dcu[a] = <<>> /\ ~Reported(a)
  BY <1>1, <1>2, <1>3 DEF LinksInv
<1> HIDE DEF a
<1>7. /\ from_tile \in Seq(Addr) /\ from_remote \in Seq(Addr)
      /\ \A i \in 1 .. Len(from_tile) : from_tile[i] # a
      /\ \A i \in 1 .. Len(from_remote) : from_remote[i] # a
      /\ \A i, j \in 1 .. Len(from_tile) : from_tile[i] = from_tile[j] => i = j
      /\ \A i, j \in 1 .. Len(from_remote) : from_remote[i] = from_remote[j] => i = j
      /\ \A i \in 1 .. Len(from_tile) : \E m \in Leaves : m.addr = from_tile[i] /\ ~m.remote
      /\ \A i \in 1 .. Len(from_remote) : \E m \in Leaves : m.addr = from_remote[i] /\ m.remote
  BY <1>2, <1>6 DEF NestTypes, LinksInv, Reported
<1>8. /\ \A i, j \in 1 .. Len(from_tile') : from_tile'[i] = from_tile'[j] => i = j
      /\ \A i, j \in 1 .. Len(from_remote') : from_remote'[i] = from_remote'[j] => i = j
      /\ \A i \in 1 .. Len(from_tile') : \E m \in Leaves : m.addr = from_tile'[i] /\ ~m.remote
      /\ \A i \in 1 .. Len(from_remote') : \E m \in Leaves : m.addr = from_remote'[i] /\ m.remote
      /\ \A b : Reported(b)' <=> b = a \/ Reported(b)
  <2>1. CASE l.remote
    <3>1. /\ \A i, j \in 1 .. Len(from_remote') : from_remote'[i] = from_remote'[j] => i = j
          /\ \A b : (\E i \in 1 .. Len(from_remote') : from_remote'[i] = b)
                    <=> b = a \/ (\E i \in 1 .. Len(from_remote) : from_remote[i] = b)
          /\ \A i \in 1 .. Len(from_remote') :
               from_remote'[i] = a \/ \E j \in 1 .. Len(from_remote) : from_remote'[i] = from_remote[j]
      <4> DEFINE s == from_remote
                 t == from_remote'
      <4>1. t = Append(s, a)
        BY <1>1, <2>1
      <4>2. /\ s \in Seq(Addr) /\ \A i \in 1 .. Len(s) : s[i] # a
            /\ \A i, j \in 1 .. Len(s) : s[i] = s[j] => i = j
        BY <1>7
      <4> HIDE DEF s, t
      <4>3. /\ \A i, j \in 1 .. Len(t) : t[i] = t[j] => i = j
            /\ \A b : (\E i \in 1 .. Len(t) : t[i] = b)
                      <=> b = a \/ (\E i \in 1 .. Len(s) : s[i] = b)
            /\ \A i \in 1 .. Len(t) : t[i] = a \/ \E j \in 1 .. Len(s) : t[i] = s[j]
        BY <1>3, <4>1, <4>2, AppendedOnce
      <4> QED BY <4>3 DEF s, t
    <3>2. from_tile' = from_tile
      BY <1>1, <2>1
    <3>3. \A i \in 1 .. Len(from_remote') : \E m \in Leaves : m.addr = from_remote'[i] /\ m.remote
      BY <1>7, <2>1, <3>1 DEF a
    <3>4. \A b : Reported(b)' <=> b = a \/ Reported(b)
      BY <3>1, <3>2 DEF Reported
    <3> QED BY <1>7, <3>1, <3>2, <3>3, <3>4
  <2>2. CASE ~l.remote
    <3>1. /\ \A i, j \in 1 .. Len(from_tile') : from_tile'[i] = from_tile'[j] => i = j
          /\ \A b : (\E i \in 1 .. Len(from_tile') : from_tile'[i] = b)
                    <=> b = a \/ (\E i \in 1 .. Len(from_tile) : from_tile[i] = b)
          /\ \A i \in 1 .. Len(from_tile') :
               from_tile'[i] = a \/ \E j \in 1 .. Len(from_tile) : from_tile'[i] = from_tile[j]
      <4> DEFINE s == from_tile
                 t == from_tile'
      <4>1. t = Append(s, a)
        BY <1>1, <2>2
      <4>2. /\ s \in Seq(Addr) /\ \A i \in 1 .. Len(s) : s[i] # a
            /\ \A i, j \in 1 .. Len(s) : s[i] = s[j] => i = j
        BY <1>7
      <4> HIDE DEF s, t
      <4>3. /\ \A i, j \in 1 .. Len(t) : t[i] = t[j] => i = j
            /\ \A b : (\E i \in 1 .. Len(t) : t[i] = b)
                      <=> b = a \/ (\E i \in 1 .. Len(s) : s[i] = b)
            /\ \A i \in 1 .. Len(t) : t[i] = a \/ \E j \in 1 .. Len(s) : t[i] = s[j]
        BY <1>3, <4>1, <4>2, AppendedOnce
      <4> QED BY <4>3 DEF s, t
    <3>2. from_remote' = from_remote
      BY <1>1, <2>2
    <3>3. \A i \in 1 .. Len(from_tile') : \E m \in Leaves : m.addr = from_tile'[i] /\ ~m.remote
      BY <1>7, <2>2, <3>1 DEF a
    <3>4. \A b : Reported(b)' <=> b = a \/ Reported(b)
      BY <3>1, <3>2 DEF Reported
    <3> QED BY <1>7, <3>1, <3>2, <3>3, <3>4
  <2> QED BY <2>1, <2>2
<1>9. LinksInv'
  <2>1. ASSUME NEW b \in Addr
        PROVE  /\ (to_dcu[b] # <<>> =>
                     \/ to_dcu[b] = <<Reset(b)>> /\ b \in LeafAddrs /\ already_done[b]
                     \/ /\ b \notin LeafAddrs
                        /\ \E v \in 0 .. (ValueLimit - 1) : to_dcu[b] = <<Update(b, v)>>)'
               /\ (Reported(b) => already_done[b] /\ to_dcu[b] = <<>>)'
    <3>1. /\ to_dcu[b] # <<>> =>
               \/ to_dcu[b] = <<Reset(b)>> /\ b \in LeafAddrs /\ already_done[b]
               \/ /\ b \notin LeafAddrs
                  /\ \E v \in 0 .. (ValueLimit - 1) : to_dcu[b] = <<Update(b, v)>>
          /\ Reported(b) => already_done[b] /\ to_dcu[b] = <<>>
      BY <1>2 DEF LinksInv
    <3>2. to_dcu' = to_dcu /\ already_done'[b] = (IF b = a THEN TRUE ELSE already_done[b])
      BY <1>1, <1>2, <1>3 DEF NestTypes
    <3>3. (Reported(b) => already_done[b] /\ to_dcu[b] = <<>>)'
      BY <1>6, <1>8, <3>1, <3>2
    <3> QED BY <1>5, <3>1, <3>2, <3>3 DEF Reset, Update
  <2> QED BY <1>5, <1>8, <2>1 DEF LinksInv
<1>10. CASE pc < Len(nest)
  <2>1. Asleep
    BY <1>10 DEF LoopInv
  <2>2. ASSUME NEW b \in LeafAddrs
        PROVE  runs'[b] = (IF already_done'[b] THEN 1 ELSE 0) /\ (already_done'[b] => Reported(b)')
    <3>1. b \in Addr /\ runs[b] = (IF already_done[b] THEN 1 ELSE 0) /\ (already_done[b] => Reported(b))
      BY <1>2, <2>1, LeafAddress DEF Asleep
    <3>2. CASE b = a
      BY <1>1, <1>2, <1>8, <3>1, <3>2 DEF NestTypes
    <3>3. CASE b # a
      BY <1>1, <1>2, <1>8, <3>1, <3>3 DEF NestTypes
    <3> QED BY <3>2, <3>3
  <2>3. Asleep'
    BY <1>1, <1>5, <2>1, <2>2 DEF Asleep
  <2> QED BY <1>1, <1>4, <1>5, <1>9, <1>10, <2>3 DEF LoopInv
<1>11. CASE ~(pc < Len(nest))
  <2>1. Configured /\ Awake
    BY <1>11, AfterLaunch
  <2>2. ASSUME NEW b \in Addr, b # a PROVE KeepsLeaf(b) /\ KeepsDelivery(b)
    <3>1. /\ to_dcu'[b] = to_dcu[b] /\ already_done'[b] = already_done[b]
          /\ runs'[b] = runs[b] /\ shadow'[b] = shadow[b] /\ (Reported(b)' <=> Reported(b))
      BY <1>1, <1>2, <1>8, <2>2 DEF NestTypes
    <3> QED BY <1>2, <1>4, <3>1, Untouched
  <2>3. KeepsLeaf(a)
    <3>1. /\ ~Finished(a) /\ Finished(a)' /\ runs'[a] = runs[a] + 1
      BY <1>1, <1>2, <1>3, <1>6 DEF Finished, ResetPending, NestTypes
    <3>2. Reported(a)' /\ ~already_done[a]
      BY <1>1, <1>8 DEF a
    <3>3. ~Counted(a)
      BY <3>1 DEF Counted
    <3>4. ~Counted(a)'
      <4>1. Counted(a)' <=> Finished(a)' /\ ~Reported(a)'
        BY <1>4, CountedIs, PTL
      <4> QED BY <3>2, <4>1
    <3>5. \A k \in Nat : Ran(a, k) => Ran(a, k)'
      BY <3>1 DEF Ran
    <3>6. \A k : ~Resting(a, k)
      BY <3>2 DEF Resting
    <3> QED BY <3>3, <3>4, <3>5, <3>6 DEF KeepsLeaf
  <2>4. \A m \in Leaves : KeepsLeaf(m.addr)
    BY <1>2, <2>2, <2>3, LeafAddress
  <2>5. \A c \in CCU : \A b \in DeliveriesOf(c) : KeepsDelivery(b)
    BY <1>2, <1>3, <2>2, LeafAddress
  <2>6. Awake'
    BY <1>1, <2>1, <2>4, <2>5, AwakeKept
  <2> QED BY <1>1, <1>4, <1>5, <1>9, <1>11, <2>6 DEF LoopInv
<1> QED BY <1>10, <1>11

LEMMA ReceiveStep ==
  ASSUME NestsProper, LoopInv, NEW a \in Addr, DcuReceives(a)
  PROVE  LoopInv'
<1>1. /\ UNCHANGED lc_vars /\ nest' = nest /\ pc' = pc /\ from_tile' = from_tile
      /\ from_remote' = from_remote /\ runs' = runs
      /\ to_dcu[a] # <<>> /\ to_dcu' = [to_dcu EXCEPT ![a] = Tail(@)]
      /\ Dcu!Receive(Head(to_dcu[a]))
      /\ cfg' = cfg /\ value' = value /\ ccu_state' = ccu_state /\ received' = received
      /\ dispatch_idx' = dispatch_idx
  BY DEF DcuReceives, lc_vars, nest_vars
<1>2. NestTypes /\ ConfigInv /\ LinksInv /\ nest \in Nests
  BY DEF LoopInv, NestTypes
<1>3. ~(pc < Len(nest))
  BY <1>1 DEF LoopInv, Asleep
<1>4. Configured /\ Awake
  BY <1>3, AfterLaunch
<1>5. ConfigInv' /\ Leaves' = Leaves /\ LeafAddrs' = LeafAddrs
  BY <1>1, <1>2, ConfigKept, ShapeKept DEF LeafAddrs
<1>6. ~Reported(a) /\ \A b : Reported(b)' <=> Reported(b)
  BY <1>1, <1>2 DEF LinksInv, Reported
(* A reset, or the value of the iteration.                                 *)
<1> DEFINE Resets ==
             /\ to_dcu[a] = <<Reset(a)>> /\ a \in LeafAddrs
             /\ already_done' = [already_done EXCEPT ![a] = FALSE] /\ shadow' = shadow
           Updates(v) ==
             /\ to_dcu[a] = <<Update(a, v)>> /\ a \notin LeafAddrs
             /\ shadow' = [shadow EXCEPT ![a] = v] /\ already_done' = already_done
<1>7. /\ to_dcu' = [to_dcu EXCEPT ![a] = <<>>]
      /\ Resets \/ \E v \in 0 .. (ValueLimit - 1) : Updates(v)
  <2>1. \/ to_dcu[a] = <<Reset(a)>> /\ a \in LeafAddrs /\ already_done[a]
        \/ a \notin LeafAddrs /\ \E v \in 0 .. (ValueLimit - 1) : to_dcu[a] = <<Update(a, v)>>
    BY <1>1, <1>2 DEF LinksInv
  <2>2. CASE to_dcu[a] = <<Reset(a)>> /\ a \in LeafAddrs
    <3>1. Head(to_dcu[a]) = Reset(a) /\ Tail(to_dcu[a]) = <<>>
      BY <2>2 DEF Reset
    <3>2. Dcu!Receive(Reset(a))
      BY <1>1, <3>1
    <3>3. already_done' = [already_done EXCEPT ![a] = FALSE] /\ shadow' = shadow
      BY <3>2 DEF Dcu!Receive, Reset
    <3> QED BY <1>1, <2>2, <3>1, <3>3
  <2>3. ASSUME NEW v \in 0 .. (ValueLimit - 1), to_dcu[a] = <<Update(a, v)>>, a \notin LeafAddrs
        PROVE  to_dcu' = [to_dcu EXCEPT ![a] = <<>>] /\ Updates(v)
    <3>1. Head(to_dcu[a]) = Update(a, v) /\ Tail(to_dcu[a]) = <<>>
      BY <2>3 DEF Update
    <3>2. Dcu!Receive(Update(a, v))
      BY <1>1, <3>1
    <3>3. already_done' = already_done /\ shadow' = [shadow EXCEPT ![a] = v]
      BY <3>2 DEF Dcu!Receive, Update
    <3> QED BY <1>1, <2>3, <3>1, <3>3
  <2> HIDE DEF Resets, Updates
  <2>4. CASE to_dcu[a] = <<Reset(a)>> /\ a \in LeafAddrs
    BY <2>2, <2>4
  <2> QED BY <2>1, <2>3, <2>4
<1>8. /\ to_dcu'[a] = <<>>
      /\ \A b \in Addr : b # a => /\ to_dcu'[b] = to_dcu[b]
                                  /\ already_done'[b] = already_done[b] /\ shadow'[b] = shadow[b]
      /\ already_done' \in [Addr -> BOOLEAN] /\ DOMAIN shadow' = Addr /\ DOMAIN to_dcu' = Addr
  BY <1>2, <1>7 DEF NestTypes
<1>9. NestTypes'
  BY <1>1, <1>2, <1>8 DEF NestTypes
<1>10. LinksInv'
  <2>1. ASSUME NEW b \in Addr
        PROVE  /\ (to_dcu[b] # <<>> =>
                     \/ to_dcu[b] = <<Reset(b)>> /\ b \in LeafAddrs /\ already_done[b]
                     \/ /\ b \notin LeafAddrs
                        /\ \E v \in 0 .. (ValueLimit - 1) : to_dcu[b] = <<Update(b, v)>>)'
               /\ (Reported(b) => already_done[b] /\ to_dcu[b] = <<>>)'
    <3>1. CASE b = a
      BY <1>6, <1>8, <3>1
    <3>2. CASE b # a
      <4>1. /\ to_dcu[b] # <<>> =>
                 \/ to_dcu[b] = <<Reset(b)>> /\ b \in LeafAddrs /\ already_done[b]
                 \/ /\ b \notin LeafAddrs
                    /\ \E v \in 0 .. (ValueLimit - 1) : to_dcu[b] = <<Update(b, v)>>
            /\ Reported(b) => already_done[b] /\ to_dcu[b] = <<>>
        BY <1>2 DEF LinksInv
      <4>2. to_dcu'[b] = to_dcu[b] /\ already_done'[b] = already_done[b]
        BY <1>8, <3>2
      <4>3. (Reported(b) => already_done[b] /\ to_dcu[b] = <<>>)'
        BY <1>6, <4>1, <4>2
      <4> QED BY <1>5, <4>1, <4>2, <4>3 DEF Reset, Update
    <3> QED BY <3>1, <3>2
  <2> QED BY <1>1, <1>2, <1>5, <2>1 DEF LinksInv
<1> HIDE DEF Resets, Updates
<1>11. ASSUME NEW b \in Addr, b # a PROVE KeepsLeaf(b) /\ KeepsDelivery(b)
  <2>1. /\ to_dcu'[b] = to_dcu[b] /\ already_done'[b] = already_done[b]
        /\ runs'[b] = runs[b] /\ shadow'[b] = shadow[b] /\ (Reported(b)' <=> Reported(b))
    BY <1>1, <1>6, <1>8, <1>11
  <2> QED BY <1>2, <1>9, <2>1, Untouched
<1>12. ASSUME a \in LeafAddrs PROVE KeepsLeaf(a)
  <2>1. Resets
    BY <1>7, <1>12 DEF Updates
  <2>2. ~Finished(a)
    BY <2>1 DEF Resets, Reset, Finished, ResetPending
  <2>3. ~Finished(a)'
    BY <1>2, <2>1 DEF Resets, Finished, NestTypes
  <2>4. ~Counted(a) /\ ~Counted(a)'
    BY <2>2, <2>3 DEF Counted
  <2>5. \A k \in Nat : Ran(a, k) => Ran(a, k)'
    BY <1>1, <2>2, <2>3 DEF Ran
  <2>6. \A k : ~Resting(a, k)
    BY <1>1 DEF Resting
  <2> QED BY <2>4, <2>5, <2>6 DEF KeepsLeaf
<1>13. ASSUME a \notin LeafAddrs PROVE KeepsDelivery(a)
  <2>1. PICK v \in 0 .. (ValueLimit - 1) : Updates(v)
    BY <1>7, <1>13 DEF Resets
  <2>2. shadow'[a] = v /\ to_dcu[a] = <<Update(a, v)>>
    BY <1>2, <2>1 DEF Updates, NestTypes
  <2>3. ASSUME NEW w, Delivered(a, w) PROVE w = v
    <3>1. <<Update(a, w)>> = <<Update(a, v)>>
      BY <1>1, <2>2, <2>3 DEF Delivered
    <3>2. Update(a, w).data = Update(a, v).data
      BY <3>1
    <3> QED BY <3>2 DEF Update
  <2>4. Delivered(a, v)'
    BY <1>8, <2>2 DEF Delivered
  <2> QED BY <2>3, <2>4 DEF KeepsDelivery
<1>14. \A l \in Leaves : KeepsLeaf(l.addr)
  BY <1>2, <1>11, <1>12, LeafAddress
<1>15. \A c \in CCU : \A b \in DeliveriesOf(c) : KeepsDelivery(b)
  BY <1>2, <1>11, <1>13, LeafAddress
<1>16. Awake'
  BY <1>1, <1>4, <1>14, <1>15, AwakeKept
<1> QED BY <1>1, <1>3, <1>5, <1>9, <1>10, <1>16 DEF LoopInv

-----------------------------------------------------------------------------
(* A cycle before the launch: a configuration command or nothing.          *)
LEMMA SleepingCycle ==
  ASSUME NestsProper, LoopInv, pc < Len(nest), NEW config \in BOOLEAN, NEW sent \in BOOLEAN,
         NEW tile \in BOOLEAN, NEW remote \in BOOLEAN, Cycle(config, sent, tile, remote),
         NEW m, m = IF config THEN nest[pc + 1] ELSE NoConfig
  PROVE  /\ configure(m) /\ nest' = nest /\ pc' = IF config THEN pc + 1 ELSE pc
         /\ to_dcu' = to_dcu /\ from_tile' = from_tile /\ from_remote' = from_remote
         /\ already_done' = already_done /\ shadow' = shadow /\ runs' = runs
         /\ value' = [c \in CCU |->
              IF c \in Launched(m) THEN cfg[c].lower
              ELSE IF m.cmd = "LOWER" /\ m.ccu = c THEN m.n ELSE value[c]]
         /\ ccu_state' = [c \in CCU |-> IF c \in Launched(m) THEN "RUNNING" ELSE ccu_state[c]]
         /\ received' = [c \in CCU |-> IF c \in Launched(m) THEN 0 ELSE received[c]]
         /\ dispatch_idx' = [c \in CCU |-> IF c \in Launched(m) THEN 0 ELSE dispatch_idx[c]]
<1> DEFINE ev == IF tile /\ from_tile # <<>>
                   THEN [valid |-> can_match(Head(from_tile)), addr |-> Head(from_tile)]
                   ELSE [valid |-> FALSE]
           remote_ev == remote /\ has_running
<1>1. \A c \in CCU : ccu_state[c] = "IDLE"
  BY DEF LoopInv, Asleep
<1>2. Dispatching = {} /\ ~has_running /\ \A a : ~can_match(a)
  BY <1>1 DEF Dispatching, has_running, can_match, Matches
<1>3. /\ sent => Dispatching # {} /\ to_dcu[active_target.addr] = <<>>
      /\ update_ccu_ff(m, sent, ev, remote_ev)
      /\ nest' = nest /\ pc' = IF config THEN pc + 1 ELSE pc
      /\ to_dcu' = IF sent THEN [to_dcu EXCEPT ![active_target.addr] = <<dispatched>>] ELSE to_dcu
      /\ from_tile' = IF ev.valid THEN Tail(from_tile) ELSE from_tile
      /\ from_remote' = IF remote_ev THEN Tail(from_remote) ELSE from_remote
      /\ already_done' = already_done /\ shadow' = shadow /\ runs' = runs
  BY DEF Cycle, dcu_vars
<1>4. ~sent /\ ~ev.valid /\ ~remote_ev
  BY <1>2, <1>3
<1> HIDE DEF ev, remote_ev
<1>5. Counting(ev, remote_ev) = {}
  BY <1>4 DEF Counting, TileHits, Notified, RemoteHits
<1>6. Restarted(sent) = {} /\ ~EndsDispatch(sent)
  BY <1>4 DEF Restarted, EndsDispatch
<1>7. /\ configure(m)
      /\ value' = [c \in CCU |->
           IF c \in {d \in Counting(ev, remote_ev) : Reaches(d)} THEN new_val(c)
           ELSE IF c \in Launched(m) \cup Restarted(sent) THEN cfg[c].lower
           ELSE IF m.cmd = "LOWER" /\ m.ccu = c THEN m.n ELSE value[c]]
      /\ ccu_state' = [c \in CCU |->
           IF c \in {d \in Counting(ev, remote_ev) : Reaches(d)}
             THEN IF Finishes(c) THEN "COMPLETE" ELSE "DISPATCHING"
           ELSE IF c \in (Launched(m) \cup Restarted(sent))
                         \cup (IF EndsDispatch(sent) THEN {active} ELSE {})
             THEN "RUNNING" ELSE ccu_state[c]]
      /\ received' = [c \in CCU |->
           IF c \in Counting(ev, remote_ev) THEN new_count(c)
           ELSE IF c \in (Launched(m) \cup Restarted(sent))
                         \cup (IF EndsDispatch(sent) THEN {active} ELSE {})
             THEN 0 ELSE received[c]]
      /\ dispatch_idx' = [c \in CCU |->
           IF c \in ({d \in {e \in Counting(ev, remote_ev) : Reaches(e)} : ~Finishes(d)}
                       \cup (Launched(m) \cup Restarted(sent)))
                      \cup (IF EndsDispatch(sent) THEN {active} ELSE {})
             THEN 0
           ELSE IF sent /\ c = active THEN next_idx ELSE dispatch_idx[c]]
  BY <1>3 DEF update_ccu_ff
<1>8. /\ {d \in Counting(ev, remote_ev) : Reaches(d)} = {}
      /\ (IF EndsDispatch(sent) THEN {active} ELSE {}) = {}
      /\ Launched(m) \cup Restarted(sent) = Launched(m)
      /\ {d \in {e \in Counting(ev, remote_ev) : Reaches(e)} : ~Finishes(d)} = {}
  BY <1>5, <1>6
<1> QED
  <2>1. /\ value' = [c \in CCU |->
              IF c \in Launched(m) THEN cfg[c].lower
              ELSE IF m.cmd = "LOWER" /\ m.ccu = c THEN m.n ELSE value[c]]
        /\ ccu_state' = [c \in CCU |-> IF c \in Launched(m) THEN "RUNNING" ELSE ccu_state[c]]
        /\ received' = [c \in CCU |-> IF c \in Launched(m) THEN 0 ELSE received[c]]
        /\ dispatch_idx' = [c \in CCU |-> IF c \in Launched(m) THEN 0 ELSE dispatch_idx[c]]
    BY <1>4, <1>5, <1>7, <1>8
  <2> QED BY <1>3, <1>4, <1>7, <2>1

LEMMA ConfigureCycle ==
  ASSUME NestsProper, LoopInv, pc + 1 < Len(nest), NEW m, m = nest[pc + 1],
         configure(m), nest' = nest, pc' = pc + 1, to_dcu' = to_dcu, from_tile' = from_tile,
         from_remote' = from_remote, already_done' = already_done, shadow' = shadow, runs' = runs,
         value' = [c \in CCU |-> IF c \in Launched(m) THEN cfg[c].lower
                                 ELSE IF m.cmd = "LOWER" /\ m.ccu = c THEN m.n ELSE value[c]],
         ccu_state' = [c \in CCU |-> IF c \in Launched(m) THEN "RUNNING" ELSE ccu_state[c]],
         received' = [c \in CCU |-> IF c \in Launched(m) THEN 0 ELSE received[c]],
         dispatch_idx' = [c \in CCU |-> IF c \in Launched(m) THEN 0 ELSE dispatch_idx[c]]
  PROVE  LoopInv'
<1>1. /\ NestTypes /\ ConfigInv /\ LinksInv /\ nest \in Nests
      /\ pc \in Nat /\ Len(nest) \in Nat /\ pc < Len(nest)
  BY NestFacts DEF LoopInv, NestTypes
<1>2. /\ m \in NestCommand /\ m.cmd # "LAUNCH" /\ pc + 1 \in 1 .. (Len(nest) - 1)
  BY <1>1, NextCommand
<1>3. ConfigInv' /\ cfg' \in [CCU -> CcuConfig]
  BY <1>1, ConfigStep
<1>4. Launched(m) = {}
  BY <1>2 DEF Launched
<1>5. m.cmd = "LOWER" => m.n \in 0 .. (ValueLimit - 1) /\ m.ccu \in InUse(nest)
  BY <1>2, CommandForms DEF InUse
<1>6. /\ ccu_state' = ccu_state /\ received' = received /\ dispatch_idx' = dispatch_idx
      /\ value' \in [CCU -> 0 .. (ValueLimit - 1)]
      /\ \A c \in CCU \ InUse(nest) : value'[c] = value[c]
  BY <1>1, <1>4, <1>5 DEF NestTypes
<1>7. NestTypes'
  <2>1. /\ nest' \in Nests /\ pc' \in 0 .. Len(nest') /\ DOMAIN to_dcu' = Addr
        /\ from_tile' \in Seq(Addr) /\ from_remote' \in Seq(Addr)
    <3>1. pc + 1 \in 0 .. Len(nest)
      BY <1>2, <1>1
    <3>2. DOMAIN to_dcu = Addr /\ from_tile \in Seq(Addr) /\ from_remote \in Seq(Addr)
      BY <1>1 DEF NestTypes
    <3> QED BY <1>1, <3>1, <3>2
  <2>2. /\ ccu_state \in [CCU -> {"IDLE", "RUNNING", "DISPATCHING", "COMPLETE"}]
        /\ received \in [CCU -> 0 .. (CountLimit - 1)]
        /\ dispatch_idx \in [CCU -> 0 .. (MaxTargets - 1)]
        /\ already_done \in [Addr -> BOOLEAN] /\ runs \in [Addr -> Nat] /\ DOMAIN shadow = Addr
    BY <1>1 DEF NestTypes
  <2> QED BY <1>3, <1>6, <2>1, <2>2 DEF NestTypes
<1>8. Leaves' = Leaves /\ LeafAddrs' = LeafAddrs /\ InUse(nest') = InUse(nest)
  BY ShapeKept DEF LeafAddrs
<1>9. \A a : Reported(a)' <=> Reported(a)
  BY DEF Reported
<1>10. LinksInv'
  BY <1>1, <1>8, <1>9 DEF LinksInv, Reset, Update
<1>11. Asleep'
  <2>1. Asleep
    BY <1>1 DEF LoopInv
  <2> QED BY <1>6, <1>8, <1>9, <2>1 DEF Asleep
<1> QED BY <1>1, <1>3, <1>7, <1>10, <1>11 DEF LoopInv

(* The launch starts the CCUs in use, and no other.                        *)
LEMMA LaunchCycle ==
  ASSUME NestsProper, LoopInv, pc + 1 = Len(nest), NEW m, m = nest[pc + 1],
         configure(m), nest' = nest, pc' = pc + 1, to_dcu' = to_dcu, from_tile' = from_tile,
         from_remote' = from_remote, already_done' = already_done, shadow' = shadow, runs' = runs,
         value' = [c \in CCU |-> IF c \in Launched(m) THEN cfg[c].lower
                                 ELSE IF m.cmd = "LOWER" /\ m.ccu = c THEN m.n ELSE value[c]],
         ccu_state' = [c \in CCU |-> IF c \in Launched(m) THEN "RUNNING" ELSE ccu_state[c]],
         received' = [c \in CCU |-> IF c \in Launched(m) THEN 0 ELSE received[c]],
         dispatch_idx' = [c \in CCU |-> IF c \in Launched(m) THEN 0 ELSE dispatch_idx[c]]
  PROVE  LoopInv'
<1>1. /\ NestTypes /\ ConfigInv /\ LinksInv /\ nest \in Nests
      /\ pc \in Nat /\ Len(nest) \in Nat /\ pc < Len(nest)
  BY NestFacts DEF LoopInv, NestTypes
<1>2. m.cmd = "LAUNCH" /\ Asleep
  BY <1>1, NextCommand DEF LoopInv
<1>3. cfg' = cfg
  BY <1>2 DEF configure
<1>4. ConfigInv' /\ cfg' \in [CCU -> CcuConfig]
  BY <1>1, ConfigStep
<1>5. Configured
  BY <1>1 DEF Configured
<1>6. Launched(m) = InUse(nest) /\ InUse(nest) \subseteq CCU /\ Drivers(nest) \subseteq InUse(nest)
  <2>1. InUse(nest) \subseteq CCU /\ Drivers(nest) \subseteq InUse(nest)
    BY <1>1, UsersAreCCUs
  <2>2. ASSUME NEW c \in Drivers(nest) PROVE cfg[c].targets # <<>>
    <3>1. PICK l \in LeavesOf(c) : TRUE
      BY DEF Drivers, LeavesOf
    <3>2. \E i \in 1 .. Len(cfg[c].targets) : cfg[c].targets[i] = l
      BY <1>5, <2>1, TargetsAre
    <3> QED BY <3>2
  <2>3. ASSUME NEW c \in InUse(nest) \ Drivers(nest) PROVE cfg[c].root
    BY <1>5, Settled
  <2>4. ASSUME NEW c \in CCU \ InUse(nest) PROVE cfg[c].targets = <<>> /\ ~cfg[c].root
    BY <1>1 DEF ConfigInv, CcuReset
  <2> QED BY <1>2, <2>1, <2>2, <2>3, <2>4 DEF Launched
<1>7. \A c \in CCU :
        IF c \in InUse(nest)
          THEN value'[c] = cfg[c].lower /\ ccu_state'[c] = "RUNNING" /\ received'[c] = 0
               /\ dispatch_idx'[c] = 0
          ELSE value'[c] = value[c] /\ ccu_state'[c] = ccu_state[c] /\ received'[c] = received[c]
               /\ dispatch_idx'[c] = dispatch_idx[c]
  BY <1>2, <1>6
<1>8. NestTypes'
  <2>1. \A c \in CCU : cfg[c].lower \in 0 .. (ValueLimit - 1)
    BY <1>1 DEF NestTypes, CcuConfig
  <2>2. value' \in [CCU -> 0 .. (ValueLimit - 1)]
    BY <1>1, <1>2, <2>1 DEF NestTypes
  <2>3. received' \in [CCU -> 0 .. (CountLimit - 1)]
    BY <1>1 DEF NestTypes, CountLimit
  <2>4. dispatch_idx' \in [CCU -> 0 .. (MaxTargets - 1)]
    BY <1>1, LoopNestAssumption DEF NestTypes, CountLimit
  <2>5. ccu_state' \in [CCU -> {"IDLE", "RUNNING", "DISPATCHING", "COMPLETE"}]
    BY <1>1 DEF NestTypes
  <2> QED BY <1>1, <1>4, <2>2, <2>3, <2>4, <2>5 DEF NestTypes
<1>9. /\ Leaves' = Leaves /\ LeafAddrs' = LeafAddrs /\ InUse(nest') = InUse(nest)
      /\ Drivers(nest') = Drivers(nest)
      /\ \A c : LeavesOf(c)' = LeavesOf(c) /\ Under(nest', c) = Under(nest, c)
  BY ShapeKept DEF LeafAddrs
<1>10. \A a : Reported(a)' <=> Reported(a)
  BY DEF Reported
<1>11. LinksInv'
  BY <1>1, <1>9, <1>10 DEF LinksInv, Reset, Update
<1>12. ASSUME NEW a \in LeafAddrs
       PROVE  ~Counted(a)' /\ Ran(a, 0)'
  <2>1. a \in Addr
    BY <1>1, LeafAddress
  <2>2. /\ to_dcu[a] = <<>> /\ runs[a] = (IF already_done[a] THEN 1 ELSE 0)
        /\ already_done[a] => Reported(a)
    BY <1>2, <2>1 DEF Asleep
  <2>3. Finished(a)' <=> already_done[a]
    BY <2>2 DEF Finished, ResetPending
  <2>4. Counted(a)' <=> Finished(a)' /\ ~Reported(a)'
    BY <1>8, CountedIs, PTL
  <2>5. runs[a] = 0 + (IF already_done[a] THEN 1 ELSE 0)
    BY <2>2
  <2> QED BY <1>10, <2>2, <2>3, <2>4, <2>5 DEF Ran
<1>13. ASSUME NEW c \in Drivers(nest) PROVE DriverInv(c)'
  <2>1. /\ c \in CCU /\ c \in InUse(nest) /\ cfg[c] \in CcuConfig /\ cfg[c].lower < cfg[c].upper
        /\ cfg[c].lower \in Nat /\ cfg[c].step \in Nat
    BY <1>5, <1>6, Settled DEF CcuConfig
  <2>2. \A l \in LeavesOf(c) : ~Counted(l.addr)' /\ Ran(l.addr, 0)'
    <3>1. \A l \in LeavesOf(c) : l.addr \in LeafAddrs
      BY <1>1, <2>1, LeafAddress DEF Leaves
    <3> QED BY <1>12, <3>1
  <2>3. CountedLeaves(c)' = {}
    BY <1>9, <2>2 DEF CountedLeaves
  <2>4. received'[c] = Cardinality(CountedLeaves(c)')
    BY <1>7, <2>1, <2>3, FS_EmptySet
  <2>5. value'[c] = cfg'[c].lower + 0 * cfg'[c].step
    BY <1>3, <1>7, <2>1
  <2>6. /\ ccu_state'[c] = "RUNNING" /\ value'[c] < cfg'[c].upper
        /\ (\A l \in LeavesOf(c) : Ran(l.addr, 0))'
    BY <1>3, <1>7, <1>9, <2>1, <2>2
  <2>7. LapOf(c, 0)'
    BY <2>4, <2>5, <2>6 DEF LapOf
  <2> QED BY <2>7 DEF DriverInv
<1>14. ASSUME NEW c \in InUse(nest) \ Drivers(nest) PROVE OuterInv(c)'
  <2>1. /\ c \in CCU /\ value'[c] = cfg'[c].lower /\ ccu_state'[c] = "RUNNING" /\ received'[c] = 0
    BY <1>3, <1>6, <1>7
  <2>2. CompleteUnder(c)' = {}
    <3>1. \A d \in Under(nest, c) : ccu_state'[d] # "COMPLETE"
      BY <1>6, <1>7 DEF Under
    <3> QED BY <1>9, <3>1 DEF CompleteUnder
  <2> QED BY <2>1, <2>2, FS_EmptySet DEF OuterInv
<1>15. ASSUME NEW c \in CCU \ InUse(nest) PROVE IdleInv(c)'
  BY <1>2, <1>7, <1>15 DEF IdleInv, Asleep
<1>16. Awake'
  BY <1>9, <1>13, <1>14, <1>15 DEF Awake
<1> QED BY <1>1, <1>4, <1>8, <1>11, <1>16 DEF LoopInv

LEMMA CycleBefore ==
  ASSUME NestsProper, LoopInv, pc < Len(nest), NEW config \in BOOLEAN, NEW sent \in BOOLEAN,
         NEW tile \in BOOLEAN, NEW remote \in BOOLEAN, Cycle(config, sent, tile, remote)
  PROVE  LoopInv'
<1>1. pc \in Nat /\ Len(nest) \in Nat
  BY NestFacts DEF LoopInv, NestTypes
<1> DEFINE m == IF config THEN nest[pc + 1] ELSE NoConfig
<1>2. /\ configure(m) /\ nest' = nest /\ pc' = IF config THEN pc + 1 ELSE pc
      /\ to_dcu' = to_dcu /\ from_tile' = from_tile /\ from_remote' = from_remote
      /\ already_done' = already_done /\ shadow' = shadow /\ runs' = runs
      /\ value' = [c \in CCU |->
           IF c \in Launched(m) THEN cfg[c].lower
           ELSE IF m.cmd = "LOWER" /\ m.ccu = c THEN m.n ELSE value[c]]
      /\ ccu_state' = [c \in CCU |-> IF c \in Launched(m) THEN "RUNNING" ELSE ccu_state[c]]
      /\ received' = [c \in CCU |-> IF c \in Launched(m) THEN 0 ELSE received[c]]
      /\ dispatch_idx' = [c \in CCU |-> IF c \in Launched(m) THEN 0 ELSE dispatch_idx[c]]
  BY SleepingCycle
<1>3. CASE config
  <2>1. m = nest[pc + 1]
    BY <1>3
  <2> HIDE DEF m
  <2>2. CASE pc + 1 < Len(nest)
    BY <1>2, <1>3, <2>1, <2>2, ConfigureCycle
  <2>3. CASE pc + 1 = Len(nest)
    BY <1>2, <1>3, <2>1, <2>3, LaunchCycle
  <2> QED BY <1>1, <2>2, <2>3
<1>4. CASE ~config
  <2>1. m = NoConfig /\ m.cmd = "none"
    BY <1>4 DEF NoConfig
  <2> HIDE DEF m
  <2>2. Launched(m) = {} /\ cfg' = cfg /\ pc' = pc
    BY <1>2, <1>4, <2>1 DEF Launched, configure
  <2>3. /\ NestTypes /\ ConfigInv /\ LinksInv /\ Asleep
    BY DEF LoopInv
  <2>4. /\ value' = value /\ ccu_state' = ccu_state /\ received' = received
        /\ dispatch_idx' = dispatch_idx
    BY <1>2, <2>1, <2>2, <2>3 DEF NestTypes
  <2>5. NestTypes' /\ ConfigInv'
    BY <1>2, <2>2, <2>3, <2>4, ConfigKept DEF NestTypes
  <2>6. Leaves' = Leaves /\ LeafAddrs' = LeafAddrs /\ InUse(nest') = InUse(nest)
    BY <1>2, ShapeKept DEF LeafAddrs
  <2>7. \A a : Reported(a)' <=> Reported(a)
    BY <1>2 DEF Reported
  <2>8. LinksInv'
    BY <1>2, <2>3, <2>6, <2>7 DEF LinksInv, Reset, Update
  <2>9. Asleep'
    BY <1>2, <2>3, <2>4, <2>6, <2>7 DEF Asleep
  <2> QED BY <1>2, <2>2, <2>5, <2>8, <2>9 DEF LoopInv
<1> QED BY <1>3, <1>4

-----------------------------------------------------------------------------
(* A cycle of the running nest: what is dispatched, what is counted.       *)
Advancing(ev, remote_ev) == {c \in Counting(ev, remote_ev) : Reaches(c)}
Returning(sent) == IF EndsDispatch(sent) THEN {active} ELSE {}

Running(sent, ev, remote_ev) ==
  /\ sent \in BOOLEAN
  /\ sent => Dispatching # {} /\ to_dcu[active_target.addr] = <<>>
  /\ ev.valid \in BOOLEAN /\ remote_ev \in BOOLEAN
  /\ ev.valid => from_tile # <<>> /\ ev.addr = Head(from_tile) /\ can_match(ev.addr)
  /\ remote_ev => from_remote # <<>> /\ has_running
  /\ cfg' = cfg /\ nest' = nest /\ pc' = pc
  /\ already_done' = already_done /\ shadow' = shadow /\ runs' = runs
  /\ to_dcu' = IF sent THEN [to_dcu EXCEPT ![active_target.addr] = <<dispatched>>] ELSE to_dcu
  /\ from_tile' = IF ev.valid THEN Tail(from_tile) ELSE from_tile
  /\ from_remote' = IF remote_ev THEN Tail(from_remote) ELSE from_remote
  /\ value' = [c \in CCU |->
       IF c \in Advancing(ev, remote_ev) THEN new_val(c)
       ELSE IF c \in Restarted(sent) THEN cfg[c].lower ELSE value[c]]
  /\ ccu_state' = [c \in CCU |->
       IF c \in Advancing(ev, remote_ev) THEN IF Finishes(c) THEN "COMPLETE" ELSE "DISPATCHING"
       ELSE IF c \in Restarted(sent) \cup Returning(sent) THEN "RUNNING" ELSE ccu_state[c]]
  /\ received' = [c \in CCU |->
       IF c \in Counting(ev, remote_ev) THEN new_count(c)
       ELSE IF c \in Restarted(sent) \cup Returning(sent) THEN 0 ELSE received[c]]
  /\ dispatch_idx' = [c \in CCU |->
       IF c \in {d \in Advancing(ev, remote_ev) : ~Finishes(d)} \cup Restarted(sent)
                  \cup Returning(sent) THEN 0
       ELSE IF sent /\ c = active THEN next_idx ELSE dispatch_idx[c]]

LEMMA RunningCycle ==
  ASSUME NestsProper, LoopInv, ~(pc < Len(nest)), NEW config \in BOOLEAN, NEW sent \in BOOLEAN,
         NEW tile \in BOOLEAN, NEW remote \in BOOLEAN, Cycle(config, sent, tile, remote)
  PROVE  \E ev, remote_ev : Running(sent, ev, remote_ev)
<1> DEFINE ev == IF tile /\ from_tile # <<>>
                   THEN [valid |-> can_match(Head(from_tile)), addr |-> Head(from_tile)]
                   ELSE [valid |-> FALSE]
           remote_ev == remote /\ has_running
           m == IF config THEN nest[pc + 1] ELSE NoConfig
<1>1. /\ config => pc < Len(nest)
      /\ sent => Dispatching # {} /\ to_dcu[active_target.addr] = <<>>
      /\ remote => from_remote # <<>>
      /\ update_ccu_ff(m, sent, ev, remote_ev)
      /\ nest' = nest /\ pc' = IF config THEN pc + 1 ELSE pc
      /\ to_dcu' = IF sent THEN [to_dcu EXCEPT ![active_target.addr] = <<dispatched>>] ELSE to_dcu
      /\ from_tile' = IF ev.valid THEN Tail(from_tile) ELSE from_tile
      /\ from_remote' = IF remote_ev THEN Tail(from_remote) ELSE from_remote
      /\ already_done' = already_done /\ shadow' = shadow /\ runs' = runs
  BY DEF Cycle, dcu_vars
<1>2. ~config /\ m = NoConfig /\ pc' = pc
  BY <1>1
<1>3. /\ ev.valid \in BOOLEAN /\ remote_ev \in BOOLEAN
      /\ ev.valid => from_tile # <<>> /\ ev.addr = Head(from_tile) /\ can_match(ev.addr)
      /\ remote_ev => from_remote # <<>> /\ has_running
  BY <1>1 DEF can_match, has_running
<1> HIDE DEF ev, remote_ev, m
<1>4. m.cmd = "none" /\ Launched(m) = {} /\ cfg' = cfg
  <2>1. m.cmd = "none"
    BY <1>2 DEF NoConfig
  <2>2. configure(m)
    BY <1>1 DEF update_ccu_ff
  <2> QED BY <2>1, <2>2 DEF Launched, configure
<1>5. /\ value' = [c \in CCU |->
           IF c \in Advancing(ev, remote_ev) THEN new_val(c)
           ELSE IF c \in Launched(m) \cup Restarted(sent) THEN cfg[c].lower
           ELSE IF m.cmd = "LOWER" /\ m.ccu = c THEN m.n ELSE value[c]]
      /\ ccu_state' = [c \in CCU |->
           IF c \in Advancing(ev, remote_ev) THEN IF Finishes(c) THEN "COMPLETE" ELSE "DISPATCHING"
           ELSE IF c \in (Launched(m) \cup Restarted(sent)) \cup Returning(sent)
             THEN "RUNNING" ELSE ccu_state[c]]
      /\ received' = [c \in CCU |->
           IF c \in Counting(ev, remote_ev) THEN new_count(c)
           ELSE IF c \in (Launched(m) \cup Restarted(sent)) \cup Returning(sent)
             THEN 0 ELSE received[c]]
      /\ dispatch_idx' = [c \in CCU |->
           IF c \in ({d \in Advancing(ev, remote_ev) : ~Finishes(d)}
                       \cup (Launched(m) \cup Restarted(sent))) \cup Returning(sent)
             THEN 0
           ELSE IF sent /\ c = active THEN next_idx ELSE dispatch_idx[c]]
  BY <1>1 DEF update_ccu_ff, Advancing, Returning
<1>6. Launched(m) \cup Restarted(sent) = Restarted(sent)
  BY <1>4
<1>7. /\ value' = [c \in CCU |->
           IF c \in Advancing(ev, remote_ev) THEN new_val(c)
           ELSE IF c \in Restarted(sent) THEN cfg[c].lower ELSE value[c]]
      /\ ccu_state' = [c \in CCU |->
           IF c \in Advancing(ev, remote_ev) THEN IF Finishes(c) THEN "COMPLETE" ELSE "DISPATCHING"
           ELSE IF c \in Restarted(sent) \cup Returning(sent) THEN "RUNNING" ELSE ccu_state[c]]
      /\ received' = [c \in CCU |->
           IF c \in Counting(ev, remote_ev) THEN new_count(c)
           ELSE IF c \in Restarted(sent) \cup Returning(sent) THEN 0 ELSE received[c]]
      /\ dispatch_idx' = [c \in CCU |->
           IF c \in {d \in Advancing(ev, remote_ev) : ~Finishes(d)} \cup Restarted(sent)
                      \cup Returning(sent) THEN 0
           ELSE IF sent /\ c = active THEN next_idx ELSE dispatch_idx[c]]
  BY <1>4, <1>5, <1>6
<1>8. Running(sent, ev, remote_ev)
  BY <1>1, <1>2, <1>3, <1>4, <1>7 DEF Running
<1> QED BY <1>8

LEMMA NoWrap ==
  ASSUME NEW n \in Nat, NEW m \in Nat, n < m
  PROVE  n % m = n
<1>1. m \in Nat \ {0} /\ 0 \in Int /\ n \in 0 .. (m - 1)
  OBVIOUS
<1>2. (0 * m + n) % m = n
  BY <1>1, RemainderUnique
<1>3. 0 * m + n = n
  OBVIOUS
<1> QED BY <1>2, <1>3

Distinct(s) == \A i, j \in 1 .. Len(s) : s[i] = s[j] => i = j

LEMMA Tailed ==
  ASSUME NEW s \in Seq(Addr), Len(s) > 0, Distinct(s)
  PROVE  /\ Tail(s) \in Seq(Addr) /\ Head(s) \in Addr /\ Distinct(Tail(s))
         /\ \A b : Holds(Tail(s), b) <=> b # Head(s) /\ Holds(s, b)
         /\ \A i \in 1 .. Len(Tail(s)) : Holds(s, Tail(s)[i])
         /\ Holds(s, Head(s))
<1> DEFINE t == Tail(s)
<1> USE DEF Holds, Distinct
<1>0. s # <<>>
  OBVIOUS
<1>1. /\ t \in Seq(Addr) /\ Len(s) \in Nat \ {0} /\ Len(t) = Len(s) - 1 /\ Head(s) = s[1]
      /\ \A i \in 1 .. Len(t) : t[i] = s[i + 1]
      /\ \A i \in 1 .. Len(s) : s[i] \in Addr
  BY <1>0, EmptySeq, HeadTailProperties
<1> HIDE DEF t
<1>2. \A i \in 1 .. Len(t) : i + 1 \in 1 .. Len(s) /\ i + 1 # 1
  BY <1>1
<1>3. 1 \in 1 .. Len(s)
  BY <1>1
<1>4. ASSUME NEW i \in 1 .. Len(t), NEW j \in 1 .. Len(t), t[i] = t[j] PROVE i = j
  <2>1. i + 1 = j + 1
    BY <1>1, <1>2, <1>4
  <2> QED BY <1>1, <2>1
<1>5. ASSUME NEW b, NEW i \in 1 .. Len(t), t[i] = b
      PROVE  b # Head(s) /\ \E j \in 1 .. Len(s) : s[j] = b
  <2>1. s[i + 1] = b
    BY <1>1, <1>5
  <2> QED BY <1>1, <1>2, <1>3, <2>1
<1>6. ASSUME NEW b, b # Head(s), NEW i \in 1 .. Len(s), s[i] = b
      PROVE  \E j \in 1 .. Len(t) : t[j] = b
  <2>1. i # 1
    BY <1>1, <1>6
  <2>2. i - 1 \in 1 .. Len(t) /\ (i - 1) + 1 = i
    BY <1>1, <2>1
  <2> QED BY <1>1, <1>6, <2>2
<1>7. \A i \in 1 .. Len(t) : \E j \in 1 .. Len(s) : s[j] = t[i]
  BY <1>1, <1>2
<1>8. \A b : Holds(t, b) <=> b # Head(s) /\ Holds(s, b)
  BY <1>5, <1>6
<1>9. Distinct(t) /\ Holds(s, Head(s)) /\ \A i \in 1 .. Len(t) : Holds(s, t[i])
  BY <1>1, <1>3, <1>4, <1>7
<1> HIDE DEF Holds, Distinct
<1> QED BY <1>1, <1>8, <1>9 DEF t

(* Only a driver dispatches.                                               *)
LEMMA ActiveIs ==
  ASSUME Configured, Awake, Dispatching # {}
  PROVE  active \in Drivers(nest) /\ active \in CCU /\ ccu_state[active] = "DISPATCHING"
<1>1. Dispatching \in SUBSET Nat /\ Dispatching \subseteq CCU
  BY LoopNestAssumption DEF Dispatching, CCU
<1>2. \E c \in Dispatching : \A d \in Dispatching : c <= d
  BY <1>1, LeastElement
<1>3. active \in Dispatching
  BY <1>2 DEF active
<1>4. active \in CCU /\ ccu_state[active] = "DISPATCHING"
  BY <1>3 DEF Dispatching
<1>5. active \in InUse(nest)
  BY <1>4 DEF Awake, IdleInv
<1>6. active \in Drivers(nest)
  BY <1>4, <1>5 DEF Awake, OuterInv
<1> QED BY <1>4, <1>6

LEMMA DispatchIs ==
  ASSUME Configured, Awake, Dispatching # {}, NEW i, i = dispatch_idx[active] + 1
  PROVE  /\ i \in 1 .. Len(cfg[active].targets) /\ next_idx = i
         /\ active_target = cfg[active].targets[i]
         /\ EndsDispatch(TRUE) <=> i = Len(cfg[active].targets)
         /\ dispatched = IF active_target.shadow
                           THEN Update(active_target.addr, value[active])
                           ELSE Reset(active_target.addr)
<1>1. active \in Drivers(nest) /\ active \in CCU /\ ccu_state[active] = "DISPATCHING"
  BY ActiveIs
<1>2. PICK k \in Nat : LapOf(active, k)
  BY <1>1 DEF Awake, DriverInv
<1>3. dispatch_idx[active] < Len(cfg[active].targets)
  BY <1>1, <1>2 DEF LapOf
<1>4. /\ dispatch_idx[active] \in Nat /\ Len(cfg[active].targets) \in Nat
      /\ Len(cfg[active].targets) < MaxTargets /\ MaxTargets \in Nat
  <2>1. Len(cfg[active].targets) < MaxTargets
    BY <1>1, UsersAreCCUs, Settled DEF Configured, NestTypes
  <2>2. dispatch_idx[active] \in Nat
    BY <1>1 DEF Configured, NestTypes
  <2> QED BY <1>1, <2>1, <2>2, TargetsAre, LoopNestAssumption DEF CountLimit
<1>5. i \in 1 .. Len(cfg[active].targets) /\ i < MaxTargets /\ i \in Nat
  BY <1>3, <1>4
<1>6. next_idx = i
  <2>1. i % MaxTargets = i
    BY <1>4, <1>5, NoWrap
  <2> QED BY <2>1 DEF next_idx
<1>7. active_target = cfg[active].targets[i]
  BY <1>5 DEF active_target
<1>8. EndsDispatch(TRUE) <=> i = Len(cfg[active].targets)
  BY <1>4, <1>5, <1>6 DEF EndsDispatch
<1>9. dispatched = IF active_target.shadow
                     THEN Update(active_target.addr, value[active])
                     ELSE Reset(active_target.addr)
  BY DEF dispatched, Update, Reset
<1> QED BY <1>5, <1>6, <1>7, <1>8, <1>9

LEMMA NoRestart ==
  ASSUME Configured, Awake, NEW sent \in BOOLEAN, sent => Dispatching # {}, NEW c \in InUse(nest)
  PROVE  c \notin Restarted(sent)
<1> SUFFICES ASSUME EndsDispatch(sent), c \in Children(active) PROVE FALSE
  BY DEF Restarted
<1>1. active \in Drivers(nest)
  BY ActiveIs DEF EndsDispatch
<1>2. ~cfg[c].root /\ cfg[c].parent = active
  BY DEF Children
<1> QED BY <1>1, <1>2, Settled

(* At most one completion is counted in a cycle, by the driver of the leaf *)
(* and, when that completes, by its parent.                                *)
NoHit(ev, remote_ev) ==
  ~remote_ev /\ Counting(ev, remote_ev) = {} /\ \A b : Reported(b)' <=> Reported(b)

Hit(d, l, ev, remote_ev) ==
  /\ d \in Drivers(nest) /\ ccu_state[d] = "RUNNING"
  /\ l \in LeavesOf(d) /\ Reported(l.addr) /\ (remote_ev <=> l.remote)
  /\ \A b : Reported(b)' <=> b # l.addr /\ Reported(b)
  /\ \A c \in Drivers(nest) : c \in Counting(ev, remote_ev) <=> c = d
  /\ \A c \in InUse(nest) \ Drivers(nest) :
       c \in Counting(ev, remote_ev)
         <=> Reaches(d) /\ Finishes(d) /\ ~cfg[d].root /\ cfg[d].parent = c
  /\ \A c \in CCU \ InUse(nest) :
       c \in Counting(ev, remote_ev) <=> remote_ev /\ ccu_state[c] = "RUNNING"

LEMMA RemoteAlone ==
  ASSUME Configured, NEW l \in Leaves, l.remote
  PROVE  /\ \A m \in Leaves : m.remote
         /\ \A c, d \in InUse(nest) : c = d
         /\ InUse(nest) = Drivers(nest)
<1>1. NestsProper /\ nest \in Nests /\ Proper(nest)
  BY NestFacts DEF Configured, NestTypes
<1>2. PICK c \in CCU : l \in LeavesOf(c)
  BY DEF Leaves
<1>3. c \in Drivers(nest) /\ l \in LeavesIn(nest, c)
  BY <1>1, <1>2, TargetFacts DEF LeavesOf
<1>4. /\ \A e \in Drivers(nest) : \A m \in LeavesIn(nest, e) : m.remote
      /\ \A e, d \in InUse(nest) : e = d
  BY <1>1, <1>3 DEF Proper
<1>5. \A m \in Leaves : m.remote
  <2> SUFFICES ASSUME NEW e \in CCU, NEW m \in LeavesOf(e) PROVE m.remote
    BY DEF Leaves
  <2>1. e \in Drivers(nest)
    BY <1>1, TargetFacts
  <2> QED BY <1>4, <2>1 DEF LeavesOf
<1>6. InUse(nest) = Drivers(nest)
  BY <1>1, <1>3, <1>4, UsersAreCCUs
<1> QED BY <1>4, <1>5, <1>6

(* The completion of a local leaf matches the driver of that leaf.         *)
LEMMA MatchIs ==
  ASSUME Configured, NEW c \in CCU, NEW d \in CCU, NEW l \in LeavesOf(d), ~l.remote
  PROVE  Matches(c, l.addr) <=> c = d /\ ccu_state[c] = "RUNNING"
<1>1. NestsProper /\ nest \in Nests
  BY DEF Configured, NestTypes
<1>2. ~l.shadow /\ l.addr \in Addr
  BY <1>1, TargetFacts
<1>3. ASSUME Matches(c, l.addr) PROVE c = d /\ ccu_state[c] = "RUNNING"
  <2>1. PICK i \in 1 .. Len(cfg[c].targets) :
          ~cfg[c].targets[i].shadow /\ cfg[c].targets[i].addr = l.addr
    BY <1>3 DEF Matches
  <2>2. cfg[c].targets[i] \in LeavesOf(c)
    BY <2>1, TargetsAre
  <2>3. c = d
    BY <1>1, <2>1, <2>2, Apart
  <2> QED BY <1>3, <2>3 DEF Matches
<1>4. ASSUME c = d, ccu_state[c] = "RUNNING" PROVE Matches(c, l.addr)
  <2>1. PICK i \in 1 .. Len(cfg[c].targets) : cfg[c].targets[i] = l
    BY <1>4, TargetsAre
  <2>2. ~cfg[c].targets[i].remote /\ ~cfg[c].targets[i].shadow
        /\ cfg[c].targets[i].addr = l.addr
    BY <1>2, <2>1
  <2> QED BY <1>4, <2>2 DEF Matches
<1> QED BY <1>3, <1>4

LEMMA TileHit ==
  ASSUME Configured, Awake, LinksInv, NEW sent, NEW ev, NEW remote_ev,
         Running(sent, ev, remote_ev), ev.valid
  PROVE  \E d, l : Hit(d, l, ev, remote_ev)
<1>1. /\ NestsProper /\ nest \in Nests /\ from_tile \in Seq(Addr)
      /\ from_tile # <<>> /\ ev.addr = Head(from_tile) /\ can_match(ev.addr)
      /\ from_tile' = Tail(from_tile)
      /\ \A i, j \in 1 .. Len(from_tile) : from_tile[i] = from_tile[j] => i = j
  BY DEF Configured, NestTypes, Running, LinksInv
<1>2. /\ \A b : Holds(from_tile', b) <=> b # Head(from_tile) /\ Holds(from_tile, b)
      /\ Holds(from_tile, Head(from_tile))
  <2>1. Len(from_tile) > 0 /\ Distinct(from_tile)
    BY <1>1 DEF Distinct
  <2> QED BY <1>1, <2>1, Tailed
<1>3. PICK l \in Leaves : l.addr = ev.addr /\ ~l.remote
  BY <1>1, <1>2 DEF LinksInv, Holds
<1>4. PICK d \in CCU : l \in LeavesOf(d)
  BY DEF Leaves
<1>5. d \in Drivers(nest) /\ Drivers(nest) \subseteq InUse(nest) /\ InUse(nest) \subseteq CCU
  BY <1>1, <1>4, TargetFacts, UsersAreCCUs
<1>6. \A c \in CCU : Matches(c, ev.addr) <=> c = d /\ ccu_state[c] = "RUNNING"
  BY <1>3, <1>4, MatchIs
<1>7. ccu_state[d] = "RUNNING"
  BY <1>1, <1>6 DEF can_match
<1>8. TileHits(ev) = {d}
  BY <1>6, <1>7 DEF TileHits
<1>9. from_remote = <<>> /\ ~remote_ev
  <2>1. ASSUME from_remote # <<>> PROVE FALSE
    <3>1. from_remote \in Seq(Addr)
      BY DEF Configured, NestTypes
    <3>2. 1 \in 1 .. Len(from_remote)
      BY <2>1, <3>1
    <3>3. PICK m \in Leaves : m.remote
      BY <3>2 DEF LinksInv
    <3> QED BY <1>3, <3>3, RemoteAlone
  <2> QED BY <2>1 DEF Running
<1>10. \A b : Reported(b)' <=> b # l.addr /\ Reported(b)
  <2>1. from_remote' = <<>> /\ \A i \in 1 .. Len(<<>>) : FALSE
    BY <1>9 DEF Running
  <2>2. \A b : Reported(b) <=> Holds(from_tile, b)
    BY <1>9, <2>1 DEF Reported, Holds
  <2>3. \A b : Reported(b)' <=> Holds(from_tile', b)
    BY <2>1 DEF Reported, Holds
  <2> QED BY <1>1, <1>2, <1>3, <2>2, <2>3
<1>11. Reported(l.addr)
  BY <1>1, <1>2, <1>3 DEF Reported, Holds
<1>12. Counting(ev, remote_ev) =
         {d} \cup {cfg[d].parent : c \in {h \in {d} : Reaches(h) /\ Finishes(h) /\ ~cfg[h].root}}
  <2>1. RemoteHits(remote_ev) = {}
    BY <1>9 DEF RemoteHits
  <2>2. Notified(ev) =
          {cfg[d].parent : c \in {h \in {d} : Reaches(h) /\ Finishes(h) /\ ~cfg[h].root}}
    BY <1>8 DEF Notified
  <2> QED BY <1>8, <2>1, <2>2 DEF Counting
<1>13. ~cfg[d].root => cfg[d].parent \in InUse(nest) \ Drivers(nest)
  BY <1>5, Settled
<1>14. \A c : c \in Counting(ev, remote_ev)
              <=> c = d \/ (Reaches(d) /\ Finishes(d) /\ ~cfg[d].root /\ cfg[d].parent = c)
  BY <1>12
<1>15. /\ \A c \in Drivers(nest) : c \in Counting(ev, remote_ev) <=> c = d
       /\ \A c \in InUse(nest) \ Drivers(nest) :
            c \in Counting(ev, remote_ev)
              <=> Reaches(d) /\ Finishes(d) /\ ~cfg[d].root /\ cfg[d].parent = c
       /\ \A c \in CCU \ InUse(nest) : c \notin Counting(ev, remote_ev)
  BY <1>5, <1>13, <1>14
<1>16. Hit(d, l, ev, remote_ev)
  BY <1>3, <1>4, <1>5, <1>7, <1>9, <1>10, <1>11, <1>15 DEF Hit
<1> QED BY <1>16

LEMMA RemoteHit ==
  ASSUME Configured, Awake, LinksInv, NEW sent, NEW ev, NEW remote_ev,
         Running(sent, ev, remote_ev), remote_ev
  PROVE  \E d, l : Hit(d, l, ev, remote_ev)
<1>1. /\ NestsProper /\ nest \in Nests /\ from_remote \in Seq(Addr)
      /\ from_remote # <<>> /\ has_running
      /\ from_remote' = Tail(from_remote)
      /\ \A i, j \in 1 .. Len(from_remote) : from_remote[i] = from_remote[j] => i = j
  BY DEF Configured, NestTypes, Running, LinksInv
<1>2. /\ \A b : Holds(from_remote', b) <=> b # Head(from_remote) /\ Holds(from_remote, b)
      /\ Holds(from_remote, Head(from_remote))
  <2>1. Len(from_remote) > 0 /\ Distinct(from_remote)
    BY <1>1 DEF Distinct
  <2> QED BY <1>1, <2>1, Tailed
<1>3. PICK l \in Leaves : l.addr = Head(from_remote) /\ l.remote
  BY <1>1, <1>2 DEF LinksInv, Holds
<1>4. PICK d \in CCU : l \in LeavesOf(d)
  BY DEF Leaves
<1>5. d \in Drivers(nest) /\ Drivers(nest) \subseteq InUse(nest) /\ InUse(nest) \subseteq CCU
  BY <1>1, <1>4, TargetFacts, UsersAreCCUs
<1>6. /\ \A m \in Leaves : m.remote
      /\ \A c \in InUse(nest) : c = d
      /\ InUse(nest) = Drivers(nest)
  BY <1>3, <1>5, RemoteAlone
<1>7. Reported(l.addr)
  BY <1>2, <1>3 DEF Reported, Holds
<1>8. ccu_state[d] = "RUNNING"
  <2>1. PICK c \in CCU : ccu_state[c] = "RUNNING"
    BY <1>1 DEF has_running
  <2>2. CASE c \in InUse(nest)
    BY <1>6, <2>1, <2>2
  <2>3. CASE c \notin InUse(nest)
    <3>1. \/ \A e \in Drivers(nest) : \A m \in LeavesOf(e) : ~m.remote
          \/ \A e \in InUse(nest) : ccu_state[e] = "RUNNING"
      BY <2>1, <2>3 DEF Awake, IdleInv
    <3> QED BY <1>3, <1>4, <1>5, <3>1
  <2> QED BY <2>2, <2>3
<1>9. from_tile = <<>> /\ ~ev.valid
  <2>1. ASSUME from_tile # <<>> PROVE FALSE
    <3>1. from_tile \in Seq(Addr)
      BY DEF Configured, NestTypes
    <3>2. 1 \in 1 .. Len(from_tile)
      BY <2>1, <3>1
    <3>3. \E m \in Leaves : ~m.remote
      BY <3>2 DEF LinksInv
    <3> QED BY <1>6, <3>3
  <2> QED BY <2>1 DEF Running
<1>10. \A b : Reported(b)' <=> b # l.addr /\ Reported(b)
  <2>1. from_tile' = <<>> /\ \A i \in 1 .. Len(<<>>) : FALSE
    BY <1>9 DEF Running
  <2> QED BY <1>2, <1>3, <1>9, <2>1 DEF Reported, Holds
<1>11. Counting(ev, remote_ev) = {c \in CCU : ccu_state[c] = "RUNNING"}
  <2>1. TileHits(ev) = {} /\ Notified(ev) = {}
    BY <1>9 DEF TileHits, Notified
  <2> QED BY <2>1 DEF Counting, RemoteHits
<1>12. /\ \A c \in Drivers(nest) : c \in Counting(ev, remote_ev) <=> c = d
       /\ \A c \in CCU \ InUse(nest) : c \in Counting(ev, remote_ev) <=> ccu_state[c] = "RUNNING"
  BY <1>4, <1>5, <1>6, <1>8, <1>11
<1>13. Hit(d, l, ev, remote_ev)
  BY <1>3, <1>4, <1>5, <1>6, <1>7, <1>8, <1>10, <1>12 DEF Hit
<1> QED BY <1>13

LEMMA HitOrNot ==
  ASSUME Configured, Awake, LinksInv, NEW sent, NEW ev, NEW remote_ev,
         Running(sent, ev, remote_ev)
  PROVE  NoHit(ev, remote_ev) \/ \E d, l : Hit(d, l, ev, remote_ev)
<1>1. CASE ev.valid
  BY <1>1, TileHit
<1>2. CASE remote_ev
  BY <1>2, RemoteHit
<1>3. CASE ~ev.valid /\ ~remote_ev
  <2>1. Counting(ev, remote_ev) = {}
    BY <1>3 DEF Counting, TileHits, Notified, RemoteHits
  <2>2. from_tile' = from_tile /\ from_remote' = from_remote
    BY <1>3 DEF Running
  <2>3. NoHit(ev, remote_ev)
    BY <1>3, <2>1, <2>2 DEF NoHit, Reported
  <2> QED BY <2>3
<1> QED BY <1>1, <1>2, <1>3

LEMMA RunningTypes ==
  ASSUME Configured, LinksInv, Awake, NEW sent, NEW ev, NEW remote_ev, Running(sent, ev, remote_ev)
  PROVE  NestTypes'
<1>1. NestTypes
  BY DEF Configured
<1>2. /\ CountLimit = 16 /\ MaxTargets \in Nat \ {0} /\ ValueLimit \in Nat \ {0}
  BY LoopNestAssumption DEF CountLimit
<1>3. ASSUME NEW c \in CCU
      PROVE  /\ cfg[c].lower \in 0 .. (ValueLimit - 1) /\ cfg[c].step \in 0 .. (ValueLimit - 1)
             /\ value[c] \in 0 .. (ValueLimit - 1)
             /\ received[c] \in 0 .. (CountLimit - 1) /\ dispatch_idx[c] \in 0 .. (MaxTargets - 1)
             /\ new_val(c) \in 0 .. (ValueLimit - 1) /\ new_count(c) \in 0 .. (CountLimit - 1)
             /\ ccu_state[c] \in {"IDLE", "RUNNING", "DISPATCHING", "COMPLETE"}
  <2>1. /\ cfg[c].lower \in 0 .. (ValueLimit - 1) /\ cfg[c].step \in 0 .. (ValueLimit - 1)
        /\ value[c] \in 0 .. (ValueLimit - 1)
        /\ received[c] \in 0 .. (CountLimit - 1) /\ dispatch_idx[c] \in 0 .. (MaxTargets - 1)
        /\ ccu_state[c] \in {"IDLE", "RUNNING", "DISPATCHING", "COMPLETE"}
    BY <1>1 DEF NestTypes, CcuConfig
  <2>2. ASSUME NEW n \in Nat, NEW b \in Nat \ {0} PROVE n % b \in 0 .. (b - 1)
    OBVIOUS
  <2>3. value[c] + cfg[c].step \in Nat /\ received[c] + 1 \in Nat
    BY <1>2, <2>1
  <2>4. /\ (value[c] + cfg[c].step) % ValueLimit \in 0 .. (ValueLimit - 1)
        /\ (received[c] + 1) % CountLimit \in 0 .. (CountLimit - 1)
    <3> DEFINE x == value[c] + cfg[c].step
               y == received[c] + 1
    <3>1. x \in Nat /\ y \in Nat /\ ValueLimit \in Nat \ {0} /\ CountLimit \in Nat \ {0}
      BY <1>2, <2>3
    <3> HIDE DEF x, y
    <3>2. x % ValueLimit \in 0 .. (ValueLimit - 1)
      BY <2>2, <3>1
    <3>3. y % CountLimit \in 0 .. (CountLimit - 1)
      BY <2>2, <3>1
    <3> QED BY <3>2, <3>3 DEF x, y
  <2> QED BY <2>1, <2>4 DEF new_val, new_count
<1>4. sent => next_idx \in 0 .. (MaxTargets - 1)
  <2> SUFFICES ASSUME sent PROVE next_idx \in 0 .. (MaxTargets - 1)
    OBVIOUS
  <2>1. active \in CCU
    BY ActiveIs DEF Running
  <2>2. dispatch_idx[active] + 1 \in Nat
    BY <1>2, <1>3, <2>1
  <2> QED BY <1>2, <2>2 DEF next_idx
<1>5. value' \in [CCU -> 0 .. (ValueLimit - 1)]
  BY <1>3 DEF Running
<1>6. received' \in [CCU -> 0 .. (CountLimit - 1)]
  <2>1. 0 \in 0 .. (CountLimit - 1)
    BY <1>2
  <2> QED BY <1>3, <2>1 DEF Running
<1>7. dispatch_idx' \in [CCU -> 0 .. (MaxTargets - 1)]
  <2>1. 0 \in 0 .. (MaxTargets - 1)
    BY <1>2
  <2> QED BY <1>3, <1>4, <2>1 DEF Running
<1>8. ccu_state' \in [CCU -> {"IDLE", "RUNNING", "DISPATCHING", "COMPLETE"}]
  BY <1>3 DEF Running
<1>9. DOMAIN to_dcu' = Addr
  BY <1>1 DEF Running, NestTypes
<1>10. from_tile' \in Seq(Addr) /\ from_remote' \in Seq(Addr)
  <2>1. /\ from_tile \in Seq(Addr) /\ from_remote \in Seq(Addr)
        /\ Distinct(from_tile) /\ Distinct(from_remote)
    BY <1>1 DEF NestTypes, LinksInv, Distinct
  <2>2. from_tile' \in Seq(Addr)
    <3>1. CASE from_tile' = from_tile
      BY <2>1, <3>1
    <3>2. CASE from_tile' # from_tile
      <4>1. from_tile # <<>> /\ from_tile' = Tail(from_tile)
        BY <3>2 DEF Running
      <4>2. Len(from_tile) > 0
        BY <2>1, <4>1
      <4> QED BY <2>1, <4>1, <4>2, Tailed
    <3> QED BY <3>1, <3>2
  <2>3. from_remote' \in Seq(Addr)
    <3>1. CASE from_remote' = from_remote
      BY <2>1, <3>1
    <3>2. CASE from_remote' # from_remote
      <4>1. from_remote # <<>> /\ from_remote' = Tail(from_remote)
        BY <3>2 DEF Running
      <4>2. Len(from_remote) > 0
        BY <2>1, <4>1
      <4> QED BY <2>1, <4>1, <4>2, Tailed
    <3> QED BY <3>1, <3>2
  <2> QED BY <2>2, <2>3
<1>11. /\ cfg' = cfg /\ nest' = nest /\ pc' = pc /\ already_done' = already_done /\ shadow' = shadow
       /\ runs' = runs
  BY DEF Running
<1> QED BY <1>1, <1>5, <1>6, <1>7, <1>8, <1>9, <1>10, <1>11 DEF NestTypes

(* A dispatched command goes to a target of the active CCU.                *)
LEMMA SentElsewhere ==
  ASSUME Configured, Awake, NEW sent, NEW ev, NEW remote_ev, Running(sent, ev, remote_ev),
         NEW c \in Drivers(nest), ~(sent /\ c = active)
  PROVE  /\ \A l \in LeavesOf(c) : to_dcu'[l.addr] = to_dcu[l.addr]
         /\ \A a \in DeliveriesOf(c) : to_dcu'[a] = to_dcu[a]
<1>1. CASE ~sent
  BY <1>1 DEF Running
<1>2. CASE sent
  <2>1. /\ Dispatching # {} /\ to_dcu' = [to_dcu EXCEPT ![active_target.addr] = <<dispatched>>]
        /\ nest \in Nests /\ NestsProper /\ c \in CCU /\ c # active
    BY <1>2, UsersAreCCUs DEF Running, Configured, NestTypes
  <2> DEFINE i == dispatch_idx[active] + 1
  <2>2. active \in CCU /\ i \in 1 .. Len(cfg[active].targets) /\ active_target = cfg[active].targets[i]
    BY <2>1, ActiveIs, DispatchIs
  <2> HIDE DEF i
  <2>3. IF active_target.shadow THEN active_target.addr \in DeliveriesOf(active)
        ELSE active_target \in LeavesOf(active)
    BY <2>2, TargetsAre
  <2>4. active_target.addr \notin DeliveriesOf(c) /\ \A l \in LeavesOf(c) : l.addr # active_target.addr
    <3>1. CASE active_target.shadow
      <4>1. active_target.addr \in DeliveriesOf(active)
        BY <2>3, <3>1
      <4>2. active_target.addr \notin DeliveriesOf(c) /\ active_target.addr \notin LeafAddrs
        BY <2>1, <2>2, <4>1, Apart
      <4>3. \A l \in LeavesOf(c) : l.addr \in LeafAddrs
        BY <2>1, LeafAddress DEF Leaves
      <4> QED BY <4>2, <4>3
    <3>2. CASE ~active_target.shadow
      <4>1. active_target \in LeavesOf(active)
        BY <2>3, <3>2
      <4>2. \A l \in LeavesOf(c) : l.addr # active_target.addr
        BY <2>1, <2>2, <4>1, Apart
      <4>3. active_target.addr \in LeafAddrs
        BY <2>2, <4>1 DEF LeafAddrs, Leaves
      <4>4. active_target.addr \notin DeliveriesOf(c)
        BY <2>1, <4>3, Apart
      <4> QED BY <4>2, <4>4
    <3> QED BY <3>1, <3>2
  <2> QED BY <2>1, <2>4 DEF Configured, NestTypes
<1> QED BY <1>1, <1>2

LEMMA NextProduct ==
  ASSUME NEW b \in Nat, NEW s \in Nat, NEW k \in Nat
  PROVE  (b + k * s) + s = b + (k + 1) * s
OBVIOUS

(* Counting x after the n elements of T: no wrap, and the count is full just *)
(* when T and x make S.                                                     *)
Adds(S, T, x, n) ==
  /\ (n + 1) % CountLimit = n + 1 /\ n + 1 = Cardinality(T \cup {x})
  /\ n + 1 >= Cardinality(S) <=> T \cup {x} = S

(* One more element of a finite set counted.                               *)
LEMMA OneMore ==
  ASSUME NEW S, IsFiniteSet(S), NEW T \in SUBSET S, NEW x \in S, x \notin T,
         NEW n, n = Cardinality(T), Cardinality(S) <= CountLimit - 1
  PROVE  Adds(S, T, x, n)
<1>1. IsFiniteSet(T) /\ Cardinality(S) \in Nat
  BY FS_Subset, FS_CardinalityType
<1>2. n + 1 = Cardinality(T \cup {x}) /\ n \in Nat
  BY <1>1, FS_AddElement, FS_CardinalityType
<1>3. T \cup {x} \in SUBSET S
  OBVIOUS
<1> DEFINE T1 == T \cup {x}
<1> HIDE DEF T1
<1>4. Cardinality(T1) <= Cardinality(S) /\ (Cardinality(S) = Cardinality(T1) => S = T1)
  BY <1>3, FS_Subset DEF T1
<1>5. n + 1 = Cardinality(T1)
  BY <1>2 DEF T1
<1>6. n + 1 < CountLimit /\ CountLimit \in Nat /\ n + 1 \in Nat
  BY <1>1, <1>2, <1>4, <1>5 DEF CountLimit
<1>7. (n + 1) % CountLimit = n + 1
  BY <1>6, NoWrap
<1>8. n + 1 >= Cardinality(S) <=> T1 = S
  BY <1>1, <1>2, <1>4, <1>5
<1> QED BY <1>5, <1>7, <1>8 DEF T1, Adds

LEMMA CardinalityOfUse ==
  ASSUME Configured, NEW c \in InUse(nest)
  PROVE  cfg[c].child_count <= CountLimit - 1
<1>1. cfg[c] \in CcuConfig
  BY Settled
<1>2. cfg[c].child_count \in 0 .. (CountLimit - 1)
  BY <1>1 DEF CcuConfig
<1>3. CountLimit \in Nat
  BY LoopNestAssumption DEF CountLimit
<1> QED BY <1>2, <1>3

(* The driver that counts a completion.                                    *)
LEMMA HitDriver ==
  ASSUME Configured, Awake, LinksInv, NEW sent, NEW ev, NEW remote_ev,
         Running(sent, ev, remote_ev), NestTypes', NEW d, NEW l, Hit(d, l, ev, remote_ev)
  PROVE  DriverInv(d)' /\ (ccu_state'[d] = "COMPLETE" <=> Reaches(d) /\ Finishes(d))
<1>1. /\ NestsProper /\ nest \in Nests /\ NestTypes
      /\ d \in Drivers(nest) /\ d \in InUse(nest) /\ d \in CCU
      /\ ccu_state[d] = "RUNNING" /\ l \in LeavesOf(d) /\ Reported(l.addr)
      /\ d \in Counting(ev, remote_ev)
  BY UsersAreCCUs DEF Configured, NestTypes, Hit
<1>2. d \notin Restarted(sent)
  <2>1. sent \in BOOLEAN /\ (sent => Dispatching # {})
    BY DEF Running
  <2> QED BY <1>1, <2>1, NoRestart
<1>3. ~(sent /\ d = active) /\ d \notin Returning(sent)
  BY <1>1, ActiveIs DEF Running, Returning, EndsDispatch
<1>4. d \in Advancing(ev, remote_ev) <=> Reaches(d)
  BY <1>1 DEF Advancing
<1>5. /\ cfg' = cfg /\ nest' = nest
      /\ value'[d] = (IF Reaches(d) THEN new_val(d) ELSE value[d])
      /\ ccu_state'[d] = IF Reaches(d) THEN IF Finishes(d) THEN "COMPLETE" ELSE "DISPATCHING"
                         ELSE "RUNNING"
      /\ received'[d] = new_count(d)
      /\ Reaches(d) /\ ~Finishes(d) => dispatch_idx'[d] = 0
  BY <1>1, <1>2, <1>3, <1>4 DEF Running
<1>6. PICK k \in Nat : LapOf(d, k)
  BY <1>1 DEF Awake, DriverInv
<1>7. /\ value[d] = cfg[d].lower + k * cfg[d].step /\ value[d] < cfg[d].upper
      /\ received[d] = Cardinality(CountedLeaves(d))
      /\ \A m \in LeavesOf(d) : Ran(m.addr, k)
      /\ k > 0 => \A a \in DeliveriesOf(d) : Delivered(a, value[d])
  BY <1>1, <1>6 DEF LapOf
(* The leaves.                                                             *)
<1>8. ASSUME NEW m \in LeavesOf(d)
      PROVE  /\ to_dcu'[m.addr] = to_dcu[m.addr] /\ (Finished(m.addr)' <=> Finished(m.addr))
             /\ Ran(m.addr, k)'
             /\ Counted(m.addr)' <=> Counted(m.addr) \/ m = l
  <2>1. to_dcu'[m.addr] = to_dcu[m.addr]
    BY <1>1, <1>3, SentElsewhere
  <2>2. already_done'[m.addr] = already_done[m.addr] /\ runs'[m.addr] = runs[m.addr]
    BY DEF Running
  <2>3. Finished(m.addr)' <=> Finished(m.addr)
    BY <2>1, <2>2 DEF Finished, ResetPending
  <2>4. Ran(m.addr, k)'
    BY <1>7, <2>2, <2>3 DEF Ran
  <2>5. Counted(m.addr) <=> Finished(m.addr) /\ ~Reported(m.addr)
    BY <1>1, CountedIs
  <2>6. Counted(m.addr)' <=> Finished(m.addr)' /\ ~Reported(m.addr)'
    BY CountedNext
  <2>7. Reported(m.addr)' <=> m.addr # l.addr /\ Reported(m.addr)
    BY DEF Hit
  <2>8. m.addr = l.addr <=> m = l
    BY <1>1, Apart
  <2>9. Reported(m.addr) => Finished(m.addr)
    <3>1. m.addr \in Addr
      BY <1>1, TargetFacts
    <3> QED BY <3>1 DEF LinksInv, Finished, ResetPending
  <2> QED BY <1>1, <2>1, <2>3, <2>4, <2>5, <2>6, <2>7, <2>8, <2>9
<1>9. /\ LeavesOf(d)' = LeavesOf(d) /\ DeliveriesOf(d)' = DeliveriesOf(d)
      /\ IsFiniteSet(LeavesOf(d))
  BY <1>1, <1>5, ShapeKept, TargetFacts
<1>10. /\ CountedLeaves(d)' = CountedLeaves(d) \cup {l} /\ l \notin CountedLeaves(d)
       /\ CountedLeaves(d) \in SUBSET LeavesOf(d)
  <2>1. ~Counted(l.addr)
    BY <1>1, CountedIs
  <2> QED BY <1>1, <1>8, <1>9, <2>1 DEF CountedLeaves
<1>11. /\ cfg[d].child_count = Cardinality(LeavesOf(d)) /\ cfg[d].child_count <= CountLimit - 1
       /\ cfg[d].step > 0 /\ cfg[d].upper + cfg[d].step <= ValueLimit
       /\ cfg[d].lower \in Nat /\ cfg[d].upper \in Nat /\ cfg[d].step \in Nat
       /\ value[d] \in Nat /\ ValueLimit \in Nat
  BY <1>1, Settled, CardinalityOfUse, LoopNestAssumption DEF CcuConfig, NestTypes
<1>12. /\ new_count(d) = Cardinality(CountedLeaves(d)')
       /\ Reaches(d) <=> CountedLeaves(d)' = LeavesOf(d)
  <2> DEFINE n == received[d]
             S == LeavesOf(d)
             T == CountedLeaves(d)
  <2>1. /\ IsFiniteSet(S) /\ T \in SUBSET S /\ l \in S /\ l \notin T /\ n = Cardinality(T)
        /\ Cardinality(S) <= CountLimit - 1
    BY <1>1, <1>7, <1>9, <1>10, <1>11
  <2> HIDE DEF n, S, T
  <2>2. Adds(S, T, l, n)
    BY <2>1, OneMore
  <2>3. new_count(d) = n + 1 /\ CountedLeaves(d)' = T \cup {l}
    BY <1>10, <2>2 DEF n, T, new_count, Adds
  <2>4. Reaches(d) <=> n + 1 >= Cardinality(S)
    BY <1>11, <2>3 DEF S, Reaches
  <2> QED BY <2>2, <2>3, <2>4 DEF S, Adds
<1>13. new_val(d) = value[d] + cfg[d].step
  <2>1. value[d] + cfg[d].step \in Nat /\ value[d] + cfg[d].step < ValueLimit
    BY <1>7, <1>11
  <2> QED BY <1>11, <2>1, NoWrap DEF new_val
<1>14. ASSUME ~Reaches(d) PROVE LapOf(d, k)'
  <2>1. (received[d] = Cardinality(CountedLeaves(d)))'
    BY <1>5, <1>12
  <2>2. (\A m \in LeavesOf(d) : Ran(m.addr, k))'
    BY <1>8, <1>9
  <2>3. (k > 0 => \A a \in DeliveriesOf(d) : Delivered(a, value[d]))'
    <3> SUFFICES ASSUME k > 0, NEW a \in DeliveriesOf(d) PROVE Delivered(a, value[d])'
      BY <1>9
    <3>1. to_dcu'[a] = to_dcu[a] /\ shadow'[a] = shadow[a] /\ value'[d] = value[d]
      BY <1>1, <1>3, <1>5, <1>14, SentElsewhere DEF Running
    <3>2. Delivered(a, value[d])
      BY <1>7
    <3> QED BY <3>1, <3>2 DEF Delivered, Update
  <2>4. /\ (value[d] = cfg[d].lower + k * cfg[d].step)' /\ (value[d] < cfg[d].upper)'
        /\ (ccu_state[d] = "RUNNING")'
    BY <1>5, <1>7, <1>14
  <2> QED BY <2>1, <2>2, <2>3, <2>4 DEF LapOf
<1>15. ASSUME Reaches(d) PROVE LapOf(d, k + 1)'
  <2>1. ASSUME NEW m \in LeavesOf(d) PROVE Resting(m.addr, k + 1)'
    <3>1. Counted(m.addr)'
      <4>1. m \in CountedLeaves(d)'
        BY <1>12, <1>15
      <4> QED BY <4>1 DEF CountedLeaves
    <3>2. Finished(m.addr)' /\ ~Reported(m.addr)'
      <4>1. Counted(m.addr)' <=> Finished(m.addr)' /\ ~Reported(m.addr)'
        BY CountedNext
      <4> QED BY <3>1, <4>1
    <3>3. runs'[m.addr] = k + 1
      BY <1>8, <3>2 DEF Ran
    <3>4. already_done'[m.addr] /\ already_done[m.addr]
      BY <3>2 DEF Finished, Running
    <3>5. to_dcu'[m.addr] = <<>>
      <4>1. m.addr \in Addr /\ m.addr \in LeafAddrs
        BY <1>1, LeafAddress DEF Leaves
      <4>2. to_dcu[m.addr] # <<>> => to_dcu[m.addr] = <<Reset(m.addr)>>
        BY <4>1 DEF LinksInv
      <4>3. Finished(m.addr)
        BY <1>8, <3>2
      <4>4. to_dcu[m.addr] = <<>>
        BY <4>2, <4>3 DEF Finished, ResetPending, Reset
      <4> QED BY <1>8, <4>4
    <3> QED BY <3>2, <3>3, <3>4, <3>5 DEF Resting
  <2>2. (value[d] = cfg[d].lower + (k + 1) * cfg[d].step)'
    <3>1. value'[d] = (cfg[d].lower + k * cfg[d].step) + cfg[d].step /\ cfg' = cfg
      BY <1>5, <1>7, <1>13, <1>15
    <3>2. (cfg[d].lower + k * cfg[d].step) + cfg[d].step = cfg[d].lower + (k + 1) * cfg[d].step
      <4> DEFINE b == cfg[d].lower
                 s == cfg[d].step
      <4>1. b \in Nat /\ s \in Nat /\ k \in Nat
        BY <1>11
      <4> HIDE DEF b, s
      <4>2. (b + k * s) + s = b + (k + 1) * s
        BY <4>1, NextProduct
      <4> QED BY <4>2 DEF b, s
    <3> QED BY <3>1, <3>2, SMTT(20)
  <2>3. k + 1 \in Nat /\ k + 1 > 0
    OBVIOUS
  <2>4. CASE Finishes(d)
    <3>1. /\ (ccu_state[d] = "COMPLETE")' /\ (value[d] >= cfg[d].upper)'
          /\ (value[d] < cfg[d].upper + cfg[d].step)'
      BY <1>5, <1>7, <1>11, <1>13, <1>15, <2>4 DEF Finishes
    <3>2. (\A m \in LeavesOf(d) : Resting(m.addr, k + 1))'
      BY <1>9, <2>1
    <3> QED BY <2>2, <2>3, <3>1, <3>2 DEF LapOf
  <2>5. CASE ~Finishes(d)
    <3> DEFINE ts == cfg[d].targets
    <3>1. /\ (ccu_state[d] = "DISPATCHING")' /\ (value[d] < cfg[d].upper)' /\ dispatch_idx'[d] = 0
      BY <1>5, <1>11, <1>13, <1>15, <2>5 DEF Finishes
    <3>2. /\ Len(ts) \in Nat
          /\ \A i \in 1 .. Len(ts) : ~ts[i].shadow => ts[i] \in LeavesOf(d)
          /\ \E i \in 1 .. Len(ts) : ts[i] = l
      BY <1>1, TargetsAre
    <3>3. 0 < Len(ts)
      BY <3>2
    <3> HIDE DEF ts
    <3>4. ASSUME NEW i \in 1 .. Len(ts)
          PROVE  (IF ts[i].shadow THEN i <= 0 => Delivered(ts[i].addr, value[d])
                  ELSE IF i <= 0 THEN Going(ts[i].addr, k + 1) ELSE Resting(ts[i].addr, k + 1))'
      <4>1. ~(i <= 0) /\ ts' = ts
        BY <1>5, <3>2 DEF ts
      <4>2. CASE ts[i].shadow
        BY <4>1, <4>2
      <4>3. CASE ~ts[i].shadow
        <5>1. PICK m \in LeavesOf(d) : m = ts[i]
          BY <3>2, <4>3
        <5>2. Resting(m.addr, k + 1)'
          BY <2>1
        <5>3. Resting(ts[i].addr, k + 1)'
          BY <4>1, <5>1, <5>2 DEF Resting
        <5> QED BY <4>1, <4>3, <5>3
      <4> QED BY <4>2, <4>3
    <3>5. (dispatch_idx[d] < Len(cfg[d].targets))'
      BY <1>5, <3>1, <3>3 DEF ts
    <3>6. ts = cfg'[d].targets /\ ts' = ts
      BY <1>5 DEF ts
    <3>7. (\A i \in 1 .. Len(cfg[d].targets) :
             LET t == cfg[d].targets[i]
             IN  IF t.shadow THEN i <= dispatch_idx[d] => Delivered(t.addr, value[d])
                 ELSE IF i <= dispatch_idx[d] THEN Going(t.addr, k + 1)
                      ELSE Resting(t.addr, k + 1))'
      BY <3>1, <3>4, <3>6
    <3> QED BY <2>2, <2>3, <3>1, <3>5, <3>7 DEF LapOf
  <2> QED BY <2>4, <2>5
<1>16. DriverInv(d)'
  <2>1. CASE Reaches(d)
    <3>1. k + 1 \in Nat
      OBVIOUS
    <3> QED BY <1>15, <2>1, <3>1 DEF DriverInv
  <2>2. CASE ~Reaches(d)
    BY <1>14, <2>2 DEF DriverInv
  <2> QED BY <2>1, <2>2
<1> QED BY <1>5, <1>16

(* The reports of a leaf are untouched unless its driver counts.           *)
LEMMA OtherReports ==
  ASSUME Configured, NEW ev, NEW remote_ev, NEW c \in Drivers(nest),
         \/ NoHit(ev, remote_ev)
         \/ \E d, l : Hit(d, l, ev, remote_ev) /\ d # c
  PROVE  /\ c \notin Counting(ev, remote_ev)
         /\ \A m \in LeavesOf(c) : Reported(m.addr)' <=> Reported(m.addr)
         /\ \A a \in DeliveriesOf(c) : Reported(a)' <=> Reported(a)
<1>1. CASE NoHit(ev, remote_ev)
  BY <1>1 DEF NoHit
<1>2. ASSUME NEW d, NEW l, Hit(d, l, ev, remote_ev), d # c
      PROVE  /\ c \notin Counting(ev, remote_ev)
             /\ \A m \in LeavesOf(c) : Reported(m.addr)' <=> Reported(m.addr)
             /\ \A a \in DeliveriesOf(c) : Reported(a)' <=> Reported(a)
  <2>1. /\ NestsProper /\ nest \in Nests /\ c \in CCU /\ d \in CCU /\ l \in LeavesOf(d)
        /\ \A b : Reported(b)' <=> b # l.addr /\ Reported(b)
        /\ c \notin Counting(ev, remote_ev)
    BY <1>2, UsersAreCCUs DEF Configured, NestTypes, Hit
  <2>2. \A m \in LeavesOf(c) : m.addr # l.addr
    BY <1>2, <2>1, Apart
  <2>3. \A a \in DeliveriesOf(c) : a # l.addr
    BY <2>1, LeafAddress DEF Leaves
  <2> QED BY <2>1, <2>2, <2>3
<1> QED BY <1>1, <1>2

(* A driver that neither counts nor dispatches.                            *)
LEMMA RestingDriver ==
  ASSUME Configured, Awake, NEW sent, NEW ev, NEW remote_ev,
         Running(sent, ev, remote_ev), NestTypes', NEW c \in Drivers(nest),
         ~(sent /\ c = active),
         \/ NoHit(ev, remote_ev)
         \/ \E d, l : Hit(d, l, ev, remote_ev) /\ d # c
  PROVE  DriverInv(c)' /\ ccu_state'[c] = ccu_state[c]
<1>1. /\ NestsProper /\ nest \in Nests /\ NestTypes /\ c \in InUse(nest) /\ c \in CCU
      /\ sent \in BOOLEAN /\ (sent => Dispatching # {}) /\ nest' = nest /\ cfg' = cfg
  BY UsersAreCCUs DEF Configured, NestTypes, Running
<1>2. /\ c \notin Counting(ev, remote_ev) /\ c \notin Advancing(ev, remote_ev)
      /\ \A m \in LeavesOf(c) : Reported(m.addr)' <=> Reported(m.addr)
      /\ \A a \in DeliveriesOf(c) : Reported(a)' <=> Reported(a)
  BY OtherReports DEF Advancing
<1>3. c \notin Restarted(sent) /\ c \notin Returning(sent)
  BY <1>1, NoRestart DEF Returning, EndsDispatch
<1>4. /\ value'[c] = value[c] /\ ccu_state'[c] = ccu_state[c] /\ received'[c] = received[c]
      /\ dispatch_idx'[c] = dispatch_idx[c]
  BY <1>1, <1>2, <1>3 DEF Running
<1>5. \A l \in LeavesOf(c) : KeepsLeaf(l.addr)
  <2> TAKE l \in LeavesOf(c)
  <2>1. to_dcu'[l.addr] = to_dcu[l.addr]
    BY SentElsewhere
  <2>2. /\ already_done'[l.addr] = already_done[l.addr]
        /\ runs'[l.addr] = runs[l.addr] /\ shadow'[l.addr] = shadow[l.addr]
    BY DEF Running
  <2> QED BY <1>1, <1>2, <2>1, <2>2, Untouched
<1>6. \A a \in DeliveriesOf(c) : KeepsDelivery(a)
  <2> TAKE a \in DeliveriesOf(c)
  <2>1. /\ to_dcu'[a] = to_dcu[a] /\ already_done'[a] = already_done[a]
        /\ runs'[a] = runs[a] /\ shadow'[a] = shadow[a]
    BY SentElsewhere DEF Running
  <2> QED BY <1>1, <1>2, <2>1, Untouched
<1>7. PICK k \in Nat : LapOf(c, k)
  BY DEF Awake, DriverInv
<1>8. LapOf(c, k)'
  BY <1>1, <1>4, <1>5, <1>6, <1>7, LapKept
<1> QED BY <1>4, <1>8 DEF DriverInv

(* The driver whose command is taken.                                      *)
LEMMA SendingDriver ==
  ASSUME Configured, Awake, LinksInv, NEW sent, NEW ev, NEW remote_ev,
         Running(sent, ev, remote_ev), NestTypes', sent,
         \/ NoHit(ev, remote_ev)
         \/ \E d, l : Hit(d, l, ev, remote_ev),
         NEW c, c = active, NEW ts, ts = cfg[c].targets, NEW i, i = dispatch_idx[c] + 1
  PROVE  DriverInv(c)' /\ ccu_state'[c] \in {"RUNNING", "DISPATCHING"}
<1>1. /\ NestsProper /\ nest \in Nests /\ NestTypes
      /\ Dispatching # {} /\ nest' = nest /\ cfg' = cfg
      /\ to_dcu' = [to_dcu EXCEPT ![active_target.addr] = <<dispatched>>]
      /\ to_dcu[active_target.addr] = <<>>
      /\ already_done' = already_done /\ shadow' = shadow /\ runs' = runs
  BY DEF Configured, NestTypes, Running
<1>2. c \in Drivers(nest) /\ c \in CCU /\ c \in InUse(nest) /\ ccu_state[c] = "DISPATCHING"
  BY <1>1, ActiveIs, UsersAreCCUs
<1>3. /\ i \in 1 .. Len(ts) /\ next_idx = i
      /\ active_target = ts[i]
      /\ EndsDispatch(sent) <=> i = Len(ts)
      /\ dispatched = IF ts[i].shadow THEN Update(ts[i].addr, value[c]) ELSE Reset(ts[i].addr)
  <2>1. EndsDispatch(TRUE) <=> EndsDispatch(sent)
    BY DEF EndsDispatch
  <2>2. /\ i \in 1 .. Len(cfg[active].targets) /\ next_idx = i
        /\ active_target = cfg[active].targets[i]
        /\ EndsDispatch(TRUE) <=> i = Len(cfg[active].targets)
        /\ dispatched = IF active_target.shadow
                          THEN Update(active_target.addr, value[active])
                          ELSE Reset(active_target.addr)
    BY <1>1, DispatchIs
  <2> QED BY <2>1, <2>2
<1>4. \/ NoHit(ev, remote_ev)
      \/ \E d, l : Hit(d, l, ev, remote_ev) /\ d # c
  BY <1>2 DEF Hit
<1>5. /\ c \notin Counting(ev, remote_ev) /\ c \notin Advancing(ev, remote_ev)
      /\ \A m \in LeavesOf(c) : Reported(m.addr)' <=> Reported(m.addr)
      /\ \A a \in DeliveriesOf(c) : Reported(a)' <=> Reported(a)
  <2>1. /\ c \notin Counting(ev, remote_ev)
        /\ \A m \in LeavesOf(c) : Reported(m.addr)' <=> Reported(m.addr)
        /\ \A a \in DeliveriesOf(c) : Reported(a)' <=> Reported(a)
    BY ONLY Configured, <1>2, <1>4, OtherReports
  <2> QED BY <2>1 DEF Advancing
<1>6. c \notin Restarted(sent) /\ (c \in Returning(sent) <=> i = Len(ts))
  <2>1. sent \in BOOLEAN
    BY DEF Running
  <2> QED BY <1>1, <1>2, <1>3, <2>1, NoRestart DEF Returning
<1>7. /\ value'[c] = value[c]
      /\ IF i = Len(ts) THEN ccu_state'[c] = "RUNNING" /\ received'[c] = 0
         ELSE ccu_state'[c] = "DISPATCHING" /\ dispatch_idx'[c] = i
  <2>1. sent /\ c = active
    OBVIOUS
  <2>2. c \notin {d \in Advancing(ev, remote_ev) : ~Finishes(d)}
    BY <1>5
  <2>3. value'[c] = value[c]
    BY <1>2, <1>5, <1>6 DEF Running
  <2>4. /\ i = Len(ts) => ccu_state'[c] = "RUNNING" /\ received'[c] = 0
        /\ i # Len(ts) => ccu_state'[c] = "DISPATCHING"
    BY <1>2, <1>5, <1>6 DEF Running
  <2>5. i # Len(ts) => dispatch_idx'[c] = i
    BY <1>2, <1>3, <1>5, <1>6, <2>1, <2>2 DEF Running
  <2> QED BY <2>3, <2>4, <2>5
<1>8. PICK k \in Nat : LapOf(c, k)
  BY <1>2 DEF Awake, DriverInv
<1>9. /\ value[c] = cfg[c].lower + k * cfg[c].step /\ k > 0 /\ value[c] < cfg[c].upper
      /\ \A j \in 1 .. Len(ts) :
           IF ts[j].shadow THEN j <= dispatch_idx[c] => Delivered(ts[j].addr, value[c])
           ELSE IF j <= dispatch_idx[c] THEN Going(ts[j].addr, k) ELSE Resting(ts[j].addr, k)
  BY <1>2, <1>8 DEF LapOf
<1>10. /\ Len(ts) \in Nat
       /\ \A j \in 1 .. Len(ts) :
            /\ ts[j] \in Target
            /\ IF ts[j].shadow THEN ts[j].addr \in DeliveriesOf(c) ELSE ts[j] \in LeavesOf(c)
       /\ \A l \in LeavesOf(c) : \E j \in 1 .. Len(ts) : ts[j] = l
       /\ \A a \in DeliveriesOf(c) : \E j \in 1 .. Len(ts) : ts[j].shadow /\ ts[j].addr = a
       /\ \A j, h \in 1 .. Len(ts) : ts[j].addr = ts[h].addr => j = h
       /\ \A j \in 1 .. Len(ts) : ts[j].addr \in Addr
       /\ \A l \in LeavesOf(c) : ~l.shadow
  BY <1>1, <1>2, TargetsAre, TargetFacts DEF Target
<1>11. dispatch_idx[c] \in Nat /\ value[c] \in 0 .. (ValueLimit - 1)
  BY <1>1, <1>2 DEF NestTypes
<1>12. ASSUME NEW j \in 1 .. Len(ts), j # i
       PROVE  KeepsLeaf(ts[j].addr) /\ KeepsDelivery(ts[j].addr)
  <2>1. ts[j].addr # ts[i].addr /\ ts[j].addr \in Addr
    BY <1>3, <1>10, <1>12
  <2>2. to_dcu'[ts[j].addr] = to_dcu[ts[j].addr]
    BY <1>1, <1>3, <2>1 DEF NestTypes
  <2>3. Reported(ts[j].addr)' <=> Reported(ts[j].addr)
    <3>1. CASE ts[j].shadow
      <4>1. ts[j].addr \in DeliveriesOf(c)
        BY <1>10, <3>1
      <4> QED BY <1>5, <4>1
    <3>2. CASE ~ts[j].shadow
      <4>1. ts[j] \in LeavesOf(c)
        BY <1>10, <3>2
      <4> QED BY <1>5, <4>1
    <3> QED BY <3>1, <3>2
  <2> QED BY <1>1, <2>2, <2>3, Untouched
(* The target of the command.                                              *)
<1>13. /\ to_dcu'[ts[i].addr] = <<dispatched>> /\ ts[i].addr \in Addr
       /\ to_dcu[ts[i].addr] = <<>>
  BY <1>1, <1>3, <1>10 DEF NestTypes
<1>14. ASSUME ts[i].shadow PROVE Delivered(ts[i].addr, value[c])'
  <2>1. to_dcu'[ts[i].addr] = <<Update(ts[i].addr, value[c])>>
    BY <1>3, <1>13, <1>14
  <2>2. <<Update(ts[i].addr, value[c])>> # <<>>
    OBVIOUS
  <2> QED BY <1>7, <2>1, <2>2 DEF Delivered, Update
<1>15. ASSUME ~ts[i].shadow PROVE Going(ts[i].addr, k)'
  <2>1. to_dcu'[ts[i].addr] = <<Reset(ts[i].addr)>>
    BY <1>3, <1>13, <1>15
  <2>2. ~Finished(ts[i].addr)'
    <3>1. (to_dcu[ts[i].addr] # <<>>)' /\ (Head(to_dcu[ts[i].addr]).cmd = "RESET_LEAF")'
      <4> DEFINE m == Reset(ts[i].addr)
      <4>1. m.cmd = "RESET_LEAF"
        BY DEF Reset
      <4> HIDE DEF m
      <4>2. <<m>> # <<>> /\ Head(<<m>>) = m
        OBVIOUS
      <4>3. to_dcu'[ts[i].addr] = <<m>> /\ ts'[i] = ts[i]
        BY <1>1, <2>1 DEF m
      <4> QED BY <4>1, <4>2, <4>3
    <3> QED BY <3>1 DEF Finished, ResetPending
  <2>3. ~(i <= dispatch_idx[c])
    BY <1>11
  <2>4. Resting(ts[i].addr, k)
    BY <1>3, <1>9, <1>15, <2>3
  <2>5. Ran(ts[i].addr, k)'
    <3>1. runs'[ts[i].addr] = runs[ts[i].addr] /\ runs[ts[i].addr] = k
      BY <1>1, <2>4 DEF Resting
    <3> QED BY <1>8, <2>2, <3>1 DEF Ran
  <2> QED BY <2>2, <2>5 DEF Going, Counted
<1>16. ASSUME NEW j \in 1 .. Len(ts)
       PROVE  IF ts[j].shadow THEN j <= i => Delivered(ts[j].addr, value[c])'
              ELSE IF j <= i THEN Going(ts[j].addr, k)' ELSE Resting(ts[j].addr, k)'
  <2>1. CASE j = i
    BY <1>11, <1>14, <1>15, <2>1
  <2>2. CASE j # i
    <3>1. j <= i <=> j <= dispatch_idx[c]
      BY <1>11, <2>2
    <3>2. /\ Going(ts[j].addr, k) => Going(ts[j].addr, k)'
          /\ Resting(ts[j].addr, k) => Resting(ts[j].addr, k)'
      BY <1>12, <2>2 DEF KeepsLeaf, Going
    <3>3. Delivered(ts[j].addr, value[c]) => Delivered(ts[j].addr, value[c])'
      <4> DEFINE v == value[c]
      <4>1. \A w \in 0 .. (ValueLimit - 1) : Delivered(ts[j].addr, w) => Delivered(ts[j].addr, w)'
        BY <1>12, <2>2 DEF KeepsDelivery
      <4> QED BY <1>7, <1>11, <4>1 DEF Delivered, Update
    <3>4. IF ts[j].shadow THEN j <= dispatch_idx[c] => Delivered(ts[j].addr, value[c])
          ELSE IF j <= dispatch_idx[c] THEN Going(ts[j].addr, k) ELSE Resting(ts[j].addr, k)
      BY <1>9
    <3> QED BY <3>1, <3>2, <3>3, <3>4
  <2> QED BY <2>1, <2>2
<1>17. cfg'[c].targets = ts /\ value'[c] = cfg'[c].lower + k * cfg'[c].step /\ value'[c] < cfg'[c].upper
  BY <1>1, <1>7, <1>9
<1>18. CASE i # Len(ts)
  <2>1. dispatch_idx'[c] = i /\ i < Len(ts) /\ ccu_state'[c] = "DISPATCHING"
    BY <1>3, <1>7, <1>10, <1>18
  <2>2. (\A j \in 1 .. Len(cfg[c].targets) :
           LET t == cfg[c].targets[j]
           IN  IF t.shadow THEN j <= dispatch_idx[c] => Delivered(t.addr, value[c])
               ELSE IF j <= dispatch_idx[c] THEN Going(t.addr, k) ELSE Resting(t.addr, k))'
    BY <1>16, <1>17, <2>1
  <2>3. LapOf(c, k)'
    BY <1>9, <1>17, <2>1, <2>2 DEF LapOf
  <2> QED BY <2>1, <2>3 DEF DriverInv
<1>19. CASE i = Len(ts)
  <2>1. ccu_state'[c] = "RUNNING" /\ received'[c] = 0
    BY <1>7, <1>19
  <2>2. LeavesOf(c)' = LeavesOf(c) /\ DeliveriesOf(c)' = DeliveriesOf(c)
    BY <1>1, ShapeKept
  <2>3. ASSUME NEW l \in LeavesOf(c) PROVE Going(l.addr, k)'
    <3>1. PICK j \in 1 .. Len(ts) : ts[j] = l
      BY <1>10
    <3>2. ~ts[j].shadow /\ j <= i
      BY <1>10, <1>19, <3>1
    <3> QED BY <1>16, <3>1, <3>2
  <2>4. ASSUME NEW a \in DeliveriesOf(c) PROVE Delivered(a, value[c])'
    <3>1. PICK j \in 1 .. Len(ts) : ts[j].shadow /\ ts[j].addr = a
      BY <1>10
    <3>2. j <= i
      BY <1>10, <1>19
    <3> QED BY <1>16, <3>1, <3>2
  <2>5. CountedLeaves(c)' = {}
    BY <2>2, <2>3 DEF CountedLeaves, Going
  <2>6. (received[c] = Cardinality(CountedLeaves(c)))'
    BY <2>1, <2>5, FS_EmptySet
  <2>7. (\A l \in LeavesOf(c) : Ran(l.addr, k))'
    BY <2>2, <2>3 DEF Going
  <2>8. (k > 0 => \A a \in DeliveriesOf(c) : Delivered(a, value[c]))'
    BY <2>2, <2>4
  <2>9. LapOf(c, k)'
    BY <1>17, <2>1, <2>6, <2>7, <2>8 DEF LapOf
  <2> QED BY <2>1, <2>9 DEF DriverInv
<1> QED BY <1>18, <1>19

(* An outer loop counts the drivers below it that complete.                *)
LEMMA OuterStep ==
  ASSUME Configured, Awake, NEW sent, NEW ev, NEW remote_ev,
         Running(sent, ev, remote_ev), NEW p \in InUse(nest) \ Drivers(nest),
         \/ /\ NoHit(ev, remote_ev)
            /\ \A c \in Drivers(nest) : ccu_state'[c] = "COMPLETE" <=> ccu_state[c] = "COMPLETE"
         \/ \E d, l :
              /\ Hit(d, l, ev, remote_ev)
              /\ ccu_state'[d] = "COMPLETE" <=> Reaches(d) /\ Finishes(d)
              /\ \A c \in Drivers(nest) \ {d} :
                   ccu_state'[c] = "COMPLETE" <=> ccu_state[c] = "COMPLETE"
  PROVE  OuterInv(p)'
<1>1. /\ NestsProper /\ nest \in Nests /\ NestTypes /\ p \in InUse(nest) /\ p \in CCU
      /\ sent \in BOOLEAN /\ (sent => Dispatching # {}) /\ nest' = nest /\ cfg' = cfg
  BY UsersAreCCUs DEF Configured, NestTypes, Running
<1>2. OuterInv(p)
  BY DEF Awake
<1>3. /\ Under(nest, p) \subseteq Drivers(nest) /\ Under(nest, p) \subseteq CCU
      /\ IsFiniteSet(Under(nest, p)) /\ Under(nest', p) = Under(nest, p)
      /\ \A d \in CCU : d \in Under(nest, p)
                        <=> d \in Drivers(nest) /\ ~cfg[d].root /\ cfg[d].parent = p
  BY <1>1, UnderIs
<1>4. p \notin Restarted(sent) /\ p \notin Returning(sent)
  BY <1>1, NoRestart, ActiveIs DEF Returning, EndsDispatch
<1>5. ASSUME p \notin Counting(ev, remote_ev), CompleteUnder(p)' = CompleteUnder(p)
      PROVE  OuterInv(p)'
  <2>1. /\ value'[p] = value[p] /\ ccu_state'[p] = ccu_state[p] /\ received'[p] = received[p]
        /\ cfg'[p] = cfg[p]
    BY <1>1, <1>4, <1>5 DEF Running, Advancing
  <2>2. CASE ccu_state[p] = "COMPLETE" /\ \A d \in Under(nest, p) : ccu_state[d] = "COMPLETE"
    <3>1. CompleteUnder(p) = Under(nest, p)
      BY <2>2 DEF CompleteUnder
    <3>2. \A d \in Under(nest, p) : ccu_state'[d] = "COMPLETE"
      BY <1>5, <3>1 DEF CompleteUnder
    <3> QED BY <1>1, <2>1, <2>2, <3>2 DEF OuterInv
  <2>3. CASE /\ ccu_state[p] = "RUNNING" /\ value[p] = cfg[p].lower
             /\ received[p] = Cardinality(CompleteUnder(p))
    BY <1>5, <2>1, <2>3 DEF OuterInv
  <2> QED BY <1>2, <2>2, <2>3 DEF OuterInv
<1>6. CASE /\ NoHit(ev, remote_ev)
           /\ \A c \in Drivers(nest) : ccu_state'[c] = "COMPLETE" <=> ccu_state[c] = "COMPLETE"
  <2>1. CompleteUnder(p)' = CompleteUnder(p)
    BY <1>3, <1>6 DEF CompleteUnder
  <2> QED BY <1>5, <1>6, <2>1 DEF NoHit
<1>7. ASSUME NEW d, NEW l, Hit(d, l, ev, remote_ev),
             ccu_state'[d] = "COMPLETE" <=> Reaches(d) /\ Finishes(d),
             \A c \in Drivers(nest) \ {d} : ccu_state'[c] = "COMPLETE" <=> ccu_state[c] = "COMPLETE"
      PROVE  OuterInv(p)'
  <2>1. /\ d \in Drivers(nest) /\ d \in CCU /\ ccu_state[d] = "RUNNING"
        /\ p \in Counting(ev, remote_ev)
             <=> Reaches(d) /\ Finishes(d) /\ ~cfg[d].root /\ cfg[d].parent = p
    BY <1>1, <1>7, UsersAreCCUs DEF Hit
  <2>2. CASE p \notin Counting(ev, remote_ev)
    <3>1. d \notin Under(nest, p) \/ ~(Reaches(d) /\ Finishes(d))
      BY <1>3, <2>1, <2>2
    <3>2. \A c \in Under(nest, p) : ccu_state'[c] = "COMPLETE" <=> ccu_state[c] = "COMPLETE"
      BY <1>3, <1>7, <2>1, <3>1
    <3>3. CompleteUnder(p)' = CompleteUnder(p)
      BY <1>3, <3>2 DEF CompleteUnder
    <3> QED BY <1>5, <2>2, <3>3
  <2>3. CASE p \in Counting(ev, remote_ev)
    <3>1. /\ d \in Under(nest, p) /\ Reaches(d) /\ Finishes(d)
      BY <1>3, <2>1, <2>3
    <3>2. /\ ccu_state[p] = "RUNNING" /\ value[p] = cfg[p].lower
          /\ received[p] = Cardinality(CompleteUnder(p))
      BY <1>2, <2>1, <3>1 DEF OuterInv
    <3>3. /\ CompleteUnder(p)' = CompleteUnder(p) \cup {d} /\ d \notin CompleteUnder(p)
          /\ CompleteUnder(p) \in SUBSET Under(nest, p)
      BY <1>3, <1>7, <2>1, <3>1 DEF CompleteUnder
    <3>4. /\ cfg[p].child_count = Cardinality(Under(nest, p))
          /\ cfg[p].child_count <= CountLimit - 1
          /\ cfg[p].lower + cfg[p].step >= cfg[p].upper
          /\ cfg[p].lower < cfg[p].upper /\ cfg[p].upper + cfg[p].step <= ValueLimit
          /\ cfg[p].lower \in Nat /\ cfg[p].upper \in Nat /\ cfg[p].step \in Nat
          /\ ValueLimit \in Nat
      BY <1>1, Settled, CardinalityOfUse, LoopNestAssumption DEF CcuConfig
    <3>5. /\ new_count(p) = Cardinality(CompleteUnder(p)')
          /\ Reaches(p) <=> CompleteUnder(p)' = Under(nest, p)
      <4> DEFINE n == received[p]
                 S == Under(nest, p)
                 T == CompleteUnder(p)
      <4>1. /\ IsFiniteSet(S) /\ T \in SUBSET S /\ d \in S /\ d \notin T /\ n = Cardinality(T)
            /\ Cardinality(S) <= CountLimit - 1
        BY <1>3, <3>1, <3>2, <3>3, <3>4
      <4> HIDE DEF n, S, T
      <4>2. Adds(S, T, d, n)
        BY <4>1, OneMore
      <4>3. new_count(p) = n + 1 /\ CompleteUnder(p)' = T \cup {d}
        BY <3>3, <4>2 DEF n, T, new_count, Adds
      <4>4. Reaches(p) <=> n + 1 >= Cardinality(S)
        BY <3>4, <4>3 DEF S, Reaches
      <4> QED BY <4>2, <4>3, <4>4 DEF S, Adds
    <3>6. Finishes(p)
      <4>1. cfg[p].lower + cfg[p].step < ValueLimit /\ cfg[p].lower + cfg[p].step \in Nat
        BY <3>4
      <4>2. new_val(p) = cfg[p].lower + cfg[p].step
        BY <3>2, <3>4, <4>1, NoWrap DEF new_val
      <4> QED BY <3>4, <4>2 DEF Finishes
    <3>7. /\ received'[p] = new_count(p)
          /\ IF Reaches(p) THEN ccu_state'[p] = "COMPLETE"
             ELSE ccu_state'[p] = "RUNNING" /\ value'[p] = value[p]
      BY <1>1, <1>4, <2>3, <3>2, <3>6 DEF Running, Advancing
    <3>8. CASE Reaches(p)
      <4>1. \A c \in Under(nest, p) : ccu_state'[c] = "COMPLETE"
        BY <3>5, <3>8 DEF CompleteUnder
      <4> QED BY <1>3, <3>7, <3>8, <4>1 DEF OuterInv
    <3>9. CASE ~Reaches(p)
      BY <1>1, <3>2, <3>5, <3>7, <3>9 DEF OuterInv
    <3> QED BY <3>8, <3>9
  <2> QED BY <2>2, <2>3
<1> QED BY <1>6, <1>7

(* A CCU that is not in use.                                               *)
LEMMA IdleStep ==
  ASSUME Configured, Awake, LinksInv, NEW sent, NEW ev, NEW remote_ev,
         Running(sent, ev, remote_ev), NEW c \in CCU \ InUse(nest),
         NoHit(ev, remote_ev) \/ \E d, l : Hit(d, l, ev, remote_ev)
  PROVE  IdleInv(c)'
<1>1. /\ NestsProper /\ nest \in Nests /\ NestTypes /\ cfg' = cfg /\ nest' = nest
      /\ sent \in BOOLEAN /\ (sent => Dispatching # {})
      /\ InUse(nest') = InUse(nest) /\ Drivers(nest') = Drivers(nest)
      /\ \A d : LeavesOf(d)' = LeavesOf(d)
      /\ InUse(nest) \subseteq CCU /\ Drivers(nest) \subseteq InUse(nest)
  BY ShapeKept, UsersAreCCUs DEF Configured, NestTypes, Running
<1>2. /\ IdleInv(c) /\ cfg[c].lower = 0 /\ cfg[c].step = 0 /\ cfg[c].upper = 0
      /\ cfg[c].child_count = 0
  BY DEF Awake, Configured, ConfigInv, CcuReset
<1>3. /\ ccu_state[c] # "DISPATCHING" /\ value[c] = 0 /\ dispatch_idx[c] = 0
      /\ \/ ccu_state[c] # "RUNNING"
         \/ \A d \in Drivers(nest) : \A l \in LeavesOf(d) : ~l.remote
         \/ \A d \in InUse(nest) : ccu_state[d] = "RUNNING"
  BY <1>2 DEF IdleInv
<1>4. Reaches(c) /\ Finishes(c) /\ new_val(c) = 0
  <2>1. /\ ValueLimit \in Nat \ {0} /\ CountLimit \in Nat \ {0} /\ received[c] \in Nat
    <3>1. received[c] \in 0 .. (CountLimit - 1)
      BY <1>1 DEF NestTypes
    <3>2. CountLimit \in Nat \ {0}
      BY DEF CountLimit
    <3> QED BY <3>1, <3>2, LoopNestAssumption
  <2>2. 0 % ValueLimit = 0
    BY <2>1, NoWrap
  <2>3. (received[c] + 1) % CountLimit >= 0
    BY <2>1
  <2> QED BY <1>2, <1>3, <2>2, <2>3 DEF Reaches, Finishes, new_val, new_count
<1>5. c # active \/ ~sent
  BY <1>1, ActiveIs
<1>6. c \notin Returning(sent)
  BY <1>1, <1>5 DEF Returning, EndsDispatch
<1>7. c \in Counting(ev, remote_ev) <=> c \in Advancing(ev, remote_ev)
  BY <1>4 DEF Advancing
<1>8. /\ value'[c] = 0 /\ dispatch_idx'[c] = 0
      /\ ccu_state'[c] = IF c \in Counting(ev, remote_ev) THEN "COMPLETE"
                         ELSE IF c \in Restarted(sent) THEN "RUNNING" ELSE ccu_state[c]
  <2>1. value'[c] = 0
    BY <1>2, <1>3, <1>4, <1>7 DEF Running
  <2>2. ccu_state'[c] = IF c \in Counting(ev, remote_ev) THEN "COMPLETE"
                        ELSE IF c \in Restarted(sent) THEN "RUNNING" ELSE ccu_state[c]
    BY <1>4, <1>6, <1>7 DEF Running
  <2>3. dispatch_idx'[c] = 0
    BY <1>3, <1>5 DEF Running
  <2> QED BY <2>1, <2>2, <2>3
<1>9. ASSUME ccu_state'[c] = "RUNNING",
             NEW e \in Drivers(nest), NEW l \in LeavesOf(e), l.remote, NEW d \in InUse(nest)
      PROVE  ccu_state'[d] = "RUNNING"
  <2>1. /\ \A a, b \in InUse(nest) : a = b
        /\ InUse(nest) = Drivers(nest) /\ d = e /\ d \in CCU
    <3>1. l \in Leaves
      BY <1>1 DEF Leaves
    <3>2. (\A a, b \in InUse(nest) : a = b) /\ InUse(nest) = Drivers(nest)
      BY <1>9, <3>1, RemoteAlone
    <3> QED BY <1>1, <3>2
  <2>2. c \notin Counting(ev, remote_ev)
    BY <1>8, <1>9
  <2>3. CASE c \in Restarted(sent)
    <3>1. EndsDispatch(sent) /\ sent
      BY <2>3 DEF Restarted, EndsDispatch
    <3>2. active \in InUse(nest) /\ ccu_state[active] = "DISPATCHING"
      BY <1>1, <3>1, ActiveIs
    <3>3. d = active /\ d \in Returning(sent)
      BY <2>1, <3>1, <3>2 DEF Returning
    <3>4. d \notin Counting(ev, remote_ev)
      BY <2>1, <3>2, <3>3 DEF NoHit, Hit
    <3> QED BY <2>1, <3>3, <3>4 DEF Running, Advancing
  <2>4. CASE c \notin Restarted(sent)
    <3>1. ccu_state[c] = "RUNNING"
      BY <1>8, <1>9, <2>2, <2>4
    <3>2. ccu_state[d] = "RUNNING"
      BY <1>3, <1>9, <3>1
    <3>3. NoHit(ev, remote_ev)
      <4> SUFFICES ASSUME NEW h, NEW m, Hit(h, m, ev, remote_ev) PROVE FALSE
        OBVIOUS
      <4>1. ~remote_ev
        BY <2>2, <3>1 DEF Hit
      <4>2. m \in Leaves /\ ~m.remote
        BY <1>1, <4>1 DEF Hit, Leaves
      <4>3. l \in Leaves
        BY <1>1 DEF Leaves
      <4> QED BY <1>9, <4>2, <4>3, RemoteAlone
    <3> QED BY <2>1, <3>2, <3>3 DEF NoHit, Running, Advancing
  <2> QED BY <2>3, <2>4
<1>10. ccu_state'[c] # "DISPATCHING"
  BY <1>3, <1>8
<1>11. \/ ccu_state'[c] # "RUNNING"
       \/ \A d \in Drivers(nest) : \A l \in LeavesOf(d) : ~l.remote
       \/ \A d \in InUse(nest) : ccu_state'[d] = "RUNNING"
  BY <1>9
<1> QED BY <1>1, <1>8, <1>10, <1>11 DEF IdleInv

(* The links after a cycle.                                                *)
LEMMA LinksStep ==
  ASSUME Configured, Awake, LinksInv, NEW sent, NEW ev, NEW remote_ev,
         Running(sent, ev, remote_ev), NestTypes',
         \/ NoHit(ev, remote_ev)
         \/ \E d, l : Hit(d, l, ev, remote_ev)
  PROVE  LinksInv'
<1>1. /\ NestsProper /\ nest \in Nests /\ NestTypes /\ nest' = nest /\ already_done' = already_done
      /\ Leaves' = Leaves /\ LeafAddrs' = LeafAddrs
      /\ from_tile \in Seq(Addr) /\ from_remote \in Seq(Addr)
      /\ Distinct(from_tile) /\ Distinct(from_remote)
  BY ShapeKept DEF Configured, NestTypes, Running, LinksInv, Distinct, LeafAddrs
<1>2. /\ \A i \in 1 .. Len(from_tile) : \E m \in Leaves : m.addr = from_tile[i] /\ ~m.remote
      /\ \A i \in 1 .. Len(from_remote) : \E m \in Leaves : m.addr = from_remote[i] /\ m.remote
  BY DEF LinksInv
<1>3. /\ Distinct(from_tile')
      /\ \A i \in 1 .. Len(from_tile') : \E m \in Leaves : m.addr = from_tile'[i] /\ ~m.remote
  <2>1. CASE from_tile' = from_tile
    BY <1>1, <1>2, <2>1
  <2>2. CASE from_tile' # from_tile
    <3>1. from_tile # <<>> /\ from_tile' = Tail(from_tile)
      BY <2>2 DEF Running
    <3>2. Len(from_tile) > 0
      BY <1>1, <3>1
    <3>3. /\ Distinct(Tail(from_tile))
          /\ \A i \in 1 .. Len(Tail(from_tile)) : Holds(from_tile, Tail(from_tile)[i])
      BY <1>1, <3>2, Tailed
    <3>4. \A b : Holds(from_tile, b) => \E m \in Leaves : m.addr = b /\ ~m.remote
      BY <1>2 DEF Holds
    <3> QED BY <3>1, <3>3, <3>4
  <2> QED BY <2>1, <2>2
<1>4. /\ Distinct(from_remote')
      /\ \A i \in 1 .. Len(from_remote') : \E m \in Leaves : m.addr = from_remote'[i] /\ m.remote
  <2>1. CASE from_remote' = from_remote
    BY <1>1, <1>2, <2>1
  <2>2. CASE from_remote' # from_remote
    <3>1. from_remote # <<>> /\ from_remote' = Tail(from_remote)
      BY <2>2 DEF Running
    <3>2. Len(from_remote) > 0
      BY <1>1, <3>1
    <3>3. /\ Distinct(Tail(from_remote))
          /\ \A i \in 1 .. Len(Tail(from_remote)) : Holds(from_remote, Tail(from_remote)[i])
      BY <1>1, <3>2, Tailed
    <3>4. \A b : Holds(from_remote, b) => \E m \in Leaves : m.addr = b /\ m.remote
      BY <1>2 DEF Holds
    <3> QED BY <3>1, <3>3, <3>4
  <2> QED BY <2>1, <2>2
<1>5. \A b : Reported(b)' => Reported(b)
  BY DEF NoHit, Hit
<1>6. ASSUME NEW b \in Addr
      PROVE  /\ to_dcu'[b] # <<>> =>
                  \/ to_dcu'[b] = <<Reset(b)>> /\ b \in LeafAddrs /\ already_done[b]
                  \/ /\ b \notin LeafAddrs
                     /\ \E v \in 0 .. (ValueLimit - 1) : to_dcu'[b] = <<Update(b, v)>>
             /\ Reported(b)' => already_done[b] /\ to_dcu'[b] = <<>>
  <2>1. /\ to_dcu[b] # <<>> =>
               \/ to_dcu[b] = <<Reset(b)>> /\ b \in LeafAddrs /\ already_done[b]
               \/ /\ b \notin LeafAddrs
                  /\ \E v \in 0 .. (ValueLimit - 1) : to_dcu[b] = <<Update(b, v)>>
        /\ Reported(b) => already_done[b] /\ to_dcu[b] = <<>>
    BY DEF LinksInv
  <2>2. CASE to_dcu'[b] = to_dcu[b]
    BY <1>5, <2>1, <2>2
  <2>3. CASE to_dcu'[b] # to_dcu[b]
    <3>1. /\ sent /\ Dispatching # {} /\ b = active_target.addr /\ to_dcu'[b] = <<dispatched>>
      BY <1>1, <2>3 DEF Running, NestTypes
    <3> DEFINE i == dispatch_idx[active] + 1
               ts == cfg[active].targets
    <3>2. /\ active \in Drivers(nest) /\ active \in CCU /\ ccu_state[active] = "DISPATCHING"
          /\ i \in 1 .. Len(ts) /\ active_target = ts[i]
          /\ dispatched = IF ts[i].shadow THEN Update(b, value[active]) ELSE Reset(b)
      BY <3>1, ActiveIs, DispatchIs
    <3>3. IF ts[i].shadow THEN b \in DeliveriesOf(active) ELSE ts[i] \in LeavesOf(active)
      <4>1. \A j \in 1 .. Len(ts) :
              IF ts[j].shadow THEN ts[j].addr \in DeliveriesOf(active)
              ELSE ts[j] \in LeavesOf(active)
        BY <3>2, TargetsAre
      <4> HIDE DEF ts, i
      <4> QED BY <3>1, <3>2, <4>1
    <3>4. CASE ts[i].shadow
      <4>1. b \notin LeafAddrs
        BY <1>1, <3>2, <3>3, <3>4, LeafAddress
      <4>2. ~Reported(b)
        BY <1>2, <4>1 DEF Reported, LeafAddrs
      <4>3. value[active] \in 0 .. (ValueLimit - 1)
        BY <1>1, <3>2 DEF NestTypes
      <4>4. to_dcu'[b] = <<Update(b, value[active])>>
        BY <3>1, <3>2, <3>4
      <4> HIDE DEF i, ts
      <4> QED BY <1>5, <4>1, <4>2, <4>3, <4>4
    <3>5. CASE ~ts[i].shadow
      <4>1. PICK k \in Nat : LapOf(active, k)
        BY <3>2 DEF Awake, DriverInv
      <4>2. ~(i <= dispatch_idx[active])
        BY <1>1, <3>2 DEF NestTypes
      <4>3. Resting(b, k)
        BY <3>1, <3>2, <3>5, <4>1, <4>2 DEF LapOf
      <4>4. b \in LeafAddrs
        BY <3>1, <3>2, <3>3, <3>5 DEF LeafAddrs, Leaves
      <4>5. to_dcu'[b] = <<Reset(b)>>
        BY <3>1, <3>2, <3>5
      <4> HIDE DEF i, ts
      <4> QED BY <1>5, <4>3, <4>4, <4>5 DEF Resting
    <3> QED BY <3>4, <3>5
  <2> QED BY <2>2, <2>3
<1> QED
  <2>1. ASSUME NEW b \in Addr
        PROVE  /\ (to_dcu[b] # <<>> =>
                     \/ to_dcu[b] = <<Reset(b)>> /\ b \in LeafAddrs /\ already_done[b]
                     \/ /\ b \notin LeafAddrs
                        /\ \E v \in 0 .. (ValueLimit - 1) : to_dcu[b] = <<Update(b, v)>>)'
               /\ (Reported(b) => already_done[b] /\ to_dcu[b] = <<>>)'
    <3> USE DEF Reset, Update
    <3>1. (Reported(b) => already_done[b] /\ to_dcu[b] = <<>>)'
      BY <1>1, <1>6
    <3>2. (to_dcu[b] # <<>> =>
             \/ to_dcu[b] = <<Reset(b)>> /\ b \in LeafAddrs /\ already_done[b]
             \/ /\ b \notin LeafAddrs
                /\ \E v \in 0 .. (ValueLimit - 1) : to_dcu[b] = <<Update(b, v)>>)'
      BY <1>1, <1>6
    <3> QED BY <3>1, <3>2
  <2> QED BY <1>1, <1>3, <1>4, <2>1 DEF LinksInv, Distinct

LEMMA CycleAfter ==
  ASSUME NestsProper, LoopInv, ~(pc < Len(nest)), NEW config \in BOOLEAN, NEW sent \in BOOLEAN,
         NEW tile \in BOOLEAN, NEW remote \in BOOLEAN, Cycle(config, sent, tile, remote)
  PROVE  LoopInv'
<1>1. Configured /\ Awake /\ LinksInv /\ ConfigInv /\ nest \in Nests
  BY AfterLaunch DEF LoopInv, NestTypes
<1>2. PICK ev, remote_ev : Running(sent, ev, remote_ev)
  BY RunningCycle
<1>3. /\ NestTypes' /\ nest' = nest /\ pc' = pc /\ cfg' = cfg
  BY <1>1, <1>2, RunningTypes DEF Running
<1>4. ConfigInv' /\ InUse(nest') = InUse(nest) /\ Drivers(nest') = Drivers(nest)
  BY <1>1, <1>3, ConfigKept, ShapeKept
<1>5. Drivers(nest) \subseteq InUse(nest) /\ InUse(nest) \subseteq CCU
  BY <1>1, UsersAreCCUs
<1>6. NoHit(ev, remote_ev) \/ \E d, l : Hit(d, l, ev, remote_ev)
  BY <1>1, <1>2, HitOrNot
<1>7. LinksInv'
  BY <1>1, <1>2, <1>3, <1>6, LinksStep
<1>8. ASSUME NEW c \in Drivers(nest),
             NoHit(ev, remote_ev) \/ \E d, l : Hit(d, l, ev, remote_ev) /\ d # c
      PROVE  DriverInv(c)' /\ (ccu_state'[c] = "COMPLETE" <=> ccu_state[c] = "COMPLETE")
  <2>1. CASE sent /\ c = active
    <3>1. DriverInv(c)' /\ ccu_state'[c] \in {"RUNNING", "DISPATCHING"}
      BY <1>1, <1>2, <1>3, <1>6, <2>1, SendingDriver
    <3>2. ccu_state[c] = "DISPATCHING"
      BY <1>1, <1>2, <2>1, ActiveIs DEF Running
    <3> QED BY <3>1, <3>2
  <2>2. CASE ~(sent /\ c = active)
    BY <1>1, <1>2, <1>3, <1>8, <2>2, RestingDriver
  <2> QED BY <2>1, <2>2
<1>9. CASE NoHit(ev, remote_ev)
  <2>1. \A c \in Drivers(nest) :
          DriverInv(c)' /\ (ccu_state'[c] = "COMPLETE" <=> ccu_state[c] = "COMPLETE")
    BY <1>8, <1>9
  <2>2. \A p \in InUse(nest) \ Drivers(nest) : OuterInv(p)'
    BY <1>1, <1>2, <1>9, <2>1, OuterStep
  <2>3. \A c \in CCU \ InUse(nest) : IdleInv(c)'
    BY <1>1, <1>2, <1>9, IdleStep
  <2>4. Awake'
    BY <1>4, <2>1, <2>2, <2>3 DEF Awake
  <2> QED BY <1>3, <1>4, <1>7, <2>4 DEF LoopInv
<1>10. ASSUME NEW d, NEW l, Hit(d, l, ev, remote_ev) PROVE LoopInv'
  <2>1. DriverInv(d)' /\ (ccu_state'[d] = "COMPLETE" <=> Reaches(d) /\ Finishes(d))
    BY <1>1, <1>2, <1>3, <1>10, HitDriver
  <2>2. \A c \in Drivers(nest) \ {d} :
          DriverInv(c)' /\ (ccu_state'[c] = "COMPLETE" <=> ccu_state[c] = "COMPLETE")
    BY <1>8, <1>10
  <2>3. \A p \in InUse(nest) \ Drivers(nest) : OuterInv(p)'
    BY <1>1, <1>2, <1>10, <2>1, <2>2, OuterStep
  <2>4. \A c \in CCU \ InUse(nest) : IdleInv(c)'
    BY <1>1, <1>2, <1>10, IdleStep
  <2>5. \A c \in Drivers(nest) : DriverInv(c)'
    BY <2>1, <2>2
  <2>6. Awake'
    BY <1>4, <2>3, <2>4, <2>5 DEF Awake
  <2> QED BY <1>3, <1>4, <1>7, <2>6 DEF LoopInv
<1> QED BY <1>6, <1>9, <1>10

LEMMA LoopStep ==
  ASSUME NestsProper, LoopInv, [NestNext]_loop_vars
  PROVE  LoopInv'
<1>1. ASSUME NEW config \in BOOLEAN, NEW sent \in BOOLEAN, NEW tile \in BOOLEAN,
             NEW remote \in BOOLEAN, Cycle(config, sent, tile, remote)
      PROVE  LoopInv'
  BY <1>1, CycleBefore, CycleAfter
<1>2. ASSUME NEW l \in Leaves, LeafCounts(l) PROVE LoopInv'
  BY <1>2, CountStep
<1>3. ASSUME NEW l \in Leaves, LeafCompletes(l) PROVE LoopInv'
  BY <1>3, CompleteStep
<1>4. ASSUME NEW a \in Addr, DcuReceives(a) PROVE LoopInv'
  BY <1>4, ReceiveStep
<1>5. ASSUME UNCHANGED loop_vars PROVE LoopInv'
  <2>1. /\ UNCHANGED lc_vars /\ nest' = nest /\ pc' = pc /\ to_dcu' = to_dcu
        /\ from_tile' = from_tile /\ from_remote' = from_remote /\ runs' = runs
        /\ already_done' = already_done /\ shadow' = shadow
        /\ cfg' = cfg /\ value' = value /\ ccu_state' = ccu_state /\ received' = received
        /\ dispatch_idx' = dispatch_idx
    BY <1>5 DEF loop_vars, lc_vars, nest_vars, links, dcu_vars
  <2> QED BY <2>1, StillStep
<1> QED BY <1>1, <1>2, <1>3, <1>4, <1>5 DEF NestNext

THEOREM LoopInvariance ==
  ASSUME NestsProper
  PROVE  NestSpec => []LoopInv
<1>1. NestInit => LoopInv
  BY StartInv
<1>2. LoopInv /\ [NestNext]_loop_vars => LoopInv'
  BY LoopStep
<1> QED BY <1>1, <1>2, PTL DEF NestSpec

-----------------------------------------------------------------------------
(* What the invariant says of the loops that are awake.                    *)
LEMMA BeforeLaunch ==
  ASSUME LoopInv, pc < Len(nest)
  PROVE  \A c \in CCU : ccu_state[c] = "IDLE"
BY DEF LoopInv, Asleep

LEMMA AtWork ==
  ASSUME NestsProper, LoopInv, NEW c \in CCU, ccu_state[c] # "IDLE"
  PROVE  Configured /\ Awake /\ LinksInv /\ nest \in Nests /\ NestTypes /\ ~(pc < Len(nest))
<1>1. ~(pc < Len(nest))
  BY BeforeLaunch
<1> QED BY <1>1, AfterLaunch DEF LoopInv, NestTypes

(* The CCUs below one that drives leaves, and below one that does not.     *)
LEMMA SubLoopsAre ==
  ASSUME Configured, NEW c \in CCU
  PROVE  /\ c \in Drivers(nest) => SubLoops(c) = {}
         /\ c \in InUse(nest) \ Drivers(nest) => SubLoops(c) = Under(nest, c) /\ LeavesOf(c) = {}
         /\ c \notin InUse(nest) => SubLoops(c) = {} /\ LeavesOf(c) = {}
<1>1. /\ NestsProper /\ nest \in Nests
      /\ Drivers(nest) \subseteq InUse(nest) /\ InUse(nest) \subseteq CCU
  BY UsersAreCCUs DEF Configured, NestTypes
<1>2. \A d \in CCU : LeavesOf(d) # {} <=> d \in Drivers(nest)
  BY <1>1, TargetFacts DEF Drivers, LeavesOf
<1>3. ASSUME NEW d \in SubLoops(c)
      PROVE  /\ d \in CCU /\ d \in Drivers(nest) /\ ~cfg[d].root /\ cfg[d].parent = c
             /\ c \in InUse(nest) \ Drivers(nest)
  <2>1. d \in CCU /\ d \in Drivers(nest) /\ ~cfg[d].root /\ cfg[d].parent = c
    BY <1>2 DEF SubLoops, Children
  <2> QED BY <1>1, <2>1, Settled
<1>4. ASSUME NEW d \in Under(nest, c), c \notin Drivers(nest) PROVE d \in SubLoops(c)
  <2>1. d \in CCU /\ d \in Drivers(nest) /\ ~cfg[d].root /\ cfg[d].parent = c
    BY UnderIs
  <2> QED BY <1>2, <1>4, <2>1 DEF SubLoops, Children
<1>5. ASSUME NEW d \in SubLoops(c) PROVE d \in Under(nest, c)
  BY <1>3, UnderIs
<1> QED BY <1>1, <1>2, <1>3, <1>4, <1>5

LEMMA Exact ==
  ASSUME NestsProper, LoopInv
  PROVE  BarrierExact
<1> SUFFICES ASSUME NEW c \in CCU, ccu_state[c] = "RUNNING",
                    LeavesOf(c) # {} \/ SubLoops(c) # {}
             PROVE  received[c] = Cardinality({l \in LeavesOf(c) : Counted(l.addr)})
                                  + Cardinality({d \in SubLoops(c) : ccu_state[d] = "COMPLETE"})
  BY DEF BarrierExact
<1>1. Configured /\ Awake /\ received[c] \in Nat
  BY AtWork, LoopNestAssumption DEF Configured, NestTypes
<1>2. Cardinality({}) = 0
  BY FS_EmptySet
<1>3. CASE c \in Drivers(nest)
  <2>1. received[c] = Cardinality({l \in LeavesOf(c) : Counted(l.addr)})
    BY <1>1, <1>3 DEF Awake, DriverInv, LapOf, CountedLeaves
  <2>2. {d \in SubLoops(c) : ccu_state[d] = "COMPLETE"} = {}
    BY <1>1, <1>3, SubLoopsAre
  <2> QED BY <1>1, <1>2, <2>1, <2>2
<1>4. CASE c \in InUse(nest) \ Drivers(nest)
  <2>1. SubLoops(c) = Under(nest, c) /\ LeavesOf(c) = {}
    BY <1>1, <1>4, SubLoopsAre
  <2>2. received[c] = Cardinality({d \in Under(nest, c) : ccu_state[d] = "COMPLETE"})
    BY <1>1, <1>4 DEF Awake, OuterInv, CompleteUnder
  <2>3. {l \in LeavesOf(c) : Counted(l.addr)} = {}
    BY <2>1
  <2> QED BY <1>1, <1>2, <2>1, <2>2, <2>3
<1>5. c \in InUse(nest)
  BY <1>1, SubLoopsAre
<1> QED BY <1>3, <1>4, <1>5

(* A CCU whose value has gone up by k steps is in iteration k; at the end, *)
(* k is the number of its iterations.                                      *)
LEMMA LapsCounted ==
  ASSUME NEW lower \in Nat, NEW upper \in Nat, NEW step \in Nat \ {0}, NEW k \in Nat,
         NEW v, v = lower + k * step
  PROVE  /\ (v - lower) \div step = k
         /\ v >= upper /\ v < upper + step => (upper - lower + step - 1) \div step = k
<1> DEFINE p == k * step
<1>1. p \in Int /\ k \in Int /\ step \in Int /\ 0 \in 0 .. (step - 1)
  OBVIOUS
<1>2. \A r \in 0 .. (step - 1) : (k * step + r) \div step = k
  BY <1>1, RemainderUnique
<1>3. \A r \in 0 .. (step - 1) : (p + r) \div step = k
  BY <1>2
<1>4. v = lower + p
  OBVIOUS
<1> HIDE DEF p
<1>5. (v - lower) \div step = k
  <2>1. v - lower = p + 0
    BY <1>1, <1>4
  <2> QED BY <1>1, <1>3, <2>1
<1>6. ASSUME v >= upper, v < upper + step PROVE (upper - lower + step - 1) \div step = k
  <2>1. upper + step - 1 - v \in 0 .. (step - 1)
    BY <1>1, <1>4, <1>6
  <2>2. upper - lower + step - 1 = p + (upper + step - 1 - v)
    BY <1>1, <1>4
  <2> QED BY <1>3, <2>1, <2>2
<1> QED BY <1>5, <1>6

LEMMA Laps ==
  ASSUME NestsProper, LoopInv
  PROVE  IterationsExact
<1> SUFFICES ASSUME NEW c \in CCU, NEW l \in LeavesOf(c), ccu_state[c] # "IDLE"
             PROVE  /\ ccu_state[c] = "COMPLETE" => runs[l.addr] = TripCount(c)
                    /\ ccu_state[c] = "RUNNING" =>
                         runs[l.addr] = iteration(c) + (IF Finished(l.addr) THEN 1 ELSE 0)
  BY DEF IterationsExact
<1>1. Configured /\ Awake /\ nest \in Nests
  BY AtWork
<1>2. c \in Drivers(nest) /\ c \in InUse(nest)
  BY <1>1, TargetFacts, UsersAreCCUs
<1>3. PICK k \in Nat : LapOf(c, k)
  BY <1>1, <1>2 DEF Awake, DriverInv
<1>4. /\ cfg[c].lower \in Nat /\ cfg[c].upper \in Nat /\ cfg[c].step \in Nat \ {0}
      /\ value[c] = cfg[c].lower + k * cfg[c].step
  BY <1>1, <1>2, <1>3, Settled, LoopNestAssumption DEF CcuConfig, LapOf
<1>5. /\ (value[c] - cfg[c].lower) \div cfg[c].step = k
      /\ value[c] >= cfg[c].upper /\ value[c] < cfg[c].upper + cfg[c].step =>
           (cfg[c].upper - cfg[c].lower + cfg[c].step - 1) \div cfg[c].step = k
  <2> DEFINE lower == cfg[c].lower
             upper == cfg[c].upper
             step == cfg[c].step
             v == value[c]
  <2>1. lower \in Nat /\ upper \in Nat /\ step \in Nat \ {0} /\ v = lower + k * step
    BY <1>4
  <2> HIDE DEF lower, upper, step, v
  <2>2. /\ (v - lower) \div step = k
        /\ v >= upper /\ v < upper + step => (upper - lower + step - 1) \div step = k
    BY <2>1, LapsCounted
  <2> QED BY <2>2 DEF lower, upper, step, v
<1>6. CASE ccu_state[c] = "RUNNING"
  <2>1. Ran(l.addr, k)
    BY <1>3, <1>6 DEF LapOf
  <2>2. iteration(c) = k
    BY <1>5 DEF iteration
  <2> QED BY <1>6, <2>1, <2>2 DEF Ran
<1>7. CASE ccu_state[c] = "COMPLETE"
  <2>1. /\ value[c] >= cfg[c].upper /\ value[c] < cfg[c].upper + cfg[c].step
        /\ Resting(l.addr, k)
    BY <1>3, <1>7 DEF LapOf
  <2>2. TripCount(c) = k
    BY <1>5, <2>1 DEF TripCount
  <2> QED BY <1>7, <2>1, <2>2 DEF Resting
<1> QED BY <1>6, <1>7

LEMMA Arrives ==
  ASSUME NestsProper, LoopInv
  PROVE  ShadowDelivered
<1> SUFFICES ASSUME NEW c \in CCU, NEW a \in DeliveriesOf(c), ccu_state[c] = "RUNNING",
                    value[c] # cfg[c].lower
             PROVE  \/ to_dcu[a] = <<>> /\ shadow[a] = value[c]
                    \/ to_dcu[a] # <<>> /\ Head(to_dcu[a]).data = value[c]
  BY DEF ShadowDelivered
<1>1. Configured /\ Awake /\ nest \in Nests
  BY AtWork
<1>2. c \in InUse(nest)
  <2>1. PICK j \in TargetsOf(nest, c) : nest[j].target.shadow
    BY DEF DeliveriesOf
  <2>2. j \in 1 .. (Len(nest) - 1) /\ nest[j].ccu = c
    BY <1>1, TargetFacts DEF Configured, TargetsOf
  <2> QED BY <2>2 DEF InUse
<1>3. c \in Drivers(nest)
  BY <1>1, <1>2 DEF Awake, OuterInv
<1>4. PICK k \in Nat : LapOf(c, k)
  BY <1>1, <1>3 DEF Awake, DriverInv
<1>5. k > 0
  <2>1. cfg[c].lower \in Nat /\ cfg[c].step \in Nat /\ value[c] = cfg[c].lower + k * cfg[c].step
    BY <1>1, <1>2, <1>4, Settled, LoopNestAssumption DEF CcuConfig, LapOf
  <2> QED BY <2>1
<1>6. Delivered(a, value[c])
  BY <1>4, <1>5 DEF LapOf
<1>7. CASE to_dcu[a] = <<>>
  BY <1>6, <1>7 DEF Delivered
<1>8. CASE to_dcu[a] # <<>>
  <2>1. to_dcu[a] = <<Update(a, value[c])>>
    BY <1>6, <1>8 DEF Delivered
  <2>2. Head(<<Update(a, value[c])>>).data = value[c]
    BY DEF Update
  <2> QED BY <1>8, <2>1, <2>2
<1> QED BY <1>7, <1>8

LEMMA Ranges ==
  ASSUME NestsProper, LoopInv
  PROVE  LcTypeOK
<1>1. NestTypes /\ ConfigInv /\ nest \in Nests /\ Len(nest) \in Nat
  BY NestFacts DEF LoopInv, NestTypes
<1>2. ASSUME NEW c \in CCU
      PROVE  /\ {cfg[c].lower, cfg[c].upper, cfg[c].step, value[c]} \subseteq 0 .. (ValueLimit - 1)
             /\ {cfg[c].child_count, received[c]} \subseteq 0 .. (CountLimit - 1)
             /\ cfg[c].targets \in Seq(Target) /\ Len(cfg[c].targets) <= MaxTargets
             /\ cfg[c].root \in BOOLEAN /\ cfg[c].parent \in CCU
  <2>1. cfg[c] \in CcuConfig
    BY <1>1 DEF NestTypes
  <2>2. Len(cfg[c].targets) <= MaxTargets
    <3>1. CASE c \in InUse(nest)
      <4> DEFINE sent == {j \in TargetsOf(nest, c) : j <= pc}
      <4>1. Len(cfg[c].targets) = Cardinality(sent)
        BY <1>1 DEF ConfigInv, Given
      <4>2. Cardinality(TargetsOf(nest, c)) < MaxTargets
        BY <1>1, <3>1, NestFacts DEF Proper, ProperLoop
      <4>3. IsFiniteSet(TargetsOf(nest, c))
        <5>1. IsFiniteSet(1 .. Len(nest)) /\ TargetsOf(nest, c) \in SUBSET (1 .. Len(nest))
          BY <1>1, FS_Interval DEF TargetsOf
        <5> QED BY <5>1, FS_Subset
      <4>4. sent \in SUBSET TargetsOf(nest, c)
        OBVIOUS
      <4> HIDE DEF sent
      <4>5. /\ Cardinality(sent) <= Cardinality(TargetsOf(nest, c)) /\ Cardinality(sent) \in Nat
            /\ Cardinality(TargetsOf(nest, c)) \in Nat
        BY <4>3, <4>4, FS_Subset, FS_CardinalityType
      <4> QED BY <4>1, <4>2, <4>5, LoopNestAssumption
    <3>2. CASE c \notin InUse(nest)
      <4>1. cfg[c].targets = <<>>
        BY <1>1, <3>2 DEF ConfigInv, CcuReset
      <4> QED BY <4>1, LoopNestAssumption
    <3> QED BY <3>1, <3>2
  <2> QED BY <1>1, <2>1, <2>2 DEF CcuConfig, NestTypes
<1> QED BY <1>1, <1>2 DEF LcTypeOK, NestTypes

LEMMA Silent ==
  ASSUME NestsProper, LoopInv, NestLaunched, all_loops_complete
  PROVE  /\ from_tile = <<>> /\ from_remote = <<>> /\ Dispatching = {}
         /\ \A l \in Leaves : Finished(l.addr)
<1>1. /\ NestTypes /\ LinksInv /\ nest \in Nests /\ Configured /\ Awake
  <2>1. ~(pc < Len(nest))
    BY NestFacts DEF LoopInv, NestTypes, NestLaunched
  <2> QED BY <2>1, AfterLaunch DEF LoopInv, NestTypes
<1>2. Drivers(nest) \subseteq InUse(nest) /\ InUse(nest) \subseteq CCU
  BY <1>1, UsersAreCCUs
<1>3. ASSUME NEW p \in InUse(nest) \ Drivers(nest)
      PROVE  ccu_state[p] = "COMPLETE" /\ \A d \in Under(nest, p) : ccu_state[d] = "COMPLETE"
  <2>1. cfg[p].root /\ p \in CCU
    BY <1>1, Settled
  <2>2. ccu_state[p] # "RUNNING" /\ OuterInv(p)
    BY <1>1, <2>1 DEF all_loops_complete, Awake
  <2> QED BY <2>2 DEF OuterInv
<1>4. ASSUME NEW c \in Drivers(nest) PROVE ccu_state[c] = "COMPLETE"
  <2>1. c \in CCU /\ (cfg[c].root \/ cfg[c].parent \in InUse(nest) \ Drivers(nest))
    BY <1>1, <1>2, Settled
  <2>2. CASE cfg[c].root
    <3>1. ccu_state[c] \in {"IDLE", "COMPLETE"}
      BY <2>1, <2>2 DEF all_loops_complete
    <3>2. ccu_state[c] # "IDLE"
      BY <1>1 DEF Awake, DriverInv, LapOf
    <3> QED BY <3>1, <3>2
  <2>3. CASE ~cfg[c].root
    <3>1. cfg[c].parent \in InUse(nest) \ Drivers(nest) /\ cfg[c].parent \in CCU
      BY <1>2, <2>1, <2>3
    <3>2. c \in Under(nest, cfg[c].parent)
      BY <1>1, <2>1, <2>3, <3>1, UnderIs
    <3> QED BY <1>3, <3>1, <3>2
  <2> QED BY <2>2, <2>3
<1>5. ASSUME NEW l \in Leaves PROVE Finished(l.addr) /\ ~Reported(l.addr)
  <2>1. PICK c \in CCU : l \in LeavesOf(c)
    BY DEF Leaves
  <2>2. c \in Drivers(nest)
    BY <1>1, <2>1, TargetFacts
  <2>3. PICK k \in Nat : Resting(l.addr, k)
    BY <1>1, <1>4, <2>1, <2>2 DEF Awake, DriverInv, LapOf
  <2> QED BY <2>3 DEF Resting, Finished, ResetPending
<1>6. from_tile = <<>>
  <2>1. ~(1 \in 1 .. Len(from_tile))
    <3>1. SUFFICES ASSUME 1 \in 1 .. Len(from_tile) PROVE FALSE
      OBVIOUS
    <3>2. PICK l \in Leaves : l.addr = from_tile[1]
      BY <1>1, <3>1 DEF LinksInv
    <3> QED BY <1>5, <3>1, <3>2 DEF Reported
  <2>2. from_tile \in Seq(Addr) /\ Len(from_tile) \in Nat
    BY <1>1 DEF NestTypes
  <2> QED BY <2>1, <2>2, EmptySeq
<1>7. from_remote = <<>>
  <2>1. ~(1 \in 1 .. Len(from_remote))
    <3>1. SUFFICES ASSUME 1 \in 1 .. Len(from_remote) PROVE FALSE
      OBVIOUS
    <3>2. PICK l \in Leaves : l.addr = from_remote[1]
      BY <1>1, <3>1 DEF LinksInv
    <3> QED BY <1>5, <3>1, <3>2 DEF Reported
  <2>2. from_remote \in Seq(Addr) /\ Len(from_remote) \in Nat
    BY <1>1 DEF NestTypes
  <2> QED BY <2>1, <2>2, EmptySeq
<1>8. Dispatching = {}
  <2>1. ASSUME NEW c \in CCU PROVE ccu_state[c] # "DISPATCHING"
    BY <1>1, <1>3, <1>4 DEF Awake, IdleInv
  <2> QED BY <2>1 DEF Dispatching
<1> QED BY <1>5, <1>6, <1>7, <1>8

(* The barrier is exact for every proper nest: whatever the interleaving   *)
(* of tiles, links and controller (LoopControllerRTL's update_ccu_ff), a   *)
(* RUNNING CCU has counted the finished loops below it, each of them once. *)
THEOREM BarrierIsExact ==
  ASSUME NestsProper
  PROVE  NestSpec => []BarrierExact
<1>1. LoopInv => BarrierExact
  BY Exact
<1> QED BY <1>1, LoopInvariance, PTL

(* Every leaf runs once per iteration, and a CCU that is COMPLETE has      *)
(* driven its leaves exactly as often as its bounds say, rounded up.       *)
THEOREM IterationsAreExact ==
  ASSUME NestsProper
  PROVE  NestSpec => []IterationsExact
<1>1. LoopInv => IterationsExact
  BY Laps
<1> QED BY <1>1, LoopInvariance, PTL

(* A leaf that counts in the shadow of an outer loop has, or is about to   *)
(* receive, the value of this iteration.                                   *)
THEOREM ShadowIsDelivered ==
  ASSUME NestsProper
  PROVE  NestSpec => []ShadowDelivered
<1>1. LoopInv => ShadowDelivered
  BY Arrives
<1> QED BY <1>1, LoopInvariance, PTL

(* The registers stay in range, and once all roots are COMPLETE nothing is *)
(* left on the links or in dispatch that could reach the next nest.        *)
THEOREM NestIsSilent ==
  ASSUME NestsProper
  PROVE  NestSpec => []NestInv
<1>1. LoopInv => NestInv
  BY Ranges, Silent DEF NestInv
<1> QED BY <1>1, LoopInvariance, PTL
=============================================================================
