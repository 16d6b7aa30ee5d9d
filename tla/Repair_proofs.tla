---------------------------- MODULE Repair_proofs ----------------------------
(***************************************************************************)
(* Proofs about Repair for every deployment, scheme, placement, sequence   *)
(* of failures and number of calls.                                        *)
(***************************************************************************)
EXTENDS Repair, SequenceTheorems, StripeFacts

-----------------------------------------------------------------------------
(* The first of an order                                                   *)

(* The first w of a sorted set: as many as there are, up to w, and none    *)
(* that comes before one of them is left out.                              *)
LEMMA FirstSorted ==
  ASSUME NEW xs, IsFiniteSet(xs), NEW less, IsOrder(xs, less), NEW w \in Nat
  PROVE  LET first == ToSet(AtMost(SortedBy(xs, less), w)) IN
         /\ first \in SUBSET xs /\ IsFiniteSet(first)
         /\ Cardinality(first) = IF w <= Cardinality(xs) THEN w ELSE Cardinality(xs)
         /\ \A x \in first, y \in xs : <<y, x>> \in less => y \in first
<1> DEFINE n == Cardinality(xs)
           rank(x) == Cardinality(Before(xs, less, x))
           seq == SortedBy(xs, less)
           m == Min({w, n})
           first == ToSet(AtMost(seq, w))
<1>1. n \in Nat
  BY FS_CardinalityType
<1>2. seq \in [1..n -> xs] /\ \A i \in 1..n : rank(seq[i]) = i - 1
  <2>1. \A r \in 0..(n - 1) : \E x \in xs : rank(x) = r
    BY Ranks
  <2>2. seq = [i \in 1..n |-> CHOOSE x \in xs : rank(x) = i - 1]
    BY DEF SortedBy
  <2> HIDE DEF rank, n, seq
  <2>3. ASSUME NEW i \in 1..n
        PROVE  seq[i] \in xs /\ rank(seq[i]) = i - 1
    <3>1. i - 1 \in 0..(n - 1)
      BY <1>1
    <3>2. \E x \in xs : rank(x) = i - 1
      BY <2>1, <3>1
    <3> QED BY <2>2, <3>2
  <2> QED BY <2>2, <2>3
<1>3. ASSUME NEW x \in xs
      PROVE  /\ rank(x) \in Nat
             /\ \A y \in xs : <<y, x>> \in less => rank(y) < rank(x)
  <2>1. Before(xs, less, x) \in SUBSET xs /\ IsFiniteSet(Before(xs, less, x))
    BY FS_Subset DEF Before
  <2>2. ASSUME NEW y \in xs, <<y, x>> \in less
        PROVE  rank(y) < rank(x)
    <3>1. Before(xs, less, y) \in SUBSET Before(xs, less, x)
      BY <2>2 DEF Before, IsOrder
    <3>2. y \in Before(xs, less, x) /\ y \notin Before(xs, less, y)
      BY <2>2 DEF Before, IsOrder
    <3>3. /\ Cardinality(Before(xs, less, y)) <= Cardinality(Before(xs, less, x))
          /\ Cardinality(Before(xs, less, y)) # Cardinality(Before(xs, less, x))
          /\ IsFiniteSet(Before(xs, less, y))
      BY <2>1, <3>1, <3>2, FS_Subset
    <3> QED BY <2>1, <3>3, FS_CardinalityType
  <2> QED BY <2>1, <2>2, FS_CardinalityType
<1>4. ASSUME NEW x \in xs, NEW y \in xs, x # y
      PROVE  rank(x) # rank(y)
  <2>1. <<x, y>> \in less \/ <<y, x>> \in less
    BY <1>4 DEF IsOrder
  <2>2. rank(x) \in Nat /\ rank(y) \in Nat /\ (rank(x) < rank(y) \/ rank(y) < rank(x))
    BY <1>3, <2>1
  <2> HIDE DEF rank
  <2> QED BY <2>2
<1> HIDE DEF rank, n, seq
<1>5. m \in Nat /\ m <= n /\ m = IF w <= n THEN w ELSE n
  <2> DEFINE both == {w, n}
  <2>1. both \in SUBSET Nat /\ both # {} /\ n \in both /\ w \in both /\ both = {w, n}
    BY <1>1
  <2> HIDE DEF both
  <2>2. Min(both) \in both /\ Min(both) <= n /\ Min(both) <= w
    BY <2>1, MinIsMember
  <2>3. Min(both) = m
    BY <2>1
  <2> QED BY <1>1, <2>1, <2>2, <2>3
<1> HIDE DEF m
<1>6. AtMost(seq, w) = [i \in 1..m |-> seq[i]]
  <2>1. Len(seq) = n /\ seq \in Seq(xs)
    BY <1>1, <1>2
  <2>2. m \in Int /\ 1 \in Int
    BY <1>5
  <2>3. AtMost(seq, w) = SubSeq(seq, 1, m)
    BY <2>1 DEF AtMost, m
  <2> QED BY <1>1, <1>5, <2>1, <2>2, <2>3, SubSeqProperties
<1>7. first = {seq[i] : i \in 1..m}
  BY <1>6 DEF ToSet
<1> HIDE DEF first
<1>8. [i \in 1..m |-> seq[i]] \in Bijection(1..m, first)
  <2> DEFINE f == [i \in 1..m |-> seq[i]]
  <2>1. f \in [1..m -> first]
    BY <1>7
  <2>2. \A i, j \in 1..m : f[i] = f[j] => i = j
    BY <1>1, <1>2, <1>5
  <2>3. \A x \in first : \E i \in 1..m : f[i] = x
    BY <1>7
  <2> HIDE DEF f
  <2>4. f \in Bijection(1..m, first)
    BY <2>1, <2>2, <2>3 DEF Bijection, Injection, Surjection, IsInjective
  <2> QED BY <2>4 DEF f
<1>9. IsFiniteSet(first) /\ Cardinality(first) = m
  <2>1. IsFiniteSet(1..m) /\ Cardinality(1..m) = m
    <3>1. m \in Int /\ 1 \in Int /\ (IF 1 > m THEN 0 ELSE m - 1 + 1) = m
      BY <1>5
    <3> QED BY <3>1, FS_Interval
  <2> QED BY <1>8, <2>1, FS_Bijection DEF ExistsBijection
<1>10. first \in SUBSET xs
  BY <1>1, <1>2, <1>5, <1>7
<1>11. ASSUME NEW x \in first, NEW y \in xs, <<y, x>> \in less
       PROVE  y \in first
  <2>1. PICK i \in 1..m : x = seq[i]
    BY <1>7
  <2>2. rank(y) < i - 1 /\ rank(y) \in Nat
    BY <1>1, <1>2, <1>3, <1>5, <1>10, <1>11, <2>1
  <2>3. rank(y) + 1 \in 1..m /\ rank(seq[rank(y) + 1]) = rank(y) /\ seq[rank(y) + 1] \in xs
    BY <1>1, <1>2, <1>5, <2>2
  <2> QED BY <1>4, <1>7, <2>3
<1> QED BY <1>5, <1>9, <1>10, <1>11 DEF first, seq, n, m

LEMMA AscendingFirst ==
  ASSUME NEW xs, IsFiniteSet(xs), xs \subseteq Int, NEW w \in Nat
  PROVE  LET first == ToSet(AtMost(Ascending(xs), w)) IN
         /\ first \in SUBSET xs /\ IsFiniteSet(first)
         /\ Cardinality(first) = IF w <= Cardinality(xs) THEN w ELSE Cardinality(xs)
         /\ \A x \in first, y \in xs : y < x => y \in first
<1> DEFINE less == {p \in xs \X xs : p[1] < p[2]}
<1>1. \A x, y \in xs : <<x, y>> \in less <=> x < y
  OBVIOUS
<1>2. Ascending(xs) = SortedBy(xs, less)
  BY DEF Ascending
<1> HIDE DEF less
<1>3. IsOrder(xs, less)
  BY <1>1 DEF IsOrder
<1> DEFINE first == ToSet(AtMost(Ascending(xs), w))
<1>4. /\ first \in SUBSET xs /\ IsFiniteSet(first)
      /\ Cardinality(first) = IF w <= Cardinality(xs) THEN w ELSE Cardinality(xs)
      /\ \A x \in first, y \in xs : <<y, x>> \in less => y \in first
  BY <1>2, <1>3, FirstSorted
<1> HIDE DEF first
<1>5. \A x \in first, y \in xs : y < x => y \in first
  BY <1>1, <1>4
<1> QED BY <1>4, <1>5 DEF first

-----------------------------------------------------------------------------
(* Sets that are finite                                                    *)

LEMMA RangeFinite ==
  ASSUME NEW f, f \in [DOMAIN f -> Range(f)], IsFiniteSet(DOMAIN f)
  PROVE  IsFiniteSet(Range(f))
BY Fun_RangeProperties, FS_Surjection

LEMMA AzsFinite ==
  ASSUME NEW at, NEW xs, IsFiniteSet(xs)
  PROVE  IsFiniteSet(AzsOf(at, xs))
<1> DEFINE f == [x \in xs |-> AzOf(at[x])]
<1>1. DOMAIN f = xs /\ Range(f) = AzsOf(at, xs) /\ f \in [DOMAIN f -> Range(f)]
  BY DEF Range, AzsOf
<1> HIDE DEF f
<1> QED BY <1>1, RangeFinite

LEMMA OrderOfAll ==
  ASSUME NEW xs, IsFiniteSet(xs), NEW seq \in SetToSeqs(xs)
  PROVE  /\ seq \in Seq(xs)
         /\ Range(seq) = xs
         /\ \A i, j \in DOMAIN seq : seq[i] = seq[j] => i = j
         /\ DOMAIN seq \subseteq Nat
<1> DEFINE n == Cardinality(xs)
<1>1. n \in Nat
  BY FS_CardinalityType
<1>2. /\ seq \in [1..n -> xs]
      /\ \A i, j \in 1..n : seq[i] = seq[j] => i = j
  BY DEF SetToSeqs
<1>3. Cardinality(1..n) = n /\ IsFiniteSet(1..n)
  <2> HIDE DEF n
  <2>1. 1 \in Int /\ n \in Int
    BY <1>1
  <2> QED BY <1>1, <2>1, FS_Interval
<1>4. Range(seq) = xs
  <2>1. seq \in Injection(1..n, xs)
    BY <1>2, Fun_IsInj
  <2>2. seq \in Surjection(1..n, xs)
    BY <1>3, <2>1, FS_Injection
  <2> QED BY <2>2, Fun_SurjectionProperties
<1> HIDE DEF n
<1> QED BY <1>1, <1>2, <1>4

-----------------------------------------------------------------------------
(* The jobs                                                                *)

LEMMA TurnsAreOrdered ==
  ASSUME NEW at, NEW xs, xs \subseteq Nat, NEW azs, DOMAIN azs \subseteq Nat,
         \A i, j \in DOMAIN azs : azs[i] = azs[j] => i = j,
         \A x \in xs : \E i \in DOMAIN azs : azs[i] = AzOf(at[x])
  PROVE  IsOrder(xs, ByTurn(at, xs, azs))
<1> DEFINE less == ByTurn(at, xs, azs)
           turn(x) == CHOOSE i \in DOMAIN azs : azs[i] = AzOf(at[x])
<1>1. ASSUME NEW x \in xs
      PROVE  /\ turn(x) \in DOMAIN azs /\ turn(x) \in Nat
             /\ \A i \in DOMAIN azs : azs[i] = AzOf(at[x]) <=> i = turn(x)
  OBVIOUS
<1> HIDE DEF turn
<1>2. \A x, y \in xs : <<x, y>> \in less <=>
        turn(x) < turn(y) \/ (turn(x) = turn(y) /\ x < y)
  BY <1>1 DEF ByTurn
<1> HIDE DEF less
<1>3. \A x, y \in xs : x # y => <<x, y>> \in less \/ <<y, x>> \in less
  BY <1>1, <1>2
<1>4. \A x \in xs : <<x, x>> \notin less
  BY <1>1, <1>2
<1>5. \A x, y, z \in xs : <<x, y>> \in less /\ <<y, z>> \in less => <<x, z>> \in less
  BY <1>1, <1>2
<1> QED BY <1>3, <1>4, <1>5 DEF IsOrder, less

LEMMA Jobs ==
  ASSUME NEW sch, IsScheme(sch), NEW at, NEW lost \in SUBSET Blocks(sch),
         NEW alone \in SetToSeqs(Alone(sch, at, lost)),
         NEW shared \in SetToSeqs(Shared(sch, at, lost))
  PROVE  /\ JobsOf(sch, at, lost, alone, shared) \in Seq(SUBSET lost)
         /\ lost # {} => JobsOf(sch, at, lost, alone, shared) # <<>>
<1> DEFINE real == {x \in lost : AzOf(at[x]) \in Range(shared)}
           beyond == Beyond(sch, real)
           last == SortedBy(beyond, ByTurn(at, beyond, shared))
<1>1. IsFiniteSet(lost) /\ lost \subseteq Nat
  BY BlocksAreNumbers, FS_Subset
<1>2. IsFiniteSet(AzsOf(at, lost))
  BY <1>1, AzsFinite
<1>3. IsFiniteSet(Alone(sch, at, lost)) /\ IsFiniteSet(Shared(sch, at, lost))
  <2>1. Alone(sch, at, lost) \in SUBSET AzsOf(at, lost)
    BY DEF Alone
  <2>2. Shared(sch, at, lost) \in SUBSET AzsOf(at, lost)
    BY DEF Shared
  <2> QED BY <1>2, <2>1, <2>2, FS_Subset
<1>4. /\ alone \in Seq(Alone(sch, at, lost))
      /\ Range(alone) = Alone(sch, at, lost)
      /\ Range(shared) = Shared(sch, at, lost)
      /\ \A i, j \in DOMAIN shared : shared[i] = shared[j] => i = j
      /\ DOMAIN shared \subseteq Nat
  BY <1>3, OrderOfAll
<1>5. beyond \in SUBSET lost /\ real \in SUBSET lost
  BY DEF Beyond
<1>6. IsFiniteSet(beyond) /\ beyond \subseteq Nat
  BY <1>1, <1>5, FS_Subset
<1>7. \A x \in beyond : \E i \in DOMAIN shared : shared[i] = AzOf(at[x])
  BY DEF Beyond, Range
<1> HIDE DEF beyond
<1>8. last \in [1..Cardinality(beyond) -> beyond] /\ Cardinality(beyond) \in Nat
  BY <1>4, <1>6, <1>7, TurnsAreOrdered, Sorted, FS_CardinalityType
<1> HIDE DEF last
<1> DEFINE first == [i \in DOMAIN alone |-> InAz(at, lost, alone[i])]
           middle == IF real = {} THEN <<>> ELSE <<real>>
           end == [i \in DOMAIN last |-> {last[i]}]
<1>9. JobsOf(sch, at, lost, alone, shared) = first \o middle \o end
  BY DEF JobsOf, last, beyond
<1>10. end \in Seq(SUBSET lost)
  BY <1>5, <1>8
<1>11. first \in Seq(SUBSET lost)
  BY <1>4 DEF InAz
<1>12. middle \in Seq(SUBSET lost)
  <2> DEFINE sets == SUBSET lost
  <2>1. real \in sets
    BY <1>5
  <2> HIDE DEF real, sets
  <2>2. <<>> \in Seq(sets)
    OBVIOUS
  <2>3. <<real>> \in Seq(sets)
    BY <2>1
  <2>4. middle \in Seq(sets)
    BY <2>2, <2>3
  <2> QED BY <2>4 DEF sets
<1>13. ASSUME lost # {} PROVE first # <<>> \/ middle # <<>>
  <2>1. PICK x \in lost : TRUE
    BY <1>13
  <2>2. AzOf(at[x]) \in Range(alone) \/ AzOf(at[x]) \in Range(shared)
    BY <1>4 DEF Shared, AzsOf
  <2>3. AzOf(at[x]) \in Range(alone) => DOMAIN first # {}
    BY DEF Range
  <2>4. AzOf(at[x]) \in Range(shared) => real # {}
    OBVIOUS
  <2> QED BY <2>2, <2>3, <2>4
<1> HIDE DEF first, middle, end
<1> QED BY <1>9, <1>10, <1>11, <1>12, <1>13

(* What the jobs of a stripe are: only one has several blocks, none of     *)
(* which is in a job before it, and every block is rebuilt by one of them. *)
OneBlock(xs) == Cardinality(xs) = 1
Apart(jobs) ==
  \A i, j \in DOMAIN jobs : i < j => OneBlock(jobs[j]) \/ jobs[i] \cap jobs[j] = {}

LEMMA JobsCover ==
  ASSUME NEW sch, IsScheme(sch), NEW at, DOMAIN at = Blocks(sch), NEW lost \in SUBSET Blocks(sch),
         NEW alone \in SetToSeqs(Alone(sch, at, lost)),
         NEW shared \in SetToSeqs(Shared(sch, at, lost))
  PROVE  LET jobs == JobsOf(sch, at, lost, alone, shared) IN
         /\ Apart(jobs)
         /\ lost \subseteq UNION {Rebuilt(sch, jobs[i]) : i \in DOMAIN jobs}
<1> DEFINE real == {x \in lost : AzOf(at[x]) \in Range(shared)}
           beyond == Beyond(sch, real)
           less == ByTurn(at, beyond, shared)
           last == SortedBy(beyond, less)
           jobs == JobsOf(sch, at, lost, alone, shared)
<1>1. IsFiniteSet(lost) /\ lost \subseteq Nat
  BY BlocksAreNumbers, FS_Subset
<1>2. IsFiniteSet(AzsOf(at, lost))
  BY <1>1, AzsFinite
<1>3. IsFiniteSet(Alone(sch, at, lost)) /\ IsFiniteSet(Shared(sch, at, lost))
  <2>1. Alone(sch, at, lost) \in SUBSET AzsOf(at, lost)
    BY DEF Alone
  <2>2. Shared(sch, at, lost) \in SUBSET AzsOf(at, lost)
    BY DEF Shared
  <2> QED BY <1>2, <2>1, <2>2, FS_Subset
<1>4. /\ alone \in Seq(Alone(sch, at, lost))
      /\ Range(alone) = Alone(sch, at, lost)
      /\ Range(shared) = Shared(sch, at, lost)
      /\ \A i, j \in DOMAIN shared : shared[i] = shared[j] => i = j
      /\ DOMAIN shared \subseteq Nat
  BY <1>3, OrderOfAll
<1>5. beyond \in SUBSET lost /\ real \in SUBSET lost
  BY DEF Beyond
<1>6. IsFiniteSet(beyond) /\ beyond \subseteq Nat
  BY <1>1, <1>5, FS_Subset
<1>7. IsOrder(beyond, less)
  <2>1. \A x \in beyond : \E i \in DOMAIN shared : shared[i] = AzOf(at[x])
    BY DEF Beyond, Range
  <2> HIDE DEF beyond
  <2> QED BY <1>4, <1>6, <2>1, TurnsAreOrdered
<1>8. /\ last \in [1..Cardinality(beyond) -> beyond] /\ Cardinality(beyond) \in Nat
      /\ \A x \in beyond : \E i \in 1..Cardinality(beyond) : last[i] = x
  <2> HIDE DEF beyond, less
  <2> QED BY <1>6, <1>7, Sorted, SortedHasAll, FS_CardinalityType
<1> DEFINE n == Cardinality(beyond)
           first == [i \in DOMAIN alone |-> InAz(at, lost, alone[i])]
           middle == IF real = {} THEN <<>> ELSE <<real>>
           end == [i \in DOMAIN last |-> {last[i]}]
           m == Len(first)
           o == Len(middle)
<1>9. jobs = first \o middle \o end
  BY DEF JobsOf
<1> HIDE DEF last, n, beyond, real, less
<1>10. first \in Seq(SUBSET lost) /\ m = Len(alone) /\ m \in Nat
  BY <1>4 DEF InAz
<1>11. middle \in Seq(SUBSET lost) /\ o = IF real = {} THEN 0 ELSE 1
  <2> DEFINE sets == SUBSET lost
  <2>1. real \in sets
    BY <1>5
  <2> HIDE DEF sets
  <2>2. <<>> \in Seq(sets) /\ <<real>> \in Seq(sets)
    BY <2>1
  <2> QED BY <2>2 DEF sets
<1>12. end \in Seq(SUBSET lost) /\ Len(end) = n /\ n \in Nat /\ DOMAIN last = 1..n
  BY <1>5, <1>8 DEF n
<1>13. \A i \in 1..m : first[i] = InAz(at, lost, alone[i]) /\ alone[i] \in Alone(sch, at, lost)
  BY <1>4, <1>10
<1>14. \A i \in 1..n : end[i] = {last[i]}
  BY <1>12
<1>15. \A i \in 1..o : real # {} /\ i = 1 /\ middle[i] = real
  BY <1>11
<1> HIDE DEF first, middle, end, m, o
<1>16. /\ DOMAIN jobs = 1..(m + o + n)
       /\ \A i \in 1..m : jobs[i] = first[i]
       /\ \A i \in 1..o : jobs[m + i] = middle[i]
       /\ \A i \in 1..n : jobs[m + o + i] = end[i]
  <2> DEFINE sets == SUBSET lost
             both == first \o middle
  <2> HIDE DEF sets
  <2>1. /\ first \in Seq(sets) /\ middle \in Seq(sets) /\ end \in Seq(sets)
        /\ Len(first) = m /\ Len(middle) = o /\ Len(end) = n
    BY <1>10, <1>11, <1>12 DEF sets, m, o
  <2>2. /\ both \in Seq(sets) /\ Len(both) = m + o
        /\ \A i \in 1..(m + o) : both[i] = IF i <= m THEN first[i] ELSE middle[i - m]
    BY <2>1, ConcatProperties
  <2>3. jobs = both \o end
    BY <1>9
  <2> HIDE DEF both, jobs
  <2>4. /\ jobs \in Seq(sets) /\ Len(jobs) = m + o + n
        /\ \A i \in 1..(m + o + n) : jobs[i] = IF i <= m + o THEN both[i]
                                                            ELSE end[i - (m + o)]
    <3>1. /\ both \o end \in Seq(sets) /\ Len(both \o end) = Len(both) + Len(end)
          /\ \A i \in 1..(Len(both) + Len(end)) :
               (both \o end)[i] = IF i <= Len(both) THEN both[i] ELSE end[i - Len(both)]
      <4>1. both \in Seq(sets) /\ end \in Seq(sets)
        BY <2>1, <2>2
      <4> QED BY <4>1, ConcatProperties
    <3> QED BY <2>1, <2>2, <2>3, <3>1
  <2>5. DOMAIN jobs = 1..(m + o + n)
    BY <2>4, LenProperties
  <2>6. m \in Nat /\ o \in Nat /\ n \in Nat
    BY <1>10, <1>11, <1>12
  <2>7. ASSUME NEW i \in 1..m PROVE jobs[i] = first[i]
    <3>1. i \in 1..(m + o + n) /\ i \in 1..(m + o) /\ i <= m + o /\ i <= m
      BY <2>6
    <3> QED BY <2>2, <2>4, <3>1
  <2>8. ASSUME NEW i \in 1..o PROVE jobs[m + i] = middle[i]
    <3>1. /\ m + i \in 1..(m + o + n) /\ m + i \in 1..(m + o) /\ m + i <= m + o
          /\ ~(m + i <= m) /\ (m + i) - m = i
      BY <2>6
    <3> QED BY <2>2, <2>4, <3>1
  <2>9. ASSUME NEW i \in 1..n PROVE jobs[m + o + i] = end[i]
    <3>1. /\ m + o + i \in 1..(m + o + n) /\ ~(m + o + i <= m + o)
          /\ (m + o + i) - (m + o) = i
      BY <2>6
    <3> QED BY <2>4, <3>1
  <2> QED BY <2>5, <2>7, <2>8, <2>9
<1> HIDE DEF jobs
<1>17. \A i \in 1..m : OneBlock(jobs[i])
  <2> TAKE i \in 1..m
  <2>1. jobs[i] = InAz(at, lost, alone[i]) /\ alone[i] \in Alone(sch, at, lost)
    BY <1>13, <1>16
  <2> QED BY <2>1 DEF Alone, OneBlock
<1>18. \A i \in 1..n : jobs[m + o + i] = {last[i]} /\ OneBlock(jobs[m + o + i])
  <2> TAKE i \in 1..n
  <2>1. jobs[m + o + i] = {last[i]}
    BY <1>14, <1>16
  <2>2. Cardinality({last[i]}) = 1
    BY FS_Singleton
  <2> QED BY <2>1, <2>2 DEF OneBlock
<1>19. \A i \in DOMAIN jobs : \/ i \in 1..m
                              \/ i = m + 1 /\ real # {} /\ jobs[i] = real
                              \/ \E j \in 1..n : i = m + o + j
  <2> TAKE i \in DOMAIN jobs
  <2>1. i \in 1..(m + o + n) /\ m \in Nat /\ n \in Nat /\ o \in Nat
    BY <1>10, <1>11, <1>12, <1>16
  <2>2. i \in 1..m \/ i - m \in 1..o \/ i - m - o \in 1..n
    BY <2>1
  <2>3. i - m \in 1..o => i = m + 1 /\ real # {} /\ jobs[i] = real
    <3>1. i - m \in 1..o => i - m = 1 /\ jobs[m + (i - m)] = real /\ real # {}
      BY <1>15, <1>16
    <3> QED BY <2>1, <3>1
  <2>4. i - m - o \in 1..n => i = m + o + (i - m - o)
    BY <2>1
  <2> QED BY <2>2, <2>3, <2>4
<1>20. Apart(jobs)
  <2> SUFFICES ASSUME NEW i \in DOMAIN jobs, NEW j \in DOMAIN jobs, i < j, ~OneBlock(jobs[j])
               PROVE  jobs[i] \cap jobs[j] = {}
    BY DEF Apart
  <2>1. j = m + 1 /\ jobs[j] = real
    BY <1>17, <1>18, <1>19
  <2>2. i \in 1..m
    BY <1>10, <1>11, <1>12, <1>16, <2>1
  <2>3. jobs[i] = InAz(at, lost, alone[i]) /\ alone[i] \in Alone(sch, at, lost)
    BY <1>13, <1>16, <2>2
  <2> QED BY <1>4, <2>1, <2>3 DEF InAz, Shared, real
<1>21. ASSUME NEW x \in lost
       PROVE  \E i \in DOMAIN jobs : x \in Rebuilt(sch, jobs[i])
  <2>1. AzOf(at[x]) \in Alone(sch, at, lost) \/ AzOf(at[x]) \in Shared(sch, at, lost)
    BY DEF Shared, AzsOf
  <2>2. CASE AzOf(at[x]) \in Alone(sch, at, lost)
    <3>1. PICK i \in 1..m : alone[i] = AzOf(at[x])
      <4>1. DOMAIN alone = 1..m
        BY <1>4, <1>10
      <4> QED BY <1>4, <2>2, <4>1 DEF Range
    <3>2. x \in jobs[i]
      BY <1>13, <1>16, <3>1 DEF InAz
    <3>3. Rebuilt(sch, jobs[i]) = jobs[i]
      BY <1>17 DEF Rebuilt, OneBlock
    <3>4. i \in DOMAIN jobs
      BY <1>10, <1>11, <1>12, <1>16
    <3> QED BY <3>2, <3>3, <3>4
  <2>3. CASE AzOf(at[x]) \in Shared(sch, at, lost)
    <3>1. x \in real
      BY <1>4, <2>3 DEF real
    <3>2. o = 1 /\ m + 1 \in DOMAIN jobs /\ jobs[m + 1] = real
      BY <1>10, <1>11, <1>12, <1>15, <1>16, <3>1
    <3>3. CASE OneBlock(real) \/ x < Limit(sch)
      <4>1. x \in Rebuilt(sch, real)
        BY <3>1, <3>3 DEF Rebuilt, OneBlock, InLimit
      <4> QED BY <3>2, <4>1
    <3>4. CASE ~(x < Limit(sch))
      <4>1. x \in beyond
        <5>1. Limit(sch) \in Nat /\ x \in Nat
          BY <1>1 DEF Limit, IsScheme
        <5> QED BY <3>1, <3>4, <5>1 DEF beyond, Beyond
      <4>2. PICK i \in 1..n : last[i] = x
        BY <1>8, <4>1 DEF n
      <4>3. m + o + i \in DOMAIN jobs
        BY <1>10, <1>11, <1>12, <1>16
      <4>4. jobs[m + o + i] = {x} /\ Rebuilt(sch, {x}) = {x}
        BY <1>18, <4>2, FS_Singleton DEF Rebuilt
      <4> QED BY <4>3, <4>4
    <3> QED BY <3>3, <3>4
  <2> QED BY <2>1, <2>2, <2>3
<1> QED BY <1>20, <1>21 DEF jobs

-----------------------------------------------------------------------------
LEMMA EveryBlockGrouped ==
  ASSUME NEW sch, IsScheme(sch), sch.code # "RS", NEW x \in Blocks(sch)
  PROVE  GroupWith(sch, x) \in Groups(sch) /\ x \in Members(sch, GroupWith(sch, x))
BY BlockInGroup DEF GroupWith

-----------------------------------------------------------------------------
(* The reads                                                               *)

(* The reads of a job: by AZ, that of the main proxy among them, no block  *)
(* by two, and only blocks of xs.                                          *)
Divided(reads, main, xs) ==
  /\ main \in DOMAIN reads
  /\ IsFiniteSet(DOMAIN reads)
  /\ \A a \in DOMAIN reads : reads[a] \subseteq xs
  /\ \A a, b \in DOMAIN reads : a # b => reads[a] \cap reads[b] = {}

LEMMA ByAzDivides ==
  ASSUME NEW at, NEW xs, IsFiniteSet(xs), NEW main
  PROVE  Divided(ByAz(at, xs, main), main, xs)
<1> DEFINE reads == ByAz(at, xs, main)
<1>1. DOMAIN reads = AzsOf(at, xs) \cup {main} /\ IsFiniteSet(DOMAIN reads)
  BY AzsFinite, FS_AddElement DEF ByAz
<1>2. \A a \in DOMAIN reads : reads[a] = InAz(at, xs, a)
  BY DEF ByAz
<1> HIDE DEF reads
<1> QED BY <1>1, <1>2 DEF Divided, InAz, reads

LEMMA SingleReadsDivided ==
  ASSUME NEW sch, IsScheme(sch), NEW at, NEW x \in Blocks(sch)
  PROVE  Divided(SingleReads(sch, at, x), AzOf(at[x]), Blocks(sch) \ {x})
<1> DEFINE main == AzOf(at[x])
           rest == Blocks(sch) \ {x}
<1>1. IsFiniteSet(rest)
  BY BlocksAreNumbers, FS_RemoveElement
<1>2. \A xs : xs \subseteq rest => /\ Divided(ByAz(at, xs, main), main, rest)
                                   /\ Divided(ByMain(xs, main), main, rest)
  <2> SUFFICES ASSUME NEW xs, xs \subseteq rest
               PROVE  /\ Divided(ByAz(at, xs, main), main, rest)
                      /\ Divided(ByMain(xs, main), main, rest)
    OBVIOUS
  <2>1. Divided(ByAz(at, xs, main), main, xs)
    BY <1>1, FS_Subset, ByAzDivides
  <2>2. DOMAIN ByMain(xs, main) = {main} /\ ByMain(xs, main)[main] = xs
    BY DEF ByMain
  <2> QED BY <2>1, <2>2, FS_Singleton DEF Divided
<1>3. sch.code \in {"RS", "OPPO_LRC", "Azure_LRC_1"}
  BY DEF IsScheme
<1>4. CASE sch.code = "RS"
  <2>1. ReadsRS(sch, x) \subseteq rest
    BY <1>4, BlocksAreNumbers DEF ReadsRS, Blocks, Size, IsScheme
  <2>2. SingleReads(sch, at, x) = ByAz(at, ReadsRS(sch, x), main)
    BY <1>4 DEF SingleReads
  <2> QED BY <1>2, <2>1, <2>2
<1>5. CASE sch.code # "RS"
  <2>1. Members(sch, GroupWith(sch, x)) \ {x} \subseteq rest
    BY <1>5, EveryBlockGrouped, MembersAreBlocks
  <2>2. ReadsAzure(sch, x) \subseteq rest /\ ReadsOppo(sch, x) \subseteq rest
    BY <2>1 DEF ReadsAzure, ReadsOppo
  <2>3. \E xs : /\ xs \subseteq rest
                /\ SingleReads(sch, at, x) \in {ByAz(at, xs, main), ByMain(xs, main)}
    <3>1. CASE sch.code = "OPPO_LRC"
      <4>1. SingleReads(sch, at, x) = ByMain(ReadsOppo(sch, x), main)
        BY <3>1 DEF SingleReads
      <4> QED BY <2>2, <4>1
    <3>2. CASE sch.code = "Azure_LRC_1"
      <4>1. SingleReads(sch, at, x) = IF x \in Members(sch, sch.l)
                                      THEN ByMain(ReadsAzure(sch, x), main)
                                      ELSE ByAz(at, ReadsAzure(sch, x), main)
        BY <3>2 DEF SingleReads
      <4> QED BY <2>2, <4>1
    <3> QED BY <1>3, <1>5, <3>1, <3>2
  <2> QED BY <1>2, <2>3
<1> QED BY <1>4, <1>5

(* The sort of the AZs by their first live block.                          *)
ToTake(sch, lost) == {x \in Live(sch, lost) : x < Limit(sch)}

LEMMA TakenInOrder ==
  ASSUME NEW sch, IsScheme(sch), NEW at, DOMAIN at = Blocks(sch), NEW lost
  PROVE  /\ ToTake(sch, lost) \in SUBSET Live(sch, lost)
         /\ IsFiniteSet(ToTake(sch, lost)) /\ Cardinality(ToTake(sch, lost)) \in Nat
         /\ Wanted(sch) \in Nat
         /\ \E order : /\ IsOrder(ToTake(sch, lost), order)
                       /\ InReadOrder(sch, at, lost) = SortedBy(ToTake(sch, lost), order)
<1> DEFINE live == Live(sch, lost)
           xs == {x \in live : x < Limit(sch)}
           first(x) == Min(InAz(at, live, AzOf(at[x])))
           later(x, y) == first(x) > first(y)
           order == {p \in xs \X xs : \/ later(p[1], p[2])
                                      \/ ~later(p[2], p[1]) /\ p[1] < p[2]}
<1>1. live \in SUBSET Blocks(sch) /\ xs \in SUBSET live
  BY DEF Live
<1>2. /\ IsFiniteSet(xs) /\ xs \subseteq Nat /\ Cardinality(xs) \in Nat
      /\ live \subseteq Nat
  BY <1>1, BlocksAreNumbers, FS_Subset, FS_CardinalityType
<1>3. ASSUME NEW x \in xs PROVE first(x) \in Nat
  <2> DEFINE there == InAz(at, live, AzOf(at[x]))
  <2>1. there \in SUBSET Nat /\ x \in there
    BY <1>1, <1>2 DEF InAz
  <2> HIDE DEF there
  <2> QED BY <2>1, MinIsMember DEF there
<1>4. InReadOrder(sch, at, lost) = SortedBy(xs, order)
  BY DEF InReadOrder
<1>5. Wanted(sch) \in Nat
  BY DEF Wanted, IsScheme
<1> HIDE DEF first, xs
<1>6. \A x, y \in xs : <<x, y>> \in order <=>
        first(x) > first(y) \/ (~(first(y) > first(x)) /\ x < y)
  OBVIOUS
<1> HIDE DEF order
<1>7. IsOrder(xs, order)
  <2>1. \A x \in xs : <<x, x>> \notin order
    BY <1>2, <1>3, <1>6
  <2>2. \A x, y, z \in xs : <<x, y>> \in order /\ <<y, z>> \in order => <<x, z>> \in order
    BY <1>2, <1>3, <1>6
  <2>3. \A x, y \in xs : x # y => <<x, y>> \in order \/ <<y, x>> \in order
    BY <1>2, <1>3, <1>6
  <2> QED BY <2>1, <2>2, <2>3 DEF IsOrder
<1>8. ToTake(sch, lost) = xs
  BY DEF ToTake, xs
<1> QED BY <1>1, <1>2, <1>4, <1>5, <1>7, <1>8

(* The blocks a full decoding takes, in whatever order the AZs are walked. *)
LEMMA TakenBlocks ==
  ASSUME NEW sch, IsScheme(sch), NEW at, DOMAIN at = Blocks(sch), NEW lost
  PROVE  LET xs == ToTake(sch, lost)
             taken == ToSet(Taken(sch, at, lost))
         IN /\ IsFiniteSet(xs) /\ Cardinality(xs) \in Nat
            /\ taken \in SUBSET xs /\ IsFiniteSet(taken)
            /\ Cardinality(taken) = IF Wanted(sch) <= Cardinality(xs) THEN Wanted(sch)
                                                                     ELSE Cardinality(xs)
<1> DEFINE xs == ToTake(sch, lost)
           taken == ToSet(Taken(sch, at, lost))
<1>1. /\ IsFiniteSet(xs) /\ Cardinality(xs) \in Nat /\ Wanted(sch) \in Nat
      /\ \E order : IsOrder(xs, order) /\ InReadOrder(sch, at, lost) = SortedBy(xs, order)
  BY TakenInOrder
<1>2. PICK order : IsOrder(xs, order) /\ InReadOrder(sch, at, lost) = SortedBy(xs, order)
  BY <1>1
<1>3. taken = ToSet(AtMost(SortedBy(xs, order), Wanted(sch)))
  BY <1>2 DEF Taken
<1> HIDE DEF xs, taken
<1> DEFINE first == ToSet(AtMost(SortedBy(xs, order), Wanted(sch)))
<1>4. /\ first \in SUBSET xs /\ IsFiniteSet(first)
      /\ Cardinality(first) = IF Wanted(sch) <= Cardinality(xs) THEN Wanted(sch)
                                                               ELSE Cardinality(xs)
  BY <1>1, <1>2, FirstSorted
<1>5. /\ taken \in SUBSET xs /\ IsFiniteSet(taken)
      /\ Cardinality(taken) = IF Wanted(sch) <= Cardinality(xs) THEN Wanted(sch)
                                                               ELSE Cardinality(xs)
  BY <1>3, <1>4
<1> QED BY <1>1, <1>5 DEF xs, taken

LEMMA ManyReadsDivided ==
  ASSUME NEW sch, IsScheme(sch), NEW at, DOMAIN at = Blocks(sch),
         NEW lost, NEW main
  PROVE  /\ main \in DOMAIN PartialReads(sch, at, lost) =>
              Divided(PartialReads(sch, at, lost), main, Blocks(sch) \ lost)
         /\ main \in DOMAIN FullReads(sch, at, lost) =>
              Divided(FullReads(sch, at, lost), main, Blocks(sch) \ lost)
<1> DEFINE byAz(xs) == [a \in AzsOf(at, xs) |-> InAz(at, xs, a)]
           rest == Blocks(sch) \ lost
<1>1. Live(sch, lost) \subseteq rest
  BY DEF Live
<1>2. ASSUME NEW xs, xs \subseteq rest, main \in DOMAIN byAz(xs)
      PROVE  Divided(byAz(xs), main, rest)
  <2>1. IsFiniteSet(xs)
    BY <1>2, BlocksAreNumbers, FS_Subset
  <2>2. Divided(ByAz(at, xs, main), main, xs)
    BY <2>1, ByAzDivides
  <2>3. byAz(xs) = ByAz(at, xs, main)
    <3>1. AzsOf(at, xs) \cup {main} = AzsOf(at, xs)
      BY <1>2
    <3> QED BY <3>1 DEF ByAz
  <2> QED BY <1>2, <2>2, <2>3 DEF Divided
<1>3. \E xs : xs \subseteq rest /\ PartialReads(sch, at, lost) = byAz(xs)
  BY <1>1 DEF PartialReads
<1>4. \E xs : xs \subseteq rest /\ FullReads(sch, at, lost) = byAz(xs)
  <2>1. ToSet(Taken(sch, at, lost)) \in SUBSET ToTake(sch, lost)
    BY TakenBlocks
  <2>2. ToSet(Taken(sch, at, lost)) \subseteq rest
    BY <1>1, <2>1 DEF ToTake
  <2> QED BY <2>2 DEF FullReads
<1> HIDE DEF byAz, rest
<1> QED BY <1>2, <1>3, <1>4 DEF rest

LEMMA PlannedReads ==
  ASSUME NEW sch, IsScheme(sch), NEW at, DOMAIN at = Blocks(sch),
         NEW lost \in SUBSET Blocks(sch), NEW partial,
         NEW main \in Mains(sch, at, lost, partial)
  PROVE  Divided(ReadsOf(sch, at, lost, partial), main, Blocks(sch) \ lost)
<1> DEFINE reads == ReadsOf(sch, at, lost, partial)
<1>1. CASE Cardinality(lost) = 1
  <2>1. PICK x : lost = {x}
    BY <1>1, BlocksAreNumbers, FS_Subset, FS_Singleton
  <2>2. main = AzOf(at[x]) /\ reads = SingleReads(sch, at, x)
    <3>1. (CHOOSE y \in lost : TRUE) = x
      BY <2>1
    <3>2. AzsOf(at, lost) = {AzOf(at[x])}
      BY <2>1 DEF AzsOf
    <3> QED BY <1>1, <3>1, <3>2 DEF Mains, ReadsOf
  <2> QED BY <2>1, <2>2, SingleReadsDivided
<1>2. CASE Cardinality(lost) # 1 /\ partial
  BY <1>2, ManyReadsDivided DEF Mains, ReadsOf
<1>3. CASE Cardinality(lost) # 1 /\ ~partial
  <2> DEFINE taken == Taken(sch, at, lost)
  <2>1. main = AzOf(at[taken[1]]) /\ 1 \in DOMAIN taken
    BY <1>3 DEF Mains
  <2>2. main \in AzsOf(at, ToSet(taken))
    BY <2>1 DEF AzsOf, ToSet
  <2>3. main \in DOMAIN FullReads(sch, at, lost)
    BY <2>2 DEF FullReads
  <2>4. reads = FullReads(sch, at, lost)
    BY <1>3 DEF ReadsOf
  <2> QED BY <2>3, <2>4, ManyReadsDivided
<1> QED BY <1>1, <1>2, <1>3

(* The main proxy is that of an AZ the stripe lies in.                     *)
LEMMA MainsAreAzs ==
  ASSUME NEW sch, IsScheme(sch), NEW at, DOMAIN at = Blocks(sch),
         NEW lost \in SUBSET Blocks(sch), NEW partial,
         NEW main \in Mains(sch, at, lost, partial)
  PROVE  \E x \in Blocks(sch) : main = AzOf(at[x])
<1> DEFINE taken == Taken(sch, at, lost)
<1>1. Live(sch, lost) \subseteq Blocks(sch)
  BY DEF Live
<1>2. \A i \in DOMAIN taken : taken[i] \in Blocks(sch)
  <2>1. ToSet(taken) \in SUBSET ToTake(sch, lost)
    BY TakenBlocks
  <2> HIDE DEF taken
  <2> QED BY <1>1, <2>1 DEF ToTake, ToSet
<1> HIDE DEF taken
<1> QED BY <1>1, <1>2 DEF Mains, AzsOf, PartialReads, taken

-----------------------------------------------------------------------------
(* What a plan reads gives back what was lost                              *)

(* Fewer blocks lost is no harder.                                         *)
LEMMA CountedFacts ==
  ASSUME NEW sch, IsScheme(sch), NEW lost \in SUBSET Blocks(sch)
  PROVE  /\ IsFiniteSet(lost) /\ Cardinality(lost) \in Nat
         /\ IsFiniteSet(Counted(sch)) /\ Cardinality(Counted(sch)) = sch.k + sch.g + sch.l
         /\ Surviving(sch, lost) \in Nat
         /\ Surviving(sch, lost) >= sch.k + sch.g + sch.l - Cardinality(lost)
<1>1. sch.k \in Nat \ {0} /\ sch.g \in Nat \ {0} /\ sch.l \in Nat \ {0}
  BY DEF IsScheme
<1>2. IsFiniteSet(lost) /\ Cardinality(lost) \in Nat
  BY BlocksAreNumbers, FS_Subset, FS_CardinalityType
<1>3. IsFiniteSet(Counted(sch)) /\ Cardinality(Counted(sch)) = sch.k + sch.g + sch.l
  <2> DEFINE last == sch.k + sch.g + sch.l - 1
  <2>1. last \in Int /\ (IF 0 > last THEN 0 ELSE last - 0 + 1) = sch.k + sch.g + sch.l
    <3>1. last \in Int /\ 0 <= last /\ last + 1 = sch.k + sch.g + sch.l
      BY <1>1
    <3> HIDE DEF last
    <3> QED BY <3>1
  <2> HIDE DEF last
  <2>2. IsFiniteSet(0..last) /\ Cardinality(0..last) = sch.k + sch.g + sch.l
    <3>1. 0 \in Int
      OBVIOUS
    <3> QED BY <2>1, <3>1, FS_Interval
  <2> QED BY <2>2 DEF Counted, last
<1>4. /\ IsFiniteSet(Counted(sch) \ lost)
      /\ Cardinality(Counted(sch) \ lost)
           = Cardinality(Counted(sch)) - Cardinality(Counted(sch) \cap lost)
  BY <1>3, FS_Difference
<1>5. Cardinality(Counted(sch) \cap lost) <= Cardinality(lost)
      /\ Cardinality(Counted(sch) \cap lost) \in Nat
  <2>1. Counted(sch) \cap lost \in SUBSET lost
    OBVIOUS
  <2> QED BY <1>2, <2>1, FS_Subset, FS_CardinalityType
<1>6. Cardinality(Counted(sch) \ lost) \in Nat
  BY <1>4, FS_CardinalityType
<1> QED BY <1>1, <1>2, <1>3, <1>4, <1>5, <1>6 DEF Surviving

LEMMA HandledSubset ==
  ASSUME NEW sch, IsScheme(sch), NEW all \in SUBSET Blocks(sch), NEW partial,
         Handled(sch, all, partial), NEW lost \in SUBSET all, lost # {}
  PROVE  Handled(sch, lost, partial)
<1> DEFINE data(xs) == {x \in xs : x < sch.k}
<1>1. /\ sch.code \in {"RS", "OPPO_LRC", "Azure_LRC_1"}
      /\ sch.k \in Nat /\ sch.g \in Nat
  BY DEF IsScheme
<1>2. /\ IsFiniteSet(all) /\ Cardinality(all) \in Nat
      /\ IsFiniteSet(Counted(sch))
      /\ Surviving(sch, all) \in Nat /\ Surviving(sch, lost) \in Nat
      /\ Cardinality(lost) \in Nat
  BY CountedFacts
<1>3. ASSUME NEW xs, IsFiniteSet(xs), NEW ys \in SUBSET xs
      PROVE  /\ Cardinality(ys) <= Cardinality(xs)
             /\ Cardinality(ys) \in Nat /\ Cardinality(xs) \in Nat
  BY <1>3, FS_Subset, FS_CardinalityType
<1>4. Cardinality(lost) <= Cardinality(all)
  BY <1>2, <1>3
<1>5. Surviving(sch, all) <= Surviving(sch, lost)
  <2>1. Counted(sch) \ all \in SUBSET (Counted(sch) \ lost)
    OBVIOUS
  <2>2. IsFiniteSet(Counted(sch) \ lost)
    BY <1>2, FS_Difference
  <2> QED BY <1>3, <2>1, <2>2 DEF Surviving
<1>6. /\ Cardinality(InLimit(sch, lost)) <= Cardinality(InLimit(sch, all))
      /\ Cardinality(InLimit(sch, lost)) \in Nat /\ Cardinality(InLimit(sch, all)) \in Nat
  <2>1. InLimit(sch, lost) \in SUBSET InLimit(sch, all) /\ InLimit(sch, all) \in SUBSET all
    BY DEF InLimit
  <2>2. IsFiniteSet(InLimit(sch, all))
    BY <1>2, <2>1, FS_Subset
  <2> QED BY <1>3, <2>1, <2>2
<1>7. /\ Cardinality(data(lost)) <= Cardinality(data(all))
      /\ Cardinality(data(lost)) \in Nat /\ Cardinality(data(all)) \in Nat
  <2>1. data(lost) \in SUBSET data(all) /\ data(all) \in SUBSET all
    OBVIOUS
  <2> HIDE DEF data
  <2>2. IsFiniteSet(data(all))
    BY <1>2, <2>1, FS_Subset
  <2> QED BY <1>3, <2>1, <2>2
<1>8. /\ Cardinality(Globals(sch) \ all) <= Cardinality(Globals(sch) \ lost)
      /\ Cardinality(Globals(sch) \ all) \in Nat /\ Cardinality(Globals(sch) \ lost) \in Nat
  <2>1. Globals(sch) \ all \in SUBSET (Globals(sch) \ lost)
    OBVIOUS
  <2>2. IsFiniteSet(Globals(sch) \ lost)
    <3>1. sch.k \in Int /\ sch.k + sch.g - 1 \in Int
      BY <1>1
    <3>2. IsFiniteSet(Globals(sch))
      BY <3>1, FS_Interval DEF Globals
    <3> QED BY <3>2, FS_Difference
  <2> QED BY <1>3, <2>1, <2>2
<1>9. CASE sch.code = "RS"
  BY <1>1, <1>2, <1>4, <1>9 DEF Handled
<1>10. CASE sch.code = "OPPO_LRC"
  BY <1>1, <1>2, <1>5, <1>6, <1>10 DEF Handled
<1>11. CASE sch.code = "Azure_LRC_1"
  <2>1. Cardinality(lost) # 0
    BY <1>2, FS_Subset, FS_EmptySet
  <2>2. CASE Cardinality(all) = 1
    <3>1. Cardinality(lost) = 1
      BY <1>2, <1>4, <2>1, <2>2
    <3> QED BY <1>11, <3>1 DEF Handled
  <2>3. CASE Cardinality(all) # 1
    <3>1. /\ Surviving(sch, all) > sch.k
          /\ IF partial THEN Cardinality(data(all)) <= Cardinality(Globals(sch) \ all)
                        ELSE sch.l <= 2
      BY <1>11, <2>3 DEF Handled
    <3>2. Surviving(sch, lost) > sch.k
      BY <1>1, <1>2, <1>5, <3>1
    <3>3. partial => Cardinality(data(lost)) <= Cardinality(Globals(sch) \ lost)
      BY <1>7, <1>8, <3>1
    <3> QED BY <1>11, <3>1, <3>2, <3>3 DEF Handled
  <2> QED BY <2>2, <2>3
<1> QED BY <1>1, <1>9, <1>10, <1>11

(* requestRepair gives up no stripe repair is made for.                    *)
LEMMA HandledIsTried ==
  ASSUME NEW sch, IsScheme(sch), NEW lost \in SUBSET Blocks(sch), lost # {}, NEW partial,
         Handled(sch, lost, partial)
  PROVE  ~GivenUp(sch, lost)
<1>1. /\ sch.code \in {"RS", "OPPO_LRC", "Azure_LRC_1"}
      /\ sch.k \in Nat \ {0} /\ sch.g \in Nat \ {0} /\ sch.l \in Nat \ {0}
  BY DEF IsScheme
<1>2. /\ Cardinality(lost) \in Nat /\ Surviving(sch, lost) \in Nat
      /\ Surviving(sch, lost) >= sch.k + sch.g + sch.l - Cardinality(lost)
  BY CountedFacts
<1>3. Surviving(sch, lost) > sch.k \/ Cardinality(lost) <= sch.g \/ Cardinality(lost) = 1
  BY <1>1 DEF Handled
<1>4. Surviving(sch, lost) # sch.k
  BY <1>1, <1>2, <1>3
<1> QED BY <1>4 DEF GivenUp

LEMMA Consecutive ==
  ASSUME NEW m \in Int, NEW n \in Nat
  PROVE  IsFiniteSet(m..(m + n - 1)) /\ Cardinality(m..(m + n - 1)) = n
<1> DEFINE last == m + n - 1
<1>1. last \in Int /\ (IF m > last THEN 0 ELSE last - m + 1) = n
  <2>1. last \in Int /\ last - m + 1 = n /\ (m > last => n = 0)
    OBVIOUS
  <2> HIDE DEF last
  <2> QED BY <2>1
<1> HIDE DEF last
<1>2. IsFiniteSet(m..last) /\ Cardinality(m..last) = n
  BY <1>1, FS_Interval
<1> QED BY <1>2 DEF last

(* The rows of a partial decoding are as many as the data blocks they are  *)
(* to give back, and those of global parities as long as there are any.    *)
LEMMA RowsSuffice ==
  ASSUME NEW sch, IsScheme(sch), NEW lost \in SUBSET Blocks(sch), lost # {},
         Cardinality(lost) # 1, Handled(sch, lost, TRUE)
  PROVE  Solvable(sch, lost)
<1> DEFINE failed == InLimit(sch, lost)
           own == {x \in failed : x >= sch.k}
           data == {x \in lost : x < sch.k}
           all == sch.k..(Limit(sch) - 1)
           rest == all \ own
           d == Cardinality(data)
           first == ToSet(AtMost(Ascending(rest), d))
           spare == Globals(sch) \ lost
<1>1. /\ sch.code \in {"RS", "OPPO_LRC", "Azure_LRC_1"}
      /\ sch.k \in Nat \ {0} /\ sch.g \in Nat \ {0} /\ sch.l \in Nat \ {0}
  BY DEF IsScheme
<1>2. /\ lost \subseteq Nat /\ IsFiniteSet(lost) /\ Cardinality(lost) \in Nat
  BY BlocksAreNumbers, FS_Subset, FS_CardinalityType
<1>3. Limit(sch) \in Nat /\ Limit(sch) >= sch.k + sch.g
      /\ (sch.code # "Azure_LRC_1" => Limit(sch) = sch.k + sch.g)
  BY <1>1 DEF Limit
<1>4. data \in SUBSET lost /\ failed \in SUBSET lost /\ failed \ own = data
  <2>1. \A x \in lost : x \in failed <=> x < Limit(sch)
    BY DEF InLimit
  <2>2. \A x \in lost : x < sch.k => x < Limit(sch)
    BY <1>1, <1>2, <1>3
  <2>3. \A x \in lost : x < sch.k <=> ~(x >= sch.k)
    BY <1>1, <1>2
  <2>4. failed \in SUBSET lost
    BY DEF InLimit
  <2> HIDE DEF failed
  <2> QED BY <2>1, <2>2, <2>3, <2>4
<1>5. own \in SUBSET failed /\ own \in SUBSET all /\ own = lost \cap all
  <2>1. \A x \in lost : x \in own <=> x < Limit(sch) /\ x >= sch.k
    BY DEF InLimit
  <2>2. \A x \in lost : x \in all <=> x < Limit(sch) /\ x >= sch.k
    BY <1>1, <1>2, <1>3
  <2>3. own \in SUBSET failed /\ failed \in SUBSET lost
    BY <1>4
  <2> HIDE DEF own, all, failed
  <2> QED BY <2>1, <2>2, <2>3
<1>6. d \in Nat /\ IsFiniteSet(data) /\ IsFiniteSet(own)
      /\ Cardinality(own) \in Nat
  <2> HIDE DEF own, data, failed
  <2> QED BY <1>2, <1>4, <1>5, FS_Subset, FS_CardinalityType
<1>7. IsFiniteSet(all)
      /\ (sch.code # "Azure_LRC_1" => Cardinality(all) = sch.g)
  <2>1. sch.k \in Int /\ Limit(sch) - sch.k \in Nat
        /\ Limit(sch) = sch.k + (Limit(sch) - sch.k)
    BY <1>1, <1>3
  <2>2. IsFiniteSet(all) /\ Cardinality(all) = Limit(sch) - sch.k
    <3> DEFINE n == Limit(sch) - sch.k
    <3>1. n \in Nat /\ all = sch.k..(sch.k + n - 1)
      BY <2>1
    <3> HIDE DEF n
    <3>2. IsFiniteSet(sch.k..(sch.k + n - 1)) /\ Cardinality(sch.k..(sch.k + n - 1)) = n
      BY <2>1, <3>1, Consecutive
    <3> QED BY <3>1, <3>2 DEF n
  <2> HIDE DEF all
  <2> QED BY <1>1, <1>3, <2>2
<1>8. IsFiniteSet(rest) /\ rest \in SUBSET all /\ rest \subseteq Int /\ Cardinality(rest) \in Nat
  <2>1. rest \in SUBSET all /\ all \subseteq Int
    BY <1>1, <1>3
  <2> HIDE DEF rest, all
  <2> QED BY <1>7, <2>1, FS_Subset, FS_CardinalityType
<1>9. spare \in SUBSET rest /\ IsFiniteSet(spare) /\ Cardinality(spare) \in Nat
  <2>1. Globals(sch) \in SUBSET all
    BY <1>1, <1>3 DEF Globals
  <2>2. spare \in SUBSET rest
    BY <1>5, <2>1
  <2> HIDE DEF rest, spare
  <2> QED BY <1>8, <2>2, FS_Subset, FS_CardinalityType
<1>10. Rows(sch, lost) = own \cup first
  BY <1>4 DEF Rows, InRowOrder
<1>11. rest \cap lost = {} /\ own \subseteq lost
  BY <1>4, <1>5
<1>12. sch.code = "Azure_LRC_1" => d <= Cardinality(spare)
  BY <1>2 DEF Handled
<1>13. d <= Cardinality(rest)
  <2>1. CASE sch.code = "Azure_LRC_1"
    <3>1. Cardinality(spare) <= Cardinality(rest)
      <4> HIDE DEF spare, rest
      <4> QED BY <1>8, <1>9, FS_Subset
    <3> QED BY <1>6, <1>8, <1>9, <1>12, <2>1, <3>1
  <2>2. CASE sch.code # "Azure_LRC_1"
    <3>1. Cardinality(failed) <= sch.g
      <4>1. CASE sch.code = "RS"
        <5>1. Cardinality(lost) <= sch.g
          BY <4>1 DEF Handled
        <5>2. Cardinality(failed) <= Cardinality(lost) /\ Cardinality(failed) \in Nat
          <6> HIDE DEF failed
          <6> QED BY <1>2, <1>4, FS_Subset, FS_CardinalityType
        <5> QED BY <1>1, <1>2, <5>1, <5>2
      <4>2. CASE sch.code = "OPPO_LRC"
        BY <4>2 DEF Handled
      <4> QED BY <1>1, <2>2, <4>1, <4>2
    <3>2. d = Cardinality(failed) - Cardinality(own)
      <4>1. IsFiniteSet(failed) /\ failed \cap own = own
        BY <1>2, <1>4, <1>5, FS_Subset
      <4> HIDE DEF failed, own, data
      <4> QED BY <1>4, <4>1, FS_Difference
    <3>3. Cardinality(rest) = sch.g - Cardinality(own)
      <4>1. all \cap own = own
        BY <1>5
      <4> HIDE DEF all, own
      <4> QED BY <1>7, <2>2, <4>1, FS_Difference
    <3>4. Cardinality(failed) \in Nat
      BY <1>2, <1>4, FS_Subset, FS_CardinalityType
    <3> HIDE DEF d, own, rest, failed
    <3> QED BY <1>1, <1>6, <1>8, <3>1, <3>2, <3>3, <3>4
  <2> QED BY <2>1, <2>2
<1> HIDE DEF d, rest
<1>14. /\ first \in SUBSET rest /\ IsFiniteSet(first) /\ Cardinality(first) = d
       /\ \A x \in first, y \in rest : y < x => y \in first
  BY <1>6, <1>8, <1>13, AscendingFirst
<1> HIDE DEF first, own
<1>15. Rows(sch, lost) \ lost = first
  BY <1>10, <1>11, <1>14
<1>16. ASSUME sch.code = "Azure_LRC_1", NEW i \in 0..(sch.l - 1), LocalOf(sch, i) \in first
       PROVE  FALSE
  <2> DEFINE x == LocalOf(sch, i)
  <2>1. x \in Int /\ \A y \in spare : y < x
    BY <1>1 DEF Globals, LocalOf
  <2> HIDE DEF spare
  <2>2. spare \in SUBSET first /\ x \in first /\ x \notin spare
    BY <1>9, <1>14, <1>16, <2>1
  <2> HIDE DEF x
  <2>3. Cardinality(spare) <= d /\ Cardinality(spare) # d
    BY <1>14, <2>2, FS_Subset
  <2> QED BY <1>6, <1>9, <1>12, <1>16, <2>3
<1> QED BY <1>14, <1>15, <1>16 DEF Solvable, d

LEMMA AzsRead ==
  ASSUME NEW at, NEW xs \in SUBSET DOMAIN at
  PROVE  UNION Range([a \in AzsOf(at, xs) |-> InAz(at, xs, a)]) = xs
<1> DEFINE reads == [a \in AzsOf(at, xs) |-> InAz(at, xs, a)]
<1>1. ASSUME NEW x \in xs PROVE x \in UNION Range(reads)
  <2>1. AzOf(at[x]) \in AzsOf(at, xs) /\ x \in InAz(at, xs, AzOf(at[x]))
    BY DEF AzsOf, InAz
  <2> QED BY <2>1 DEF Range
<1>2. ASSUME NEW x \in UNION Range(reads) PROVE x \in xs
  BY DEF Range, InAz
<1> QED BY <1>1, <1>2

(* k + 1 blocks of Azure_LRC_1 without its last one determine all: with    *)
(* one or two groups, what is not read touches as many groups and the one  *)
(* of the global parities.                                                 *)
LEMMA AzureReads ==
  ASSUME NEW sch, IsScheme(sch), sch.code = "Azure_LRC_1", sch.l <= 2,
         NEW read \in SUBSET Counted(sch), Cardinality(read) = sch.k + 1
  PROVE  Recoverable(sch, Blocks(sch) \ read)
<1> DEFINE missing == Blocks(sch) \ read
           last == LocalOf(sch, sch.l)
           touched == Touched(sch, missing)
           parities == sch.k..(sch.k + sch.g - 1)
<1>1. sch.k \in Nat \ {0} /\ sch.g \in Nat \ {0} /\ sch.l \in 1..2
  BY DEF IsScheme
<1>2. IsFiniteSet(Blocks(sch)) /\ Cardinality(Blocks(sch)) = sch.k + sch.g + sch.l + 1
  <2> DEFINE n == sch.k + sch.g + sch.l + 1
  <2>1. n \in Nat /\ Blocks(sch) = 0..(0 + n - 1) /\ 0 \in Int
    <3>1. Size(sch) = n /\ n \in Nat /\ 0 + n - 1 = n - 1
      BY <1>1 DEF Size
    <3> HIDE DEF n
    <3> QED BY <3>1 DEF Blocks
  <2> HIDE DEF n
  <2>2. IsFiniteSet(0..(0 + n - 1)) /\ Cardinality(0..(0 + n - 1)) = n
    BY <2>1, Consecutive
  <2> QED BY <2>1, <2>2 DEF n
<1>3. read \in SUBSET Blocks(sch) /\ last \in missing
  BY <1>1 DEF Counted, Blocks, Size, LocalOf
<1>4. IsFiniteSet(missing) /\ Cardinality(missing) = sch.g + sch.l
  <2>1. Blocks(sch) \cap read = read
    BY <1>3
  <2>2. /\ IsFiniteSet(missing)
        /\ Cardinality(missing) = Cardinality(Blocks(sch)) - Cardinality(read)
    <3>1. /\ IsFiniteSet(Blocks(sch) \ read)
          /\ Cardinality(Blocks(sch) \ read)
               = Cardinality(Blocks(sch)) - Cardinality(Blocks(sch) \cap read)
      BY <1>2, FS_Difference
    <3> QED BY <2>1, <3>1
  <2>3. (sch.k + sch.g + sch.l + 1) - (sch.k + 1) = sch.g + sch.l
    BY <1>1
  <2> HIDE DEF missing
  <2> QED BY <1>2, <2>2, <2>3
<1>5. sch.l \in touched
  <2>1. sch.l \in Groups(sch) /\ last \in Members(sch, sch.l)
    BY <1>1 DEF Groups, Members
  <2> QED BY <1>3, <2>1 DEF Touched
<1>6. IsFiniteSet(touched) /\ Cardinality(touched) \in Nat
  BY TouchedFacts
<1>7. Cardinality(touched) >= sch.l
  <2> HIDE DEF touched, missing
  <2>1. CASE touched = {sch.l}
    <3>1. missing \in SUBSET (parities \cup {last})
      <4>1. missing \in SUBSET Blocks(sch)
        BY DEF missing
      <4>2. \A x \in missing : x \in Members(sch, sch.l)
        <5> SUFFICES ASSUME NEW x \in missing PROVE x \in Members(sch, sch.l)
          OBVIOUS
        <5>1. PICK i \in Groups(sch) : x \in Members(sch, i)
          BY <4>1, BlockInGroup
        <5>2. i \in touched
          BY <5>1 DEF touched, Touched
        <5> QED BY <2>1, <5>1, <5>2
      <4>3. Members(sch, sch.l) = parities \cup {last}
        BY <1>1 DEF Members, Globals
      <4> QED BY <4>2, <4>3
    <3>2. IsFiniteSet(parities) /\ Cardinality(parities) = sch.g /\ last \notin parities
      <4>1. sch.k \in Int /\ sch.g \in Nat
        BY <1>1
      <4>2. last \notin parities
        BY <1>1 DEF LocalOf
      <4> QED BY <4>1, <4>2, Consecutive
    <3> HIDE DEF parities, last
    <3>3. /\ IsFiniteSet(parities \cup {last})
          /\ Cardinality(parities \cup {last}) = sch.g + 1
      BY <3>2, FS_AddElement
    <3>4. Cardinality(missing) <= sch.g + 1
      BY <3>1, <3>3, FS_Subset
    <3>5. Cardinality(touched) = 1
      BY <2>1, FS_Singleton
    <3> QED BY <1>1, <1>4, <3>4, <3>5
  <2>2. CASE touched # {sch.l}
    <3>1. {sch.l} \in SUBSET touched /\ Cardinality({sch.l}) = 1
      BY <1>5, FS_Singleton
    <3>2. 1 <= Cardinality(touched) /\ 1 # Cardinality(touched)
      BY <1>6, <2>2, <3>1, FS_Subset
    <3> QED BY <1>1, <1>6, <3>2
  <2> QED BY <2>1, <2>2
<1> HIDE DEF missing, touched
<1>8. Cardinality(missing) - Cardinality(touched) <= sch.g
  BY <1>1, <1>4, <1>6, <1>7
<1> QED BY <1>8 DEF Recoverable, missing, touched

(* A full decoding reads enough blocks.                                    *)
LEMMA TakenSuffice ==
  ASSUME NEW sch, IsScheme(sch), NEW at, DOMAIN at = Blocks(sch),
         NEW lost \in SUBSET Blocks(sch), lost # {},
         Cardinality(lost) # 1, Handled(sch, lost, FALSE)
  PROVE  Decodes(sch, ToSet(Taken(sch, at, lost)))
<1> DEFINE xs == {x \in Live(sch, lost) : x < Limit(sch)}
           taken == ToSet(Taken(sch, at, lost))
           w == Wanted(sch)
<1>1. /\ sch.code \in {"RS", "OPPO_LRC", "Azure_LRC_1"}
      /\ sch.k \in Nat \ {0} /\ sch.g \in Nat \ {0} /\ sch.l \in Nat \ {0}
  BY DEF IsScheme
<1>2. IsFiniteSet(lost) /\ Cardinality(lost) \in Nat /\ lost \subseteq Nat
  BY BlocksAreNumbers, FS_Subset, FS_CardinalityType
<1>3. /\ Cardinality(xs) \in Nat /\ taken \in SUBSET xs
      /\ Cardinality(taken) = IF w <= Cardinality(xs) THEN w ELSE Cardinality(xs)
  <2>1. xs = ToTake(sch, lost)
    BY DEF ToTake
  <2> HIDE DEF xs
  <2> QED BY <2>1, TakenBlocks
<1> HIDE DEF taken
<1>4. CASE sch.code = "Azure_LRC_1"
  <2>1. w = sch.k + 1 /\ Limit(sch) = sch.k + sch.g + sch.l
    BY <1>4 DEF Wanted, Limit
  <2>2. xs = Counted(sch) \ lost
    <3>1. Counted(sch) \subseteq Blocks(sch)
      BY <1>1, <1>4 DEF Counted, Blocks, Size
    <3>2. Live(sch, lost) = Blocks(sch) \ lost
      BY <1>4 DEF Live
    <3>3. \A x \in Blocks(sch) : x < Limit(sch) <=> x \in Counted(sch)
      BY <1>1, <2>1, BlocksAreNumbers DEF Counted
    <3> QED BY <3>1, <3>2, <3>3
  <2>3. Surviving(sch, lost) > sch.k /\ sch.l <= 2
    BY <1>4 DEF Handled
  <2>4. Cardinality(xs) = Surviving(sch, lost)
    BY <2>2 DEF Surviving
  <2>5. taken \in SUBSET Counted(sch)
    BY <1>3, <2>2
  <2> HIDE DEF xs, w
  <2>6. Cardinality(taken) = sch.k + 1
    BY <1>1, <1>3, <2>1, <2>3, <2>4
  <2>7. Recoverable(sch, Blocks(sch) \ taken)
    BY <1>4, <2>3, <2>5, <2>6, AzureReads
  <2> QED BY <1>4, <2>7 DEF Decodes, taken
<1>5. CASE sch.code # "Azure_LRC_1"
  <2> DEFINE all == 0..(Limit(sch) - 1)
             failed == InLimit(sch, lost)
  <2>1. w = sch.k /\ Limit(sch) = sch.k + sch.g
    BY <1>1, <1>5 DEF Wanted, Limit
  <2>2. xs = all \ failed /\ failed \in SUBSET all
    <3>1. Limit(sch) <= Size(sch) /\ Size(sch) \in Nat /\ Limit(sch) \in Nat
      BY <1>1, <2>1, BlocksAreNumbers
    <3>2. \A x \in Blocks(sch) : x < Limit(sch) <=> x \in all
      BY <3>1 DEF Blocks
    <3>3. \A x \in all : x \in Blocks(sch)
      BY <3>1 DEF Blocks
    <3>4. \A x : x \in Live(sch, lost) <=> x \in Blocks(sch) /\ x \notin lost /\ x < Limit(sch)
      BY <1>5, <2>1 DEF Live
    <3>5. \A x : x \in failed <=> x \in lost /\ x < Limit(sch)
      BY DEF InLimit
    <3> HIDE DEF all, failed
    <3> QED BY <3>2, <3>3, <3>4, <3>5
  <2>3. IsFiniteSet(all) /\ Cardinality(all) = sch.k + sch.g
    <3>1. sch.k + sch.g \in Nat /\ 0 \in Int /\ 0 + (sch.k + sch.g) - 1 = Limit(sch) - 1
      BY <1>1, <2>1
    <3>2. IsFiniteSet(0..(0 + (sch.k + sch.g) - 1))
          /\ Cardinality(0..(0 + (sch.k + sch.g) - 1)) = sch.k + sch.g
      BY <3>1, Consecutive
    <3> QED BY <3>1, <3>2
  <2>4. Cardinality(failed) <= sch.g /\ Cardinality(failed) \in Nat
    <3>1. Cardinality(failed) <= Cardinality(lost) /\ Cardinality(failed) \in Nat
      <4>1. failed \in SUBSET lost
        BY DEF InLimit
      <4> HIDE DEF failed
      <4> QED BY <1>2, <4>1, FS_Subset, FS_CardinalityType
    <3>2. CASE sch.code = "RS"
      <4>1. Cardinality(lost) <= sch.g
        BY <3>2 DEF Handled
      <4> QED BY <1>1, <1>2, <3>1, <4>1
    <3>3. CASE sch.code = "OPPO_LRC"
      BY <3>1, <3>3 DEF Handled
    <3> QED BY <1>1, <1>5, <3>2, <3>3
  <2>5. Cardinality(xs) = sch.k + sch.g - Cardinality(failed)
    <3>1. all \cap failed = failed
      BY <2>2
    <3> HIDE DEF all, failed, xs
    <3>2. Cardinality(all \ failed) = Cardinality(all) - Cardinality(all \cap failed)
      BY <2>3, FS_Difference
    <3>3. Cardinality(xs) = Cardinality(all) - Cardinality(failed)
      BY <2>2, <3>1, <3>2
    <3> QED BY <1>1, <2>3, <2>4, <3>3
  <2> HIDE DEF all, failed, xs, w
  <2>6. Cardinality(taken) = sch.k
    BY <1>1, <1>3, <2>1, <2>4, <2>5
  <2> QED BY <1>1, <1>5, <2>6 DEF Decodes, taken
<1> QED BY <1>4, <1>5

(* What is read for a loss repair is made for gives it back.               *)
LEMMA HandledIsSound ==
  ASSUME NEW sch, IsScheme(sch), NEW at, DOMAIN at = Blocks(sch), NEW partial \in BOOLEAN,
         NEW lost \in SUBSET Blocks(sch), lost # {}, Handled(sch, lost, partial),
         NEW ok \in Outcomes(sch, lost, partial,
                             UNION Range(ReadsOf(sch, at, lost, partial)), {})
  PROVE  ok
<1> DEFINE read == UNION Range(ReadsOf(sch, at, lost, partial))
           full == Cardinality(lost) > 1 /\ ~partial
           sound == \/ Cardinality(lost) = 1
                    \/ partial /\ Solvable(sch, lost)
                    \/ full /\ Decodes(sch, read)
<1>1. ok = sound
  BY DEF Outcomes
<1>2. CASE Cardinality(lost) = 1
  BY <1>1, <1>2
<1>3. CASE Cardinality(lost) # 1 /\ partial
  <2>1. Solvable(sch, lost)
    BY <1>3, RowsSuffice
  <2> QED BY <1>1, <1>3, <2>1
<1>4. CASE Cardinality(lost) # 1 /\ ~partial
  <2>1. Cardinality(lost) > 1
    <3>1. IsFiniteSet(lost) /\ Cardinality(lost) \in Nat
      BY BlocksAreNumbers, FS_Subset, FS_CardinalityType
    <3>2. Cardinality(lost) # 0
      BY <3>1, FS_EmptySet
    <3> QED BY <1>4, <3>1, <3>2
  <2> DEFINE taken == ToSet(Taken(sch, at, lost))
  <2>2. taken \in SUBSET DOMAIN at
    <3>1. taken \in SUBSET ToTake(sch, lost)
      BY TakenBlocks
    <3> HIDE DEF taken
    <3> QED BY <3>1 DEF ToTake, Live
  <2>3. read = taken
    <3>1. ReadsOf(sch, at, lost, partial)
            = [a \in AzsOf(at, taken) |-> InAz(at, taken, a)]
      BY <1>4 DEF ReadsOf, FullReads
    <3> HIDE DEF taken
    <3> QED BY <2>2, <3>1, AzsRead
  <2>4. Decodes(sch, taken)
    BY <1>4, TakenSuffice
  <2> HIDE DEF read, taken
  <2> QED BY <1>1, <1>4, <2>1, <2>3, <2>4
<1> QED BY <1>2, <1>3, <1>4

-----------------------------------------------------------------------------
USE DEF nodeVars, memVars, tableVars, vars, At

(* The inductive invariant                                                 *)

(* A handler: the record, what its jobs are, and that it reads no block it *)
(* is to rebuild and has to write only what it rebuilds.                   *)
Pcs == {"none", "scan", "plan", "gather", "store", "replied"}
IsReq(st, r) ==
  /\ r \in [pc : Pcs, list : SUBSET st.mayFail, todo : SUBSET 1..Len(st.layouts),
            stripe : 1..Len(st.layouts), jobs : Seq(SUBSET Blocks(st.sch)), plan : {r.plan},
            got : SUBSET Blocks(st.sch), bad : SUBSET Blocks(st.sch), sound : {r.sound},
            left : {r.left}]
  /\ r.pc = "plan" => r.jobs # <<>>
  /\ r.bad \subseteq r.got
  /\ r.got \cap r.plan.lost = {}
  /\ r.left \subseteq IF r.pc = "store" THEN Rebuilt(st.sch, r.plan.lost) ELSE {}

(* The types of the variables.                                             *)
Shape ==
  /\ site \in Sites
  /\ up \subseteq NodesOf(site)
  /\ NodesOf(site) \ up \subseteq site.mayFail
  /\ good \cup junk \subseteq Stripes \X Blocks(Sch) \X NodesOf(site)
  /\ info \in [Stripes -> [Blocks(Sch) -> NodesOf(site)]]
  /\ index \in [NodesOf(site) -> SUBSET Stripes]
  /\ DOMAIN req = Handlers
  /\ \A h \in Handlers : IsReq(site, req[h])

(* A block written and not yet recorded is on the node it was written to.  *)
Held(s, x, n) == n \in up => <<s, x, n>> \in good \cup junk
WrittenIsHeld ==
  \A h \in Handlers :
    At(h, "store") => \A x \in Rebuilt(Sch, req[h].plan.lost) \ req[h].left :
                        Held(req[h].stripe, x, req[h].plan.to[x])

(* A plan divides the reads among AZs, and moves a block to a node of its  *)
(* own in the AZ of the block.                                             *)
GoodPlan(st, plan) ==
  /\ plan.lost \subseteq Blocks(st.sch) /\ plan.main \in 0..(st.azs - 1)
  /\ Divided(plan.reads, plan.main, Blocks(st.sch) \ plan.lost)
  /\ plan.from \in [Blocks(st.sch) -> NodesOf(st)]
  /\ \A x \in DOMAIN plan.to :
       /\ x \in Blocks(st.sch)
       /\ plan.to[x] \in NodesOf(st)
       /\ AzOf(plan.to[x]) = AzOf(plan.from[x])
       /\ plan.to[x] \notin Range(plan.from)
       /\ \A y \in DOMAIN plan.to : plan.to[x] = plan.to[y] => x = y

Working(h) == req[h].pc \in {"gather", "store"}

InPlace(st, s, at) ==
  \A x \in Blocks(st.sch) : AzOf(at[x]) = AzOf(st.layouts[s][x])

AzInv ==
  /\ \A s \in Stripes : InPlace(site, s, info[s])
  /\ \A h \in Handlers : Working(h) => /\ GoodPlan(site, req[h].plan)
                                       /\ InPlace(site, req[h].stripe, req[h].plan.from)

(* With one call at a time, the stripe is as the plan found it.            *)
OneActive == \A h, i \in Handlers : Active(h) /\ Active(i) => h = i
PlanIsCurrent ==
  \A h \in Handlers : Working(h) => req[h].plan.from = info[req[h].stripe]

(* And a job has in no AZ more blocks than nodes of it may fail, so that   *)
(* every block of it finds a spare node.                                   *)
Fitting(st, s) ==
  {lost \in SUBSET Blocks(st.sch) :
     \A a \in 0..(st.azs - 1) :
       Cardinality(InAz(st.layouts[s], lost, a)) <= Cardinality({m \in st.mayFail : m[1] = a})}
Fits(st, r) ==
  /\ r.jobs \in Seq(Fitting(st, r.stripe))
  /\ r.pc \in {"gather", "store"} => Rebuilt(st.sch, r.plan.lost) \subseteq DOMAIN r.plan.to
AllFit == \A h \in Handlers : Fits(site, req[h])

Inv ==
  /\ Shape
  /\ RecordedIsHeld
  /\ WrittenIsHeld
  /\ AzInv
  /\ SerialRepair => OneActive /\ PlanIsCurrent /\ OwnNodes /\ AllFit

-----------------------------------------------------------------------------
(* What generate_repair_plan chooses                                       *)

LEMMA SiteFacts ==
  ASSUME site \in Sites
  PROVE  /\ IsScheme(Sch)
         /\ site.nodes \in Nat
         /\ site.layouts \in Seq([Blocks(Sch) -> NodesOf(site)])
         /\ Len(site.layouts) \in Nat \ {0}
         /\ \A s \in Stripes : IsInjective(site.layouts[s])
<1>1. site.layouts \in Seq(Injection(Blocks(Sch), NodesOf(site))) \ {<<>>}
  BY SitesAssumption DEF Sch
<1>2. \A f \in Injection(Blocks(Sch), NodesOf(site)) :
        f \in [Blocks(Sch) -> NodesOf(site)] /\ IsInjective(f)
  BY DEF Injection, IsInjective
<1> QED BY <1>1, <1>2, SitesAssumption DEF Sch, Stripes

LEMMA BlocksFinite ==
  ASSUME site \in Sites
  PROVE  IsFiniteSet(Blocks(Sch)) /\ Blocks(Sch) \subseteq Int
<1>1. Size(Sch) \in Int
  BY SiteFacts DEF IsScheme, Size
<1> QED BY <1>1, FS_Interval DEF Blocks

LEMMA PlaceRank ==
  ASSUME NEW at, NEW az, NEW xs, NEW x \in DOMAIN NewPlaces(at, az, xs)
  PROVE  /\ x \in xs
         /\ NewPlaces(at, az, xs)[x] \in Free(at, az)
         /\ Cardinality({y \in xs : y < x})
              = Cardinality({m \in Free(at, az) : m[2] < NewPlaces(at, az, xs)[x][2]})
<1> DEFINE rank(y) == Cardinality({z \in xs : z < y})
           nth(n) == Cardinality({m \in Free(at, az) : m[2] < n[2]})
           to == NewPlaces(at, az, xs)
<1>1. to = [y \in {z \in xs : \E n \in Free(at, az) : rank(z) = nth(n)} |->
              CHOOSE n \in Free(at, az) : rank(y) = nth(n)]
  BY DEF NewPlaces
<1> HIDE DEF rank, nth
<1>2. x \in xs /\ \E n \in Free(at, az) : rank(x) = nth(n)
  BY <1>1
<1>3. to[x] = CHOOSE n \in Free(at, az) : rank(x) = nth(n)
  BY <1>1
<1> HIDE DEF to
<1>4. x \in xs /\ to[x] \in Free(at, az) /\ rank(x) = nth(to[x])
  BY <1>2, <1>3
<1> QED BY <1>4 DEF to, rank, nth

LEMMA PlacesDiffer ==
  ASSUME site \in Sites, NEW at \in [Blocks(Sch) -> NodesOf(site)],
         NEW xs \in SUBSET Blocks(Sch), NEW az,
         NEW x \in DOMAIN NewPlaces(at, az, xs)
  PROVE  /\ x \in xs
         /\ NewPlaces(at, az, xs)[x] \in az \ Range(at)
         /\ \A y \in DOMAIN NewPlaces(at, az, xs) :
              NewPlaces(at, az, xs)[x] = NewPlaces(at, az, xs)[y] => x = y
<1> DEFINE rank(y) == Cardinality({z \in xs : z < y})
           nth(n) == Cardinality({m \in Free(at, az) : m[2] < n[2]})
           to == NewPlaces(at, az, xs)
<1>1. ASSUME NEW y \in DOMAIN to
      PROVE  y \in xs /\ to[y] \in Free(at, az) /\ rank(y) = nth(to[y])
  BY PlaceRank
<1>2. IsFiniteSet(xs) /\ xs \subseteq Int
  BY BlocksFinite, FS_Subset
<1>3. ASSUME NEW y \in DOMAIN to, to[x] = to[y]
      PROVE  x = y
  <2>1. rank(x) = rank(y) /\ x \in xs /\ y \in xs
    <3> HIDE DEF rank, nth, to
    <3>1. x \in DOMAIN to
      BY DEF to
    <3> QED BY <1>1, <1>3, <3>1
  <2>2. Cardinality({z \in xs : z < x}) = Cardinality({z \in xs : z < y})
    BY <2>1
  <2> HIDE DEF rank, nth, to
  <2> QED BY <2>1, <2>2, <1>2, RanksDiffer
<1> QED BY <1>1, <1>3 DEF Free

LEMMA Places ==
  ASSUME site \in Sites, NEW at \in [Blocks(Sch) -> NodesOf(site)], NEW lost,
         NEW x \in DOMAIN PlacesFor(at, lost)
  PROVE  /\ x \in Blocks(Sch)
         /\ PlacesFor(at, lost)[x] \in NodesOf(site)
         /\ AzOf(PlacesFor(at, lost)[x]) = AzOf(at[x])
         /\ PlacesFor(at, lost)[x] \notin Range(at)
         /\ \A y \in DOMAIN PlacesFor(at, lost) :
              PlacesFor(at, lost)[x] = PlacesFor(at, lost)[y] => x = y
<1> DEFINE xs(a) == InAz(at, lost, a)
           ofAz(a) == NewPlaces(at, AzNodes(a), xs(a))
           to == PlacesFor(at, lost)
<1>1. to = [y \in UNION {DOMAIN ofAz(a) : a \in AzsOf(at, lost)} |-> ofAz(AzOf(at[y]))[y]]
  BY DEF PlacesFor
<1>2. ASSUME NEW y \in DOMAIN to
      PROVE  /\ y \in Blocks(Sch)
             /\ y \in DOMAIN ofAz(AzOf(at[y]))
             /\ to[y] = ofAz(AzOf(at[y]))[y]
             /\ to[y] \in AzNodes(AzOf(at[y])) \ Range(at)
  <2>1. PICK a \in AzsOf(at, lost) : y \in DOMAIN ofAz(a)
    BY <1>1
  <2>2. xs(a) \in SUBSET Blocks(Sch)
    BY DEF InAz
  <2>3. y \in xs(a)
    BY <2>1, <2>2, PlacesDiffer
  <2>4. AzOf(at[y]) = a
    BY <2>3 DEF InAz
  <2>5. to[y] = ofAz(AzOf(at[y]))[y]
    BY <1>1
  <2> QED BY <2>1, <2>2, <2>3, <2>4, <2>5, PlacesDiffer
<1>3. ASSUME NEW y \in DOMAIN to
      PROVE  to[y] \in NodesOf(site) /\ AzOf(to[y]) = AzOf(at[y])
  <2>1. at[y] \in NodesOf(site)
    BY <1>2
  <2> QED BY <1>2, <2>1 DEF AzNodes, NodesOf, AzOf
<1>4. ASSUME NEW y \in DOMAIN to, to[x] = to[y]
      PROVE  x = y
  <2>1. AzOf(at[x]) = AzOf(at[y])
    BY <1>3, <1>4
  <2>2. xs(AzOf(at[x])) \in SUBSET Blocks(Sch)
    BY DEF InAz
  <2> QED BY <1>2, <1>4, <2>1, <2>2, PlacesDiffer
<1> QED BY <1>2, <1>3, <1>4

(* A stripe that lies in the AZs it was placed in, on nodes of their own,  *)
(* has in no AZ more blocks on nodes that may fail than there are of them. *)
LEMMA NodesFinite ==
  ASSUME site \in Sites
  PROVE  /\ IsFiniteSet(site.mayFail) /\ site.mayFail \subseteq NodesOf(site)
         /\ \A a : IsFiniteSet(AzNodes(a))
<1>1. site.azs \in Nat /\ site.nodes \in Nat /\ site.mayFail \subseteq UsedBy(site)
  BY SitesAssumption
<1>2. IsFiniteSet(0..(site.azs - 1)) /\ IsFiniteSet(0..(site.nodes - 1))
  <2>1. 0 \in Int /\ site.azs - 1 \in Int /\ site.nodes - 1 \in Int
    BY <1>1
  <2> QED BY <2>1, FS_Interval
<1>3. IsFiniteSet(NodesOf(site)) /\ \A a : IsFiniteSet(AzNodes(a))
  BY <1>2, FS_Product, FS_Singleton DEF NodesOf, AzNodes
<1>4. UsedBy(site) \subseteq NodesOf(site)
  BY SiteFacts DEF UsedBy, Range
<1> QED BY <1>1, <1>3, <1>4, FS_Subset

LEMMA FailedFit ==
  ASSUME site \in Sites, NEW s \in Stripes, NEW at \in [Blocks(Sch) -> NodesOf(site)],
         IsInjective(at), InPlace(site, s, at), NEW list \in SUBSET site.mayFail
  PROVE  SUBSET FailedOf(at, list) \subseteq Fitting(site, s)
<1> SUFFICES ASSUME NEW lost \in SUBSET FailedOf(at, list), NEW a \in 0..(site.azs - 1)
             PROVE  Cardinality(InAz(site.layouts[s], lost, a))
                      <= Cardinality({m \in site.mayFail : m[1] = a})
  BY DEF Fitting, FailedOf, Sch
<1> DEFINE xs == InAz(site.layouts[s], lost, a)
           ms == {m \in site.mayFail : m[1] = a}
           f == [x \in xs |-> at[x]]
<1>1. IsFiniteSet(ms)
  BY NodesFinite, FS_Subset
<1>2. \A x \in xs : x \in Blocks(Sch) /\ at[x] \in ms
  BY DEF InAz, FailedOf, InPlace, AzOf, Sch
<1> HIDE DEF xs, ms
<1>3. f \in Injection(xs, ms)
  BY <1>2 DEF Injection, IsInjective
<1> QED BY <1>1, <1>3, FS_Injection DEF xs, ms

(* It leaves in each AZ as many nodes free as when it was placed.          *)
LEMMA FreeNodes ==
  ASSUME site \in Sites, NEW s \in Stripes, NEW at \in [Blocks(Sch) -> NodesOf(site)],
         IsInjective(at), InPlace(site, s, at), NEW a \in 0..(site.azs - 1)
  PROVE  Cardinality(Free(at, AzNodes(a))) = Cardinality(Free(site.layouts[s], AzNodes(a)))
<1> DEFINE xs == InAz(site.layouts[s], Blocks(Sch), a)
           used(f) == AzNodes(a) \cap Range(f)
<1>1. site.layouts[s] \in [Blocks(Sch) -> NodesOf(site)] /\ IsInjective(site.layouts[s])
  BY SiteFacts DEF Stripes
<1>2. IsFiniteSet(xs)
  BY BlocksFinite, FS_Subset DEF InAz
<1>3. ASSUME NEW f \in [Blocks(Sch) -> NodesOf(site)], IsInjective(f), InPlace(site, s, f)
      PROVE  Cardinality(used(f)) = Cardinality(xs)
  <2> DEFINE g == [x \in xs |-> f[x]]
  <2>1. \A x \in Blocks(Sch) : x \in xs <=> f[x] \in AzNodes(a)
    <3> TAKE x \in Blocks(Sch)
    <3>1. f[x] \in NodesOf(site) /\ AzOf(f[x]) = AzOf(site.layouts[s][x])
      BY <1>3 DEF InPlace, Sch
    <3>2. f[x] \in AzNodes(a) <=> AzOf(f[x]) = a
      BY <3>1 DEF NodesOf, AzNodes, AzOf
    <3> QED BY <1>1, <3>1, <3>2 DEF InAz
  <2>2. xs \subseteq Blocks(Sch)
    BY DEF InAz
  <2> HIDE DEF xs
  <2>3. g \in Bijection(xs, used(f))
    <3>1. g \in [xs -> used(f)]
      BY <2>1, <2>2 DEF Range
    <3>2. g \in Injection(xs, used(f))
      BY <1>3, <2>2, <3>1 DEF Injection, IsInjective
    <3>3. \A n \in used(f) : \E x \in xs : g[x] = n
      BY <2>1 DEF Range
    <3> QED BY <3>1, <3>2, <3>3 DEF Bijection, Surjection
  <2> QED BY <1>2, <2>3, FS_Bijection DEF ExistsBijection
<1>4. InPlace(site, s, site.layouts[s])
  BY DEF InPlace
<1>5. Cardinality(used(at)) = Cardinality(used(site.layouts[s]))
  BY <1>1, <1>3, <1>4
<1>6. ASSUME NEW f
      PROVE  Cardinality(Free(f, AzNodes(a))) = Cardinality(AzNodes(a)) - Cardinality(used(f))
  <2>1. Free(f, AzNodes(a)) \cup used(f) = AzNodes(a) /\ Free(f, AzNodes(a)) \cap used(f) = {}
    BY DEF Free
  <2>2. IsFiniteSet(Free(f, AzNodes(a))) /\ IsFiniteSet(used(f))
    BY NodesFinite, FS_Subset DEF Free
  <2> HIDE DEF used
  <2>3. Cardinality(AzNodes(a)) = Cardinality(Free(f, AzNodes(a))) + Cardinality(used(f)) - 0
    BY <2>1, <2>2, FS_Union, FS_EmptySet
  <2> QED BY <2>2, <2>3, FS_CardinalityType
<1> QED BY <1>5, <1>6

(* So every block of a job that fits has a place to go to.                 *)
LEMMA SparesSuffice ==
  ASSUME site \in Sites, NEW s \in Stripes, NEW a \in 0..(site.azs - 1),
         NEW n \in site.mayFail, n[1] = a
  PROVE  Cardinality({m \in site.mayFail : m[1] = a})
           < Cardinality(Free(site.layouts[s], AzNodes(a)))
<1> DEFINE unused == {i \in 0..(n[2] - 1) : <<a, i>> \notin UsedBy(site)}
           free == Free(site.layouts[s], AzNodes(a))
           f == [i \in unused |-> <<a, i>>]
<1>1. n[2] \in Nat /\ n[2] <= site.nodes - 1
  BY NodesFinite, SiteFacts DEF NodesOf
<1>2. IsFiniteSet(free)
  BY NodesFinite, FS_Subset DEF Free
<1>3. IsFiniteSet(unused) /\ \A i \in unused : <<a, i>> \in free
  <2>1. Range(site.layouts[s]) \subseteq UsedBy(site)
    BY DEF UsedBy, Stripes
  <2>2. \A i \in unused : i \in 0..(site.nodes - 1)
    BY <1>1, SiteFacts
  <2>3. IsFiniteSet(unused)
    <3>1. 0 \in Int /\ n[2] - 1 \in Int
      BY <1>1
    <3>2. IsFiniteSet(0..(n[2] - 1))
      BY <3>1, FS_Interval
    <3> QED BY <3>2, FS_Subset
  <2> QED BY <1>1, <2>1, <2>2, <2>3 DEF Free, AzNodes
<1> HIDE DEF free
<1>4. f \in Injection(unused, free)
  BY <1>3 DEF Injection, IsInjective
<1>5. Cardinality(unused) <= Cardinality(free)
  BY <1>2, <1>4, FS_Injection
<1>6. Cardinality(unused) > Cardinality({m \in site.mayFail : m[1] = a})
  BY SparesAssumption
<1>7. /\ Cardinality(unused) \in Nat /\ Cardinality(free) \in Nat
      /\ Cardinality({m \in site.mayFail : m[1] = a}) \in Nat
  BY <1>2, <1>3, NodesFinite, FS_Subset, FS_CardinalityType
<1> HIDE DEF unused
<1> QED BY <1>5, <1>6, <1>7 DEF free

LEMMA PlaceForAll ==
  ASSUME site \in Sites, NEW s \in Stripes, NEW at \in [Blocks(Sch) -> NodesOf(site)],
         IsInjective(at), InPlace(site, s, at), NEW lost \in Fitting(site, s)
  PROVE  lost \subseteq DOMAIN PlacesFor(at, lost)
<1> SUFFICES ASSUME NEW x \in lost
             PROVE  x \in DOMAIN PlacesFor(at, lost)
  OBVIOUS
<1> DEFINE a == AzOf(at[x])
           xs == InAz(at, lost, a)
           free == Free(at, AzNodes(a))
           less == {p \in free \X free : p[1][2] < p[2][2]}
           below == {y \in xs : y < x}
<1>1. x \in Blocks(Sch) /\ lost \subseteq Blocks(Sch) /\ at[x] \in NodesOf(site)
  BY DEF Fitting, Sch
<1>2. a \in 0..(site.azs - 1) /\ x \in xs /\ xs \subseteq Blocks(Sch)
  BY <1>1 DEF NodesOf, AzOf, InAz
<1>3. IsFiniteSet(xs) /\ IsFiniteSet(below) /\ Cardinality(below) < Cardinality(xs)
  <2>1. IsFiniteSet(xs) /\ x \in Int
    BY <1>1, <1>2, BlocksFinite, FS_Subset
  <2>2. below \in SUBSET xs /\ x \notin below
    BY <2>1
  <2> HIDE DEF xs, below
  <2>3. IsFiniteSet(below) /\ Cardinality(below) <= Cardinality(xs)
        /\ Cardinality(below) # Cardinality(xs)
    BY <1>2, <2>1, <2>2, FS_Subset
  <2> QED BY <2>1, <2>3, FS_CardinalityType
<1>4. Cardinality(xs) < Cardinality(free)
  <2>1. xs = InAz(site.layouts[s], lost, a)
    <3>1. DOMAIN site.layouts[s] = Blocks(Sch)
      BY SiteFacts DEF Stripes
    <3> QED BY <1>1, <3>1 DEF InAz, InPlace, Sch
  <2>2. Cardinality(xs) <= Cardinality({m \in site.mayFail : m[1] = a})
    BY <1>2, <2>1 DEF Fitting
  <2> HIDE DEF xs, free, a
  <2>3. IsFiniteSet({m \in site.mayFail : m[1] = a})
    BY NodesFinite, FS_Subset
  <2>4. PICK n \in site.mayFail : n[1] = a
    <3>1. Cardinality(xs) \in Nat /\ Cardinality(xs) # 0
      BY <1>2, <1>3, FS_CardinalityType, FS_EmptySet
    <3>2. Cardinality({m \in site.mayFail : m[1] = a}) # 0
      BY <2>2, <2>3, <3>1, FS_CardinalityType
    <3> QED BY <2>3, <3>2, FS_EmptySet
  <2>5. Cardinality({m \in site.mayFail : m[1] = a}) < Cardinality(free)
    BY <1>2, <2>4, SparesSuffice, FreeNodes DEF free
  <2>6. IsFiniteSet(free)
    BY NodesFinite, FS_Subset DEF free, Free
  <2> QED BY <1>3, <2>2, <2>3, <2>5, <2>6, FS_CardinalityType
<1>5. \E n \in free : Cardinality(below) = Cardinality({m \in free : m[2] < n[2]})
  <2>1. IsFiniteSet(free)
    BY NodesFinite, FS_Subset DEF Free
  <2>2. free \subseteq AzNodes(a)
    BY DEF Free
  <2> HIDE DEF xs, below, free
  <2>3. IsOrder(free, less)
    BY <2>2, SiteFacts DEF IsOrder, AzNodes
  <2>4. Cardinality(below) \in 0..(Cardinality(free) - 1)
    BY <1>3, <1>4, <2>1, FS_CardinalityType
  <2> HIDE DEF less
  <2>5. PICK n \in free : Cardinality(Before(free, less, n)) = Cardinality(below)
    BY <2>1, <2>3, <2>4, Ranks
  <2>6. Before(free, less, n) = {m \in free : m[2] < n[2]}
    BY DEF Before, less
  <2> QED BY <2>5, <2>6
<1>6. x \in DOMAIN NewPlaces(at, AzNodes(a), xs)
  BY <1>2, <1>5 DEF NewPlaces
<1>7. a \in AzsOf(at, lost)
  BY DEF AzsOf
<1> QED BY <1>6, <1>7 DEF PlacesFor

(* A block is where it was placed, or was moved from a node that may fail  *)
(* to one that does not.                                                   *)
Settled(st, s, at) ==
  \A x \in Blocks(st.sch) :
    \/ at[x] = st.layouts[s][x]
    \/ st.layouts[s][x] \in st.mayFail /\ at[x] \notin st.mayFail

(* The spare nodes of an AZ that come first are more than the blocks that  *)
(* go there, now or before, so none goes to a node that may fail.          *)
LEMMA PlacesStay ==
  ASSUME site \in Sites, NEW s \in Stripes, NEW at \in [Blocks(Sch) -> NodesOf(site)],
         InPlace(site, s, at), Settled(site, s, at),
         NEW lost \in SUBSET Blocks(Sch), \A x \in lost : site.layouts[s][x] \in site.mayFail,
         OneBlock(lost) \/ \A x \in lost : at[x] \in site.mayFail,
         NEW x \in DOMAIN PlacesFor(at, lost)
  PROVE  PlacesFor(at, lost)[x] \notin site.mayFail
<1> SUFFICES ASSUME PlacesFor(at, lost)[x] \in site.mayFail
             PROVE  FALSE
  OBVIOUS
<1> DEFINE a == AzOf(at[x])
           az == AzNodes(a)
           xs == InAz(at, lost, a)
           n == PlacesFor(at, lost)[x]
           below == {m \in Free(at, az) : m[2] < n[2]}
           unused == {i \in 0..(n[2] - 1) : <<a, i>> \notin UsedBy(site)}
           mine == {m \in site.mayFail : m[1] = a}
           moved == {y \in Blocks(Sch) : at[y] # site.layouts[s][y] /\ AzOf(at[y]) = a}
<1>1. /\ n = NewPlaces(at, az, xs)[x]
      /\ x \in DOMAIN NewPlaces(at, az, xs)
      /\ x \in Blocks(Sch)
  <2> DEFINE ofAz(b) == NewPlaces(at, AzNodes(b), InAz(at, lost, b))
  <2>1. PlacesFor(at, lost)
          = [y \in UNION {DOMAIN ofAz(b) : b \in AzsOf(at, lost)} |-> ofAz(AzOf(at[y]))[y]]
    BY DEF PlacesFor
  <2>2. PICK b \in AzsOf(at, lost) : x \in DOMAIN ofAz(b)
    BY <2>1
  <2>3. x \in InAz(at, lost, b)
    BY <2>2, PlaceRank
  <2>4. b = a /\ x \in Blocks(Sch)
    BY <2>3 DEF InAz
  <2> QED BY <2>1, <2>2, <2>4
<1>2. /\ x \in xs /\ n \in Free(at, az)
      /\ Cardinality({y \in xs : y < x}) = Cardinality(below)
  <2> HIDE DEF xs, az
  <2>1. /\ x \in xs
        /\ NewPlaces(at, az, xs)[x] \in Free(at, az)
        /\ Cardinality({y \in xs : y < x})
             = Cardinality({m \in Free(at, az) : m[2] < NewPlaces(at, az, xs)[x][2]})
    BY <1>1, PlaceRank
  <2>2. n = NewPlaces(at, az, xs)[x]
    BY <1>1
  <2> HIDE DEF n
  <2>3. Cardinality({m \in Free(at, az) : m[2] < NewPlaces(at, az, xs)[x][2]})
          = Cardinality(below)
    BY <2>2
  <2> QED BY <2>1, <2>2, <2>3
<1>3. /\ IsFiniteSet(xs) /\ IsFiniteSet(moved) /\ IsFiniteSet(mine) /\ IsFiniteSet(below)
      /\ IsFiniteSet(unused)
  <2>1. xs \in SUBSET Blocks(Sch) /\ moved \in SUBSET Blocks(Sch)
    BY DEF InAz
  <2>2. IsFiniteSet(xs) /\ IsFiniteSet(moved)
    <3> HIDE DEF xs, moved
    <3> QED BY <2>1, BlocksFinite, FS_Subset
  <2>3. IsFiniteSet(mine)
    BY NodesFinite, FS_Subset
  <2>4. IsFiniteSet(below)
    <3>1. below \in SUBSET AzNodes(a)
      BY DEF Free
    <3> HIDE DEF below, a
    <3> QED BY <3>1, NodesFinite, FS_Subset
  <2>5. IsFiniteSet(unused)
    <3>1. 0 \in Int /\ n[2] - 1 \in Int
      BY NodesFinite DEF NodesOf
    <3>2. IsFiniteSet(0..(n[2] - 1))
      BY <3>1, FS_Interval
    <3> QED BY <3>2, FS_Subset
  <2> QED BY <2>2, <2>3, <2>4, <2>5
<1>4. Cardinality(unused) > Cardinality(mine)
  <2>1. n \in site.mayFail /\ n[1] = a
    BY <1>2 DEF Free, AzNodes
  <2> HIDE DEF n, a
  <2>2. Cardinality({i \in 0..(n[2] - 1) : <<n[1], i>> \notin UsedBy(site)})
          > Cardinality({m \in site.mayFail : m[1] = n[1]})
    BY <2>1, SparesAssumption
  <2> QED BY <2>1, <2>2
<1>5. Cardinality(below) < Cardinality(xs)
  <2> DEFINE before == {y \in xs : y < x}
  <2>1. before \in SUBSET xs /\ x \notin before
    BY <1>1, BlocksFinite
  <2> HIDE DEF before, xs
  <2>2. /\ IsFiniteSet(before) /\ Cardinality(before) <= Cardinality(xs)
        /\ Cardinality(before) # Cardinality(xs)
    BY <1>2, <1>3, <2>1, FS_Subset
  <2>3. Cardinality(before) < Cardinality(xs)
    BY <1>3, <2>2, FS_CardinalityType
  <2> QED BY <1>2, <2>3 DEF before
<1>6. Cardinality(unused) <= Cardinality(below) + Cardinality(moved)
  <2> DEFINE targets == below \cup {at[y] : y \in moved}
             f == [i \in unused |-> <<a, i>>]
             g == [y \in moved |-> at[y]]
  <2>1. \A i \in unused : <<a, i>> \in targets
    <3> SUFFICES ASSUME NEW i \in unused, \A y \in moved : at[y] # <<a, i>>
                 PROVE  <<a, i>> \in below
      OBVIOUS
    <3>1. i \in 0..(n[2] - 1) /\ <<a, i>> \notin UsedBy(site)
      OBVIOUS
    <3>2. n[2] \in Nat /\ n[2] <= site.nodes - 1 /\ site.nodes \in Nat
      BY NodesFinite, SiteFacts DEF NodesOf
    <3>3. <<a, i>> \in az /\ i < n[2]
      BY <3>1, <3>2 DEF AzNodes
    <3>4. <<a, i>> \notin Range(at)
      <4> SUFFICES ASSUME NEW y \in Blocks(Sch), at[y] = <<a, i>>
                   PROVE  FALSE
        BY DEF Range
      <4>1. site.layouts[s][y] \in UsedBy(site)
        <5>1. DOMAIN site.layouts[s] = Blocks(Sch)
          BY SiteFacts DEF Stripes
        <5> QED BY <5>1 DEF UsedBy, Range, Stripes
      <4>2. y \in moved
        BY <3>1, <4>1 DEF AzOf
      <4> QED BY <4>2
    <3> QED BY <3>3, <3>4 DEF Free
  <2>2. IsFiniteSet({at[y] : y \in moved})
        /\ Cardinality({at[y] : y \in moved}) <= Cardinality(moved)
    <3> HIDE DEF moved
    <3>1. g \in Surjection(moved, {at[y] : y \in moved})
      BY DEF Surjection
    <3> QED BY <1>3, <3>1, FS_Surjection
  <2> HIDE DEF below, moved
  <2>3. /\ IsFiniteSet(targets)
        /\ Cardinality(targets) <= Cardinality(below) + Cardinality(moved)
    <3> DEFINE there == {at[y] : y \in moved}
    <3> HIDE DEF there
    <3>1. /\ IsFiniteSet(below \cup there)
          /\ Cardinality(below \cup there)
               = Cardinality(below) + Cardinality(there) - Cardinality(below \cap there)
      BY <1>3, <2>2, FS_Union DEF there
    <3>2. below \cap there \in SUBSET below
      OBVIOUS
    <3>3. /\ Cardinality(below) \in Nat /\ Cardinality(there) \in Nat
          /\ Cardinality(below \cap there) \in Nat /\ Cardinality(moved) \in Nat
      BY <1>3, <2>2, <3>2, FS_Subset, FS_CardinalityType DEF there
    <3>4. Cardinality(there) <= Cardinality(moved)
      BY <2>2 DEF there
    <3> QED BY <3>1, <3>3, <3>4 DEF there
  <2> HIDE DEF targets, unused
  <2>4. f \in Injection(unused, targets)
    BY <2>1 DEF Injection, IsInjective
  <2>5. Cardinality(unused) <= Cardinality(targets)
    BY <2>3, <2>4, FS_Injection
  <2> QED BY <1>3, <2>3, <2>5, FS_CardinalityType
<1>7. Cardinality(xs) + Cardinality(moved) <= Cardinality(mine) + 1
  <2> DEFINE f == [y \in xs \cup moved |-> site.layouts[s][y]]
  <2>1. xs \cup moved \subseteq Blocks(Sch)
    BY DEF InAz
  <2>2. \A y \in xs \cup moved : site.layouts[s][y] \in mine
    <3> TAKE y \in xs \cup moved
    <3>1. site.layouts[s][y] \in site.mayFail
      BY DEF InAz, Settled, Sch
    <3>2. AzOf(at[y]) = a /\ y \in Blocks(Sch)
      BY <2>1 DEF InAz
    <3>3. AzOf(site.layouts[s][y]) = a
      BY <3>2 DEF InPlace, Sch
    <3> QED BY <3>1, <3>3 DEF AzOf
  <2>3. IsInjective(site.layouts[s]) /\ DOMAIN site.layouts[s] = Blocks(Sch)
    BY SiteFacts DEF Stripes
  <2>4. xs \cap moved = {} \/ (xs \cap moved \in SUBSET xs /\ OneBlock(lost) /\ xs \in SUBSET lost)
    BY DEF InAz, Settled, Sch
  <2> HIDE DEF xs, moved, mine
  <2>5. f \in Injection(xs \cup moved, mine)
    BY <2>1, <2>2, <2>3 DEF Injection, IsInjective
  <2>6. Cardinality(xs \cup moved) <= Cardinality(mine)
    BY <1>3, <2>5, FS_Injection
  <2>7. Cardinality(xs \cup moved)
          = Cardinality(xs) + Cardinality(moved) - Cardinality(xs \cap moved)
    BY <1>3, FS_Union
  <2>8. Cardinality(xs \cap moved) <= 1 /\ Cardinality(xs \cap moved) \in Nat
    <3>1. CASE xs \cap moved = {}
      BY <3>1, FS_EmptySet
    <3>2. CASE xs \cap moved \in SUBSET lost /\ OneBlock(lost)
      <4>1. IsFiniteSet(lost)
        BY BlocksFinite, FS_Subset
      <4> QED BY <3>2, <4>1, FS_Subset, FS_CardinalityType DEF OneBlock
    <3> QED BY <2>4, <3>1, <3>2
  <2>9. /\ Cardinality(xs) \in Nat /\ Cardinality(moved) \in Nat
        /\ Cardinality(mine) \in Nat /\ Cardinality(xs \cup moved) \in Nat
    BY <1>3, FS_Union, FS_CardinalityType
  <2> QED BY <2>6, <2>7, <2>8, <2>9
<1>8. /\ Cardinality(xs) \in Nat /\ Cardinality(moved) \in Nat /\ Cardinality(mine) \in Nat
      /\ Cardinality(below) \in Nat /\ Cardinality(unused) \in Nat
  BY <1>3, FS_CardinalityType
<1> HIDE DEF xs, moved, mine, below, unused
<1> QED BY <1>4, <1>5, <1>6, <1>7, <1>8

LEMMA RebuiltAreLost == \A sch, lost : Rebuilt(sch, lost) \subseteq lost
BY DEF Rebuilt, InLimit

-----------------------------------------------------------------------------
(* The steps                                                               *)

LEMMA InitInv == Init => Inv
<1> SUFFICES ASSUME Init PROVE Inv
  OBVIOUS
<1> USE DEF Init
<1>1. /\ DOMAIN site.layouts = Stripes
      /\ \A s \in Stripes : site.layouts[s] \in [Blocks(Sch) -> NodesOf(site)]
      /\ 1 \in Stripes
  BY SiteFacts DEF Stripes
<1>2. \A h \in Handlers : req[h] = Unused /\ IsReq(site, Unused)
  BY <1>1, EmptySeq DEF Unused, IsReq, Pcs, Stripes
<1>3. Shape
  BY <1>1, <1>2, SiteFacts DEF Shape
<1>4. RecordedIsHeld
  BY <1>1 DEF RecordedIsHeld
<1>5. WrittenIsHeld /\ \A h \in Handlers : ~Working(h) /\ ~Active(h)
  BY <1>2 DEF WrittenIsHeld, Working, Active, Unused
<1>6. AzInv
  BY <1>5 DEF AzInv, InPlace
<1>7. OneActive /\ PlanIsCurrent /\ OwnNodes
  BY <1>5, SiteFacts DEF OneActive, PlanIsCurrent, OwnNodes
<1>8. AllFit
  BY <1>2, EmptySeq DEF AllFit, Fits, Unused
<1> QED BY <1>3, <1>4, <1>5, <1>6, <1>7, <1>8 DEF Inv

(* A step of handler h that changes nothing but h.                         *)
LEMMA HandlerStep ==
  ASSUME Inv, NEW h \in Handlers, NEW r, IsReq(site, r),
         req' = [req EXCEPT ![h] = r],
         UNCHANGED <<nodeVars, memVars, tableVars>>,
         r.pc = "store" => \A x \in Rebuilt(Sch, r.plan.lost) \ r.left :
                             Held(r.stripe, x, r.plan.to[x]),
         r.pc \in {"gather", "store"} =>
           /\ GoodPlan(site, r.plan)
           /\ InPlace(site, r.stripe, r.plan.from)
           /\ SerialRepair => r.plan.from = info[r.stripe],
         SerialRepair /\ r.pc \notin {"none", "replied"} =>
           \A i \in Handlers : Active(i) => i = h,
         SerialRepair => Fits(site, r)
  PROVE  Inv'
<1> USE DEF Inv
<1>1. /\ DOMAIN req' = Handlers' /\ Handlers' = Handlers
      /\ req'[h] = r
      /\ \A i \in Handlers \ {h} : req'[i] = req[i]
  BY DEF Shape, Handlers
<1>2. Stripes' = Stripes /\ Sch' = Sch
  BY DEF Stripes, Sch
<1>3. Shape'
  BY <1>1, <1>2 DEF Shape
<1>4. RecordedIsHeld'
  BY <1>2 DEF RecordedIsHeld
<1>5. WrittenIsHeld'
  BY <1>1, <1>2 DEF WrittenIsHeld, Held
<1>6. AzInv'
  BY <1>1, <1>2 DEF AzInv, Working
<1>7. SerialRepair => OneActive'
  BY <1>1 DEF OneActive, Active
<1>8. SerialRepair => PlanIsCurrent' /\ OwnNodes'
  BY <1>1, <1>2 DEF PlanIsCurrent, Working, OwnNodes
<1>9. SerialRepair => AllFit'
  BY <1>1 DEF AllFit
<1> QED BY <1>3, <1>4, <1>5, <1>6, <1>7, <1>8, <1>9

LEMMA ReqFacts ==
  ASSUME Inv, NEW h \in Handlers
  PROVE  /\ req[h] \in [pc : Pcs, list : SUBSET site.mayFail, todo : SUBSET Stripes,
                        stripe : Stripes, jobs : Seq(SUBSET Blocks(Sch)),
                        plan : {req[h].plan}, got : SUBSET Blocks(Sch),
                        bad : SUBSET Blocks(Sch), sound : {req[h].sound},
                        left : {req[h].left}]
         /\ req[h].pc = "plan" => req[h].jobs # <<>>
         /\ req[h].bad \subseteq req[h].got
         /\ req[h].got \cap req[h].plan.lost = {}
         /\ req[h].left \subseteq IF req[h].pc = "store" THEN Rebuilt(Sch, req[h].plan.lost)
                                                         ELSE {}
         /\ info[req[h].stripe] \in [Blocks(Sch) -> NodesOf(site)]
         /\ DOMAIN req = Handlers
         /\ site \in Sites
<1>1. IsReq(site, req[h]) /\ info \in [Stripes -> [Blocks(Sch) -> NodesOf(site)]]
  BY DEF Inv, Shape
<1> QED BY <1>1 DEF IsReq, Stripes, Sch, Inv, Shape

LEMMA ReqRecord ==
  ASSUME Inv, NEW h \in Handlers
  PROVE  req[h] = [pc |-> req[h].pc, list |-> req[h].list, todo |-> req[h].todo,
                  stripe |-> req[h].stripe, jobs |-> req[h].jobs, plan |-> req[h].plan,
                  got |-> req[h].got, bad |-> req[h].bad, sound |-> req[h].sound,
                  left |-> req[h].left]
<1> DEFINE r == req[h]
<1>1. r \in [pc : Pcs, list : SUBSET site.mayFail, todo : SUBSET Stripes,
            stripe : Stripes, jobs : Seq(SUBSET Blocks(Sch)), plan : {r.plan},
            got : SUBSET Blocks(Sch), bad : SUBSET Blocks(Sch), sound : {r.sound},
            left : {r.left}]
  BY ReqFacts
<1> HIDE DEF r
<1>2. r = [pc |-> r.pc, list |-> r.list, todo |-> r.todo, stripe |-> r.stripe,
           jobs |-> r.jobs, plan |-> r.plan, got |-> r.got, bad |-> r.bad,
           sound |-> r.sound, left |-> r.left]
  BY <1>1
<1> QED BY <1>2 DEF r

LEMMA WorkingFacts ==
  ASSUME Inv, NEW h \in Handlers, Working(h)
  PROVE  /\ Active(h)
         /\ GoodPlan(site, req[h].plan) /\ InPlace(site, req[h].stripe, req[h].plan.from)
         /\ Reads(h) \in SUBSET (Blocks(Sch) \ req[h].plan.lost)
         /\ SerialRepair => /\ req[h].plan.from = info[req[h].stripe]
                            /\ \A i \in Handlers : Active(i) => i = h
                            /\ Fits(site, req[h])
<1>1. Active(h) /\ GoodPlan(site, req[h].plan)
      /\ InPlace(site, req[h].stripe, req[h].plan.from)
  BY DEF Inv, AzInv, Working, Active
<1>2. Reads(h) \in SUBSET (Blocks(Sch) \ req[h].plan.lost)
  BY <1>1 DEF GoodPlan, Divided, Reads, Range, Sch
<1> QED BY <1>1, <1>2 DEF Inv, OneActive, PlanIsCurrent, AllFit

LEMMA Scanning ==
  ASSUME Inv, NEW h \in Handlers,
         \/ RequestRepair(h) \/ Reply(h)
         \/ \E s \in Stripes : SkipStripe(h, s) \/ ExamineStripe(h, s)
  PROVE  Inv'
<1> USE DEF Inv, Shape
<1>1. CASE RequestRepair(h)
  <2> DEFINE r == [Unused EXCEPT !.pc = "scan", !.list = NodesOf(site) \ up,
                     !.todo = UNION {index[n] : n \in NodesOf(site) \ up}]
  <2>1. req' = [req EXCEPT ![h] = r]
    BY <1>1 DEF RequestRepair
  <2>2. NodesOf(site) \ up \in SUBSET site.mayFail /\ r.todo \in SUBSET Stripes
    OBVIOUS
  <2>3. 1 \in Stripes /\ <<>> \in Seq(SUBSET Blocks(Sch))
    BY SiteFacts, EmptySeq DEF Stripes
  <2>4. r.pc = "scan" /\ IsReq(site, r)
    <3> HIDE DEF Stripes
    <3> QED BY <2>2, <2>3 DEF Unused, IsReq, Stripes, Sch, Pcs, NoPlan
  <2>5. Fits(site, r)
    BY EmptySeq DEF Fits, Unused
  <2>6. SerialRepair => \A i \in Handlers : ~Active(i)
    BY <1>1 DEF RequestRepair
  <2>7. UNCHANGED <<nodeVars, memVars, tableVars>>
    BY <1>1 DEF RequestRepair
  <2> HIDE DEF r
  <2> QED BY <2>1, <2>4, <2>5, <2>6, <2>7, HandlerStep
<1>2. CASE Reply(h)
  <2> DEFINE r == [req[h] EXCEPT !.pc = "replied"]
  <2>1. req' = [req EXCEPT ![h] = r] /\ UNCHANGED <<nodeVars, memVars, tableVars>>
    BY <1>2 DEF Reply
  <2>2. r.pc = "replied" /\ IsReq(site, r)
    BY <1>2, ZenonT(60) DEF IsReq, Pcs, Reply
  <2>3. SerialRepair => Fits(site, r)
    BY DEF AllFit, Fits, IsReq, Pcs, Stripes, Sch
  <2> HIDE DEF r
  <2> QED BY <2>1, <2>2, <2>3, HandlerStep
<1>3. ASSUME NEW s \in Stripes, SkipStripe(h, s)
      PROVE  Inv'
  <2> DEFINE r == [req[h] EXCEPT !.todo = @ \ {s}]
  <2>1. req' = [req EXCEPT ![h] = r] /\ UNCHANGED <<nodeVars, memVars, tableVars>>
    BY <1>3 DEF SkipStripe
  <2>2. r.pc = "scan" /\ IsReq(site, r) /\ Active(h)
    BY <1>3, ZenonT(60) DEF SkipStripe, IsReq, Pcs, Stripes, Sch, Active
  <2>3. SerialRepair => Fits(site, r)
    BY DEF AllFit, Fits, IsReq, Pcs, Stripes, Sch
  <2> HIDE DEF r
  <2> QED BY <2>1, <2>2, <2>3, HandlerStep DEF OneActive
<1>4. ASSUME NEW s \in Stripes, ExamineStripe(h, s)
      PROVE  Inv'
  <2> DEFINE lost == LostOf(h, s)
  <2>1. PICK alone \in SetToSeqs(Alone(Sch, info[s], lost)),
             shared \in SetToSeqs(Shared(Sch, info[s], lost)) :
          req' = [req EXCEPT ![h].todo = @ \ {s}, ![h].stripe = s, ![h].pc = "plan",
                             ![h].jobs = JobsOf(Sch, info[s], lost, alone, shared)]
    BY <1>4 DEF ExamineStripe
  <2> DEFINE jobs == JobsOf(Sch, info[s], lost, alone, shared)
             r == [req[h] EXCEPT !.todo = @ \ {s}, !.stripe = s, !.pc = "plan",
                                 !.jobs = jobs]
  <2>2. lost \in SUBSET Blocks(Sch) /\ lost # {} /\ req[h].list \subseteq site.mayFail
    BY <1>4, ZenonT(60) DEF ExamineStripe, LostOf, FailedOf, IsReq, Pcs, Stripes, Sch
  <2>3. lost = FailedOf(info[s], req[h].list)
    BY DEF LostOf
  <2> HIDE DEF lost
  <2>4. jobs \in Seq(SUBSET lost) /\ jobs # <<>>
    BY <2>2, SiteFacts, Jobs
  <2> HIDE DEF jobs
  <2>5. jobs \in Seq(SUBSET Blocks(Sch))
    BY <2>2, <2>4, SeqMonotonic
  <2>6. req' = [req EXCEPT ![h] = r] /\ UNCHANGED <<nodeVars, memVars, tableVars>>
    BY <1>4, <2>1 DEF jobs, IsReq, Pcs, Stripes, Sch, ExamineStripe
  <2>7. r.pc = "plan" /\ IsReq(site, r) /\ Active(h)
    <3>1. req[h].pc = "scan"
      BY <1>4 DEF ExamineStripe
    <3> HIDE DEF Inv, Shape
    <3> QED BY <2>4, <2>5, <3>1, ReqFacts, ZenonT(60) DEF IsReq, Pcs, Stripes, Sch, Active
  <2>8. ASSUME SerialRepair
        PROVE  Fits(site, r)
    <3>1. SUBSET lost \subseteq Fitting(site, s)
      BY <2>2, <2>3, <2>8, FailedFit DEF OwnNodes, AzInv
    <3>2. jobs \in Seq(Fitting(site, s))
      BY <2>4, <3>1, SeqMonotonic
    <3> QED BY <3>2 DEF Fits, IsReq, Pcs, Stripes, Sch
  <2> HIDE DEF r
  <2> QED BY <2>6, <2>7, <2>8, HandlerStep DEF OneActive
<1> QED BY <1>1, <1>2, <1>3, <1>4

LEMMA MainIsAz ==
  ASSUME site \in Sites, NEW at \in [Blocks(Sch) -> NodesOf(site)],
         NEW lost \in SUBSET Blocks(Sch), NEW main \in Mains(Sch, at, lost, site.partial)
  PROVE  main \in 0..(site.azs - 1)
<1>1. DOMAIN at = Blocks(Sch) /\ IsScheme(Sch)
  BY SiteFacts
<1>2. \E x \in Blocks(Sch) : main = AzOf(at[x])
  BY <1>1, MainsAreAzs
<1> QED BY <1>2 DEF NodesOf, AzOf

LEMMA Planning ==
  ASSUME Inv, NEW h \in Handlers, PlanJob(h)
  PROVE  Inv'
<1> DEFINE lost == Head(req[h].jobs)
           s == req[h].stripe
           places == PlacesFor(info[s], lost)
           reads == ReadsOf(Sch, info[s], lost, site.partial)
<1> DEFINE planOf(m) == [lost |-> lost, main |-> m, reads |-> reads,
                         from |-> info[s], to |-> places]
           next(m) == [req[h] EXCEPT !.pc = "gather", !.jobs = Tail(@), !.got = {},
                                     !.bad = {}, !.plan = planOf(m)]
<1>1. PICK main \in Mains(Sch, info[s], lost, site.partial) :
        req' = [req EXCEPT ![h].pc = "gather", ![h].jobs = Tail(@),
                           ![h].got = {}, ![h].bad = {}, ![h].plan = planOf(main)]
  BY DEF PlanJob
<1> DEFINE plan == planOf(main)
           r == next(main)
<1>2. /\ s \in Stripes /\ info[s] \in [Blocks(Sch) -> NodesOf(site)]
      /\ req[h].jobs \in Seq(SUBSET Blocks(Sch)) /\ req[h].jobs # <<>>
      /\ site \in Sites
  BY ReqFacts DEF PlanJob
<1>3. lost \in SUBSET Blocks(Sch) /\ Tail(req[h].jobs) \in Seq(SUBSET Blocks(Sch))
  BY <1>2, HeadTailProperties
<1>4. Divided(reads, main, Blocks(Sch) \ lost)
  <2>1. DOMAIN info[s] = Blocks(Sch) /\ IsScheme(Sch)
    BY <1>2, SiteFacts
  <2> HIDE DEF lost, s
  <2> QED BY <1>1, <1>3, <2>1, PlannedReads
<1>11. main \in 0..(site.azs - 1)
  <2> HIDE DEF lost, s
  <2> QED BY <1>1, <1>2, <1>3, MainIsAz
<1> HIDE DEF lost, reads
<1>5. GoodPlan(site, plan)
  <2> HIDE DEF s
  <2>1. \A x \in DOMAIN places :
          /\ x \in Blocks(Sch)
          /\ places[x] \in NodesOf(site)
          /\ AzOf(places[x]) = AzOf(info[s][x])
          /\ places[x] \notin Range(info[s])
          /\ \A y \in DOMAIN places : places[x] = places[y] => x = y
    BY <1>2, Places
  <2> HIDE DEF places
  <2> QED BY <1>2, <1>3, <1>4, <1>11, <2>1 DEF GoodPlan, Sch
<1>6. InPlace(site, s, info[s])
  BY <1>2 DEF Inv, AzInv
<1>7. ASSUME SerialRepair
      PROVE  /\ Tail(req[h].jobs) \in Seq(Fitting(site, s))
             /\ Rebuilt(Sch, lost) \subseteq DOMAIN places
  <2>1. req[h].jobs \in Seq(Fitting(site, s)) /\ IsInjective(info[s])
    BY <1>2, <1>7 DEF Inv, AllFit, Fits, OwnNodes
  <2>2. lost \in Fitting(site, s) /\ Tail(req[h].jobs) \in Seq(Fitting(site, s))
    BY <1>2, <2>1, HeadTailProperties DEF lost
  <2>3. lost \subseteq DOMAIN places
    BY <1>2, <1>6, <2>1, <2>2, PlaceForAll
  <2> QED BY <2>2, <2>3, RebuiltAreLost
<1> HIDE DEF places
<1>8. req' = [req EXCEPT ![h] = r] /\ UNCHANGED <<nodeVars, memVars, tableVars>>
  <2> HIDE DEF s, plan, planOf
  <2> QED BY <1>1, ReqRecord, ZenonT(60) DEF PlanJob, plan
<1>9. /\ r.pc = "gather" /\ r.plan = plan /\ r.stripe = s
      /\ plan.from = info[s] /\ IsReq(site, r) /\ Active(h)
  <2>1. req[h].pc = "plan"
    BY DEF PlanJob
  <2> QED BY <1>3, <2>1, ReqFacts, ZenonT(60) DEF IsReq, Pcs, Stripes, Sch, Active
<1>10. ASSUME SerialRepair
       PROVE  Fits(site, r)
  <2>1. r.jobs = Tail(req[h].jobs) /\ r.plan.lost = lost /\ r.plan.to = places
    BY <1>9, ReqFacts
  <2> HIDE DEF r
  <2> QED BY <1>7, <1>9, <1>10, <2>1 DEF Fits, Sch
<1> HIDE DEF r, plan, planOf, next, s
<1> QED BY <1>5, <1>6, <1>8, <1>9, <1>10, HandlerStep DEF OneActive, Inv

LEMMA Reading ==
  ASSUME Inv, NEW h \in Handlers, NEW x, ReadBlock(h, x)
  PROVE  Inv'
<1> DEFINE bad == IF Whole(h, x) THEN req[h].bad ELSE req[h].bad \cup {x}
           r == [req[h] EXCEPT !.got = @ \cup {x}, !.bad = bad]
<1>1. Working(h) /\ req[h].pc = "gather" /\ x \in Reads(h) /\ bad \subseteq req[h].bad \cup {x}
  BY DEF ReadBlock, Working
<1>2. x \in Blocks(Sch) \ req[h].plan.lost
  BY <1>1, WorkingFacts
<1>3. req' = [req EXCEPT ![h] = r] /\ UNCHANGED <<nodeVars, memVars, tableVars>>
  BY ReqFacts DEF ReadBlock
<1> HIDE DEF bad
<1>4. /\ r.pc = "gather" /\ r.plan = req[h].plan /\ r.stripe = req[h].stripe
      /\ r.jobs = req[h].jobs /\ IsReq(site, r)
  BY <1>1, <1>2, ReqFacts, ZenonT(60) DEF IsReq, Pcs, Stripes, Sch
<1> HIDE DEF r
<1>5. SerialRepair => Fits(site, r)
  BY <1>1, <1>4, WorkingFacts DEF Fits
<1> QED BY <1>1, <1>3, <1>4, <1>5, WorkingFacts, HandlerStep

LEMMA CombinedReq ==
  ASSUME NEW st, NEW r, IsReq(st, r), NEW ok, NEW got \in SUBSET Blocks(st.sch),
         NEW bad \in SUBSET got, got \cap r.plan.lost = {}
  PROVE  IsReq(st, [r EXCEPT !.pc = "store", !.sound = ok, !.got = got, !.bad = bad,
                             !.left = Rebuilt(st.sch, r.plan.lost)])
<1> DEFINE left == Rebuilt(st.sch, r.plan.lost)
<1> HIDE DEF left
<1> QED BY DEF IsReq, Pcs, left

LEMMA Combining ==
  ASSUME Inv, NEW h \in Handlers, NEW bad \in SUBSET Reads(h), NEW ok, At(h, "gather"),
         Combined(h, bad, ok), UNCHANGED <<nodeVars, memVars, tableVars>>
  PROVE  Inv'
<1> DEFINE r == [req[h] EXCEPT !.pc = "store", !.sound = ok, !.got = Reads(h),
                               !.bad = bad,
                               !.left = Rebuilt(Sch, req[h].plan.lost)]
<1>1. Working(h)
  BY DEF Working
<1>2. req' = [req EXCEPT ![h] = r]
  BY ReqFacts DEF Combined
<1>3. /\ r.pc = "store" /\ r.plan = req[h].plan /\ r.stripe = req[h].stripe
      /\ r.left = Rebuilt(Sch, r.plan.lost) /\ r.jobs = req[h].jobs
  BY ReqFacts
<1>4. IsReq(site, r)
  <2>1. /\ bad \subseteq Reads(h) /\ Reads(h) \in SUBSET Blocks(Sch) /\ bad \in SUBSET Blocks(Sch)
        /\ Reads(h) \cap req[h].plan.lost = {}
    BY <1>1, WorkingFacts
  <2>2. IsReq(site, req[h])
    BY DEF Inv, Shape
  <2> QED BY <2>1, <2>2, CombinedReq DEF Sch
<1> HIDE DEF r
<1>5. SerialRepair => Fits(site, r)
  BY <1>1, <1>3, WorkingFacts DEF Fits, Working
<1> QED BY <1>1, <1>2, <1>3, <1>4, <1>5, WorkingFacts, HandlerStep

(* A node that is down holds nothing that must be there.                   *)
LEMMA Failing ==
  ASSUME Inv, NEW n \in NodesOf(site), Fail(n)
  PROVE  Inv'
<1> USE DEF Inv, Fail
<1>1. /\ Stripes' = Stripes /\ Sch' = Sch /\ Handlers' = Handlers
      /\ up' \subseteq up
  BY DEF Stripes, Sch, Handlers
<1>2. Shape'
  BY <1>1 DEF Shape
<1>3. RecordedIsHeld'
  BY <1>1 DEF RecordedIsHeld
<1>4. WrittenIsHeld'
  BY <1>1 DEF WrittenIsHeld, Held
<1>5. AzInv'
  BY <1>1 DEF AzInv, Working
<1>6. SerialRepair => OneActive' /\ PlanIsCurrent' /\ OwnNodes'
  BY <1>1 DEF OneActive, Active, PlanIsCurrent, Working, OwnNodes
<1>7. SerialRepair => AllFit'
  BY <1>1 DEF AllFit
<1> QED BY <1>2, <1>3, <1>4, <1>5, <1>6, <1>7

(* A write takes nothing from a node: it makes a block junk or good.       *)
LEMMA Storing ==
  ASSUME Inv, NEW h \in Handlers, NEW x, StoreBlock(h, x)
  PROVE  Inv'
<1> DEFINE r == [req[h] EXCEPT !.left = @ \ {x}]
           n == req[h].plan.to[x]
           copy == <<req[h].stripe, x, n>>
<1>1. /\ req[h].pc = "store" /\ Working(h) /\ x \in req[h].left
      /\ req' = [req EXCEPT ![h] = r]
      /\ UNCHANGED <<site, up, info, index, Stripes, Sch, Handlers>>
  BY DEF StoreBlock, Working, Stripes, Sch, Handlers
<1>2. /\ r.pc = req[h].pc /\ r.plan = req[h].plan /\ r.stripe = req[h].stripe
      /\ r.left = req[h].left \ {x} /\ r.jobs = req[h].jobs /\ IsReq(site, r)
  BY <1>1, ReqFacts DEF IsReq, Pcs, Stripes, Sch
<1> HIDE DEF r
<1>3. /\ DOMAIN req' = Handlers' /\ Handlers' = Handlers
      /\ req'[h] = r
      /\ \A i \in Handlers \ {h} : req'[i] = req[i]
  BY <1>1, ReqFacts
<1>4. /\ good \cup junk \subseteq good' \cup junk'
      /\ good' \cup junk' \subseteq good \cup junk \cup {copy}
      /\ n \in up => copy \in good' \cup junk'
      /\ n \notin up => UNCHANGED memVars
  BY DEF StoreBlock
<1>5. Shape'
  <2>1. x \in Blocks(Sch) /\ req[h].stripe \in Stripes
    BY <1>1, ReqFacts, WorkingFacts, RebuiltAreLost DEF GoodPlan, Sch
  <2>2. n \in up => copy \in Stripes \X Blocks(Sch) \X NodesOf(site)
    BY <2>1 DEF Inv, Shape
  <2>3. good' \cup junk' \subseteq Stripes \X Blocks(Sch) \X NodesOf(site)
    <3> HIDE DEF n, copy
    <3> QED BY <1>4, <2>2 DEF Inv, Shape
  <2> QED BY <1>1, <1>2, <1>3, <2>3 DEF Inv, Shape
<1>6. RecordedIsHeld'
  BY <1>1, <1>4 DEF Inv, RecordedIsHeld
<1>7. WrittenIsHeld'
  BY <1>1, <1>2, <1>3, <1>4 DEF Inv, WrittenIsHeld, Held
<1>8. AzInv'
  BY <1>1, <1>2, <1>3 DEF Inv, AzInv, Working
<1>9. SerialRepair => OneActive' /\ PlanIsCurrent' /\ OwnNodes'
  BY <1>1, <1>2, <1>3 DEF Inv, OneActive, Active, PlanIsCurrent, Working, OwnNodes
<1>10. SerialRepair => AllFit'
  <2>1. SerialRepair => Fits(site, r)
    BY <1>1, <1>2, WorkingFacts DEF Fits
  <2> QED BY <1>1, <1>3, <2>1 DEF Inv, AllFit
<1> QED BY <1>5, <1>6, <1>7, <1>8, <1>9, <1>10 DEF Inv

(* The list of nodes is changed only to what has been written.             *)
LEMMA Recording ==
  ASSUME Inv, NEW h \in Handlers, Record(h)
  PROVE  Inv'
<1> DEFINE s == req[h].stripe
           plan == req[h].plan
           at == info[s]
           pc == IF req[h].jobs = <<>> THEN "scan" ELSE "plan"
           moved == [x \in Blocks(Sch) |->
                       IF x \in Recorded(plan) THEN plan.to[x] ELSE at[x]]
<1>1. /\ s \in Stripes /\ at \in [Blocks(Sch) -> NodesOf(site)]
      /\ Working(h) /\ Active(h) /\ req[h].pc = "store" /\ req[h].left = {}
      /\ pc \in {"scan", "plan"} /\ (pc = "plan" => req[h].jobs # <<>>)
  BY ReqFacts DEF Record, Working, Active
<1>2. GoodPlan(site, plan) /\ InPlace(site, s, plan.from)
  BY <1>1, WorkingFacts
<1>3. info' = [info EXCEPT ![s] = moved]
  BY <1>1 DEF Record
<1>4. req' = [req EXCEPT ![h] = [req[h] EXCEPT !.pc = pc]]
  BY DEF Record
<1>5. /\ DOMAIN req' = Handlers' /\ Handlers' = Handlers
      /\ req'[h] = [req[h] EXCEPT !.pc = pc]
      /\ \A i \in Handlers \ {h} : req'[i] = req[i]
  BY <1>4, ReqFacts DEF Handlers
<1> HIDE DEF pc
<1>6. /\ req'[h].pc = pc /\ req'[h].plan = plan /\ req'[h].stripe = s
      /\ req'[h].jobs = req[h].jobs /\ req'[h].left = {}
      /\ IsReq(site, req'[h])
  BY <1>1, <1>5, ReqFacts DEF IsReq, Pcs, Stripes, Sch
<1>7. UNCHANGED <<site, up, good, junk, index, Stripes, Sch>>
  BY DEF Record, Stripes, Sch
<1>8. \A x \in Recorded(plan) :
        /\ x \in Blocks(Sch)
        /\ plan.to[x] \in NodesOf(site)
        /\ AzOf(plan.to[x]) = AzOf(plan.from[x])
        /\ plan.to[x] \notin Range(plan.from)
        /\ \A y \in Recorded(plan) : plan.to[x] = plan.to[y] => x = y
  BY <1>2 DEF GoodPlan, Recorded, Sch
<1>9. \A x \in Recorded(plan) : Held(s, x, plan.to[x])
  BY <1>1 DEF Inv, WrittenIsHeld, Recorded, Record
<1> HIDE DEF moved
<1>10. moved \in [Blocks(Sch) -> NodesOf(site)]
  BY <1>1, <1>8 DEF moved
<1>11. /\ info'[s] = moved
       /\ \A t \in Stripes \ {s} : info'[t] = info[t]
       /\ info' \in [Stripes -> [Blocks(Sch) -> NodesOf(site)]]
  BY <1>1, <1>3, <1>10 DEF Inv, Shape
<1> HIDE DEF s, plan, at
<1>12. Shape'
  BY <1>5, <1>6, <1>7, <1>11 DEF Inv, Shape
<1>13. RecordedIsHeld'
  <2>1. ASSUME NEW x \in Blocks(Sch) PROVE Held(s, x, moved[x])
    BY <1>1, <1>9 DEF Inv, RecordedIsHeld, Held, moved, at
  <2>2. ASSUME NEW t \in Stripes, NEW x \in Blocks(Sch)
        PROVE  Held(t, x, info'[t][x])
    BY <2>1, <1>11 DEF Inv, RecordedIsHeld, Held
  <2> QED BY <2>2, <1>7 DEF RecordedIsHeld, Held
<1>14. WrittenIsHeld'
  BY <1>1, <1>5, <1>6, <1>7 DEF Inv, WrittenIsHeld, Held
<1>15. AzInv'
  <2>1. InPlace(site, s, moved)
    BY <1>1, <1>2, <1>8 DEF Inv, InPlace, moved, AzInv, at, Sch
  <2>2. \A t \in Stripes : InPlace(site, t, info'[t])
    BY <2>1, <1>11 DEF Inv, AzInv
  <2>3. \A i \in Handlers : Working(i)' =>
          /\ Working(i) /\ req'[i].plan = req[i].plan /\ req'[i].stripe = req[i].stripe
    BY <1>1, <1>5, <1>6 DEF Working
  <2> QED BY <2>2, <2>3, <1>5, <1>7 DEF Inv, AzInv
<1>16. ASSUME SerialRepair
       PROVE  OneActive' /\ PlanIsCurrent' /\ OwnNodes' /\ AllFit'
  <2>1. \A i \in Handlers : Active(i)' => i = h
    BY <1>1, <1>5, <1>16 DEF Inv, OneActive, Active
  <2>2. \A i \in Handlers : ~Working(i)'
    BY <2>1, <1>1, <1>5, <1>6 DEF Working, Active
  <2>3. plan.from = at
    BY <1>1, <1>16 DEF Inv, PlanIsCurrent, plan, at, s
  <2>4. IsInjective(at)
    BY <1>1, <1>16 DEF Inv, OwnNodes, at
  <2>5. \A x \in Blocks(Sch) : at[x] \in Range(at)
    BY <1>1 DEF Range
  <2>6. IsInjective(moved)
    BY <1>1, <1>8, <2>3, <2>4, <2>5 DEF IsInjective, moved
  <2>7. AllFit'
    <3>1. Fits(site, req'[h])
      <4>1. Fits(site, req[h])
        BY <1>1, <1>16, WorkingFacts
      <4> QED BY <1>1, <1>6, <4>1 DEF Fits, s, plan
    <3> QED BY <3>1, <1>5, <1>7, <1>16 DEF Inv, AllFit
  <2> QED BY <2>1, <2>2, <2>6, <2>7, <1>5, <1>7, <1>11, <1>16
          DEF Inv, OneActive, PlanIsCurrent, OwnNodes
<1> QED BY <1>12, <1>13, <1>14, <1>15, <1>16 DEF Inv

LEMMA Stuttering == Inv /\ UNCHANGED vars => Inv'
<1> SUFFICES ASSUME Inv, UNCHANGED vars PROVE Inv'
  OBVIOUS
<1> USE DEF Inv
<1>1. Stripes' = Stripes /\ Sch' = Sch /\ Handlers' = Handlers
  BY DEF Stripes, Sch, Handlers
<1>2. Shape'
  BY <1>1 DEF Shape
<1>3. RecordedIsHeld' /\ WrittenIsHeld'
  BY <1>1 DEF RecordedIsHeld, WrittenIsHeld, Held
<1>4. AzInv'
  BY <1>1 DEF AzInv, Working
<1>5. SerialRepair => OneActive' /\ PlanIsCurrent' /\ OwnNodes'
  BY <1>1 DEF OneActive, Active, PlanIsCurrent, Working, OwnNodes
<1>6. SerialRepair => AllFit'
  BY <1>1 DEF AllFit
<1> QED BY <1>2, <1>3, <1>4, <1>5, <1>6

(* What the coordinator does is the same in Repair and in RepairTransfer.  *)
LEMMA CoordinatorStep ==
  ASSUME Inv, NEW h \in Handlers,
         \/ RequestRepair(h) \/ Reply(h) \/ PlanJob(h) \/ Record(h)
         \/ \E s \in Stripes : SkipStripe(h, s) \/ ExamineStripe(h, s)
         \/ \E x \in Blocks(Sch) : StoreBlock(h, x)
  PROVE  Inv'
BY Scanning, Planning, Recording, Storing

LEMMA RepairStep == Inv /\ [Next]_vars => Inv'
<1> SUFFICES ASSUME Inv, [Next]_vars PROVE Inv'
  OBVIOUS
<1>1. CASE UNCHANGED vars
  BY <1>1, Stuttering
<1>2. ASSUME NEW n \in NodesOf(site), Fail(n) PROVE Inv'
  BY <1>2, Failing
<1>3. ASSUME NEW h \in Handlers, RequestRepair(h) PROVE Inv'
  BY <1>3, CoordinatorStep
<1>4. ASSUME NEW h \in Handlers, Step(h) PROVE Inv'
  <2>1. CASE Combine(h)
    BY <2>1, ReqFacts, Combining DEF Combine
  <2>2. ASSUME NEW x \in Blocks(Sch), ReadBlock(h, x) PROVE Inv'
    BY <2>2, Reading
  <2> QED BY <1>4, <2>1, <2>2, CoordinatorStep DEF Step
<1> QED BY <1>1, <1>2, <1>3, <1>4 DEF Next

(* A stripe lies in the AZs it was placed in, so it is as tolerant.        *)
LEMMA InvIsTolerant == Inv => StaysTolerant
<1> SUFFICES ASSUME Inv, NEW s \in Stripes, NEW a \in 0..(site.azs - 1)
             PROVE  InAz(site.layouts[s], Blocks(Sch), a) = InAz(info[s], Blocks(Sch), a)
  BY DEF StaysTolerant
<1>1. /\ info[s] \in [Blocks(Sch) -> NodesOf(site)]
      /\ InPlace(site, s, info[s])
  BY DEF Inv, Shape, AzInv
<1>2. site.layouts[s] \in [Blocks(Sch) -> NodesOf(site)]
  BY SiteFacts DEF Inv, Shape, Stripes
<1> QED BY <1>1, <1>2 DEF InPlace, InAz, Sch

-----------------------------------------------------------------------------
(* Repaired stripes are whole                                              *)

(* The invariant above says that blocks are somewhere; for what is written *)
(* to be right one has to follow the jobs of a stripe.                     *)
(*                                                                         *)
(* What a handler knows of its stripes: the jobs left and the one at work  *)
(* rebuild all that is lost of the stripe, blocks that were placed on      *)
(* nodes that may fail; a job of several blocks has only lost ones, none   *)
(* of them in the job at work; and no other stripe is forgotten.           *)
Undone(st, r) ==
  (UNION {Rebuilt(st.sch, r.jobs[i]) : i \in DOMAIN r.jobs})
  \cup IF r.pc \in {"gather", "store"} THEN Rebuilt(st.sch, r.plan.lost) ELSE {}

Placed(st, s, xs) == \A x \in xs : st.layouts[s][x] \in st.mayFail

JobsKnown(st, at, r) ==
  r.pc \in {"plan", "gather", "store"} =>
    /\ Apart(r.jobs)
    /\ \A i \in DOMAIN r.jobs :
         /\ Placed(st, r.stripe, r.jobs[i])
         /\ OneBlock(r.jobs[i]) \/ r.jobs[i] \subseteq FailedOf(at, r.list)
    /\ FailedOf(at, r.list) \subseteq Undone(st, r)

PlanKnown(st, r) ==
  r.pc \in {"gather", "store"} =>
    /\ \A i \in DOMAIN r.jobs : OneBlock(r.jobs[i]) \/ r.plan.lost \cap r.jobs[i] = {}
    /\ Placed(st, r.stripe, r.plan.lost)
    /\ OneBlock(r.plan.lost) \/ r.plan.lost \subseteq FailedOf(r.plan.from, r.list)
    /\ r.plan.reads = ReadsOf(st.sch, r.plan.from, r.plan.lost, st.partial)
    /\ \A x \in DOMAIN r.plan.to : r.plan.to[x] \notin st.mayFail

SoundKnown(st, r) ==
  r.pc = "store" =>
    \/ r.sound \/ r.bad # {} \/ r.plan.lost = {}
    \/ ~Handled(st.sch, FailedOf(r.plan.from, r.list), st.partial)

StripeDone(st, at, list) ==
  FailedOf(at, list) = {} \/ ~Handled(st.sch, FailedOf(at, list), st.partial)
StripesKnown(st, inf, r) ==
  \A s \in 1..Len(st.layouts) :
    s \in r.todo \/ StripeDone(st, inf[s], r.list) \/ (r.pc # "scan" /\ s = r.stripe)

Known(st, inf, r) ==
  /\ JobsKnown(st, inf[r.stripe], r)
  /\ PlanKnown(st, r)
  /\ SoundKnown(st, r)
  /\ StripesKnown(st, inf, r)

WholeInv ==
  /\ index = [n \in NodesOf(site) |-> {i \in Stripes : n \in Range(site.layouts[i])}]
  /\ \A s \in Stripes : Settled(site, s, info[s])
  /\ \A h \in Handlers : Active(h) => Known(site, info, req[h])

LEMMA WholeInit == Init => WholeInv
<1> SUFFICES ASSUME Init PROVE WholeInv
  OBVIOUS
<1>1. \A h \in Handlers : ~Active(h)
  BY DEF Init, Active, Unused
<1>2. \A s \in Stripes : Settled(site, s, info[s])
  BY DEF Init, Settled
<1>3. index = [n \in NodesOf(site) |-> {i \in Stripes : n \in Range(site.layouts[i])}]
  BY DEF Init
<1> QED BY <1>1, <1>2, <1>3 DEF WholeInv

(* One handler at a time is all there is to look at.                       *)
LEMMA WholeStep ==
  ASSUME SerialRepair, Inv, Inv', WholeInv, NEW h \in Handlers, Active(h) \/ Active(h)',
         \A i \in Handlers \ {h} : req'[i] = req[i],
         UNCHANGED <<site, index>>,
         \A s \in Stripes : Settled(site, s, info'[s]),
         req'[h].pc # "replied" => Known(site, info', req'[h])
  PROVE  WholeInv'
<1>1. Handlers' = Handlers /\ Stripes' = Stripes
  BY DEF Handlers, Stripes
<1>2. \A i \in Handlers \ {h} : ~Active(i)'
  BY <1>1 DEF Inv, OneActive, Active
<1>3. \A i \in Handlers : Active(i)' => Known(site, info', req'[i])
  BY <1>2 DEF Active
<1> QED BY <1>1, <1>3 DEF WholeInv, NodesOf

(* A failed block lies where it was placed.                                *)
LEMMA FailedPlaced ==
  ASSUME Inv, WholeInv, NEW s \in Stripes, NEW list \in SUBSET site.mayFail
  PROVE  /\ FailedOf(info[s], list) \in SUBSET Blocks(Sch)
         /\ Placed(site, s, FailedOf(info[s], list))
         /\ \A x \in FailedOf(info[s], list) : site.layouts[s][x] = info[s][x] /\ info[s][x] \in list
<1>1. DOMAIN info[s] = Blocks(Sch)
  BY DEF Inv, Shape
<1>2. \A x \in Blocks(Sch) : \/ info[s][x] = site.layouts[s][x]
                             \/ /\ site.layouts[s][x] \in site.mayFail
                                /\ info[s][x] \notin site.mayFail
  BY DEF WholeInv, Settled, Sch
<1> QED BY <1>1, <1>2 DEF FailedOf, Placed

LEMMA WholeRequest ==
  ASSUME SerialRepair, Inv, Inv', WholeInv, NEW h \in Handlers, RequestRepair(h)
  PROVE  WholeInv'
<1> DEFINE list == NodesOf(site) \ up
           r == [Unused EXCEPT !.pc = "scan", !.list = list,
                   !.todo = UNION {index[n] : n \in list}]
<1>1. /\ req' = [req EXCEPT ![h] = r] /\ UNCHANGED <<site, info, index, Stripes>>
  BY DEF RequestRepair, Stripes
<1>2. req'[h] = r /\ \A i \in Handlers \ {h} : req'[i] = req[i]
  BY <1>1, ReqFacts
<1>3. r.pc = "scan" /\ r.list = list /\ r.todo = UNION {index[n] : n \in list}
  BY DEF Unused
<1>4. list \in SUBSET site.mayFail
  BY DEF Inv, Shape
<1> HIDE DEF r
<1>5. ASSUME NEW s \in Stripes, FailedOf(info[s], list) # {}
      PROVE  s \in r.todo
  <2>1. PICK x \in FailedOf(info[s], list) : TRUE
    BY <1>5
  <2>2. x \in Blocks(Sch) /\ site.layouts[s][x] = info[s][x] /\ info[s][x] \in list
    BY <1>4, <2>1, FailedPlaced
  <2>3. DOMAIN site.layouts[s] = Blocks(Sch)
    BY SiteFacts DEF Stripes, Inv, Shape
  <2>4. s \in index[info[s][x]]
    BY <2>2, <2>3 DEF WholeInv, Range
  <2> QED BY <1>3, <2>2, <2>4
<1>6. Known(site, info, r)
  BY <1>3, <1>5 DEF Known, JobsKnown, PlanKnown, SoundKnown, StripesKnown, StripeDone, Stripes
<1>7. Active(h)'
  BY <1>2, <1>3 DEF Active
<1>8. \A s \in Stripes : Settled(site, s, info'[s])
  BY <1>1 DEF WholeInv
<1> HIDE DEF list
<1> QED BY <1>1, <1>2, <1>6, <1>7, <1>8, WholeStep

LEMMA WholeScan ==
  ASSUME SerialRepair, Inv, Inv', WholeInv, NEW h \in Handlers,
         Reply(h) \/ \E s \in Stripes : SkipStripe(h, s)
  PROVE  WholeInv'
<1>1. /\ \A i \in Handlers \ {h} : req'[i] = req[i]
      /\ UNCHANGED <<site, info, index>> /\ req[h].pc = "scan" /\ Active(h)
  BY ReqFacts DEF Reply, SkipStripe, Active
<1>2. \A s \in Stripes : Settled(site, s, info'[s])
  BY <1>1 DEF WholeInv
<1>3. CASE Reply(h)
  <2>1. req'[h].pc = "replied"
    BY <1>3, ReqFacts DEF Reply
  <2> QED BY <1>1, <1>2, <2>1, WholeStep
<1>4. ASSUME NEW s \in Stripes, SkipStripe(h, s)
      PROVE  WholeInv'
  <2>1. /\ req'[h].pc = "scan" /\ req'[h].list = req[h].list
        /\ req'[h].todo = req[h].todo \ {s}
    BY <1>4, ReqFacts DEF SkipStripe
  <2>2. StripeDone(site, info[s], req[h].list)
    <3>1. LostOf(h, s) = {} \/ GivenUp(Sch, LostOf(h, s))
      BY <1>4 DEF SkipStripe
    <3>2. LostOf(h, s) \in SUBSET Blocks(Sch) /\ IsScheme(Sch)
      BY ReqFacts, FailedPlaced, SiteFacts DEF LostOf
    <3> QED BY <3>1, <3>2, HandledIsTried DEF StripeDone, LostOf, Sch
  <2>3. StripesKnown(site, info, req[h])
    BY <1>1 DEF WholeInv, Known
  <2>4. Known(site, info', req'[h])
    BY <1>1, <2>1, <2>2, <2>3 DEF Known, JobsKnown, PlanKnown, SoundKnown, StripesKnown
  <2> QED BY <1>1, <1>2, <2>4, WholeStep
<1> QED BY <1>3, <1>4

LEMMA WholeExamine ==
  ASSUME SerialRepair, Inv, Inv', WholeInv, NEW h \in Handlers, NEW s \in Stripes,
         ExamineStripe(h, s)
  PROVE  WholeInv'
<1> DEFINE lost == LostOf(h, s)
<1>1. PICK alone \in SetToSeqs(Alone(Sch, info[s], lost)),
           shared \in SetToSeqs(Shared(Sch, info[s], lost)) :
        req' = [req EXCEPT ![h].todo = @ \ {s}, ![h].stripe = s, ![h].pc = "plan",
                           ![h].jobs = JobsOf(Sch, info[s], lost, alone, shared)]
  BY DEF ExamineStripe
<1> DEFINE jobs == JobsOf(Sch, info[s], lost, alone, shared)
           r == req'[h]
<1>2. /\ \A i \in Handlers \ {h} : req'[i] = req[i]
      /\ UNCHANGED <<site, info, index>> /\ req[h].pc = "scan" /\ Active(h)
  BY <1>1, ReqFacts DEF ExamineStripe, Active
<1>3. /\ r.pc = "plan" /\ r.list = req[h].list /\ r.todo = req[h].todo \ {s}
      /\ r.stripe = s /\ r.jobs = jobs
  <2> HIDE DEF jobs
  <2> QED BY <1>1, ReqFacts DEF jobs
<1>4. lost = FailedOf(info[s], r.list) /\ r.list \in SUBSET site.mayFail
  BY <1>3, ReqFacts DEF LostOf
<1>5. lost \in SUBSET Blocks(Sch) /\ Placed(site, s, lost)
  <2> HIDE DEF r, lost
  <2> QED BY <1>4, FailedPlaced
<1> HIDE DEF lost, r
<1>6. DOMAIN info[s] = Blocks(Sch) /\ IsScheme(Sch)
  BY SiteFacts DEF Inv, Shape
<1>7. /\ Apart(jobs) /\ lost \subseteq UNION {Rebuilt(Sch, jobs[i]) : i \in DOMAIN jobs}
      /\ jobs \in Seq(SUBSET lost)
  <2> DEFINE js == JobsOf(Sch, info[s], lost, alone, shared)
  <2>1. Apart(js) /\ lost \subseteq UNION {Rebuilt(Sch, js[i]) : i \in DOMAIN js}
    BY <1>5, <1>6, JobsCover
  <2>2. js \in Seq(SUBSET lost)
    BY <1>5, <1>6, Jobs
  <2> QED BY <2>1, <2>2
<1> HIDE DEF jobs
<1>8. \A i \in DOMAIN jobs : jobs[i] \subseteq lost
  BY <1>7
<1>9. JobsKnown(site, info[s], r)
  BY <1>3, <1>4, <1>5, <1>7, <1>8 DEF JobsKnown, Placed, Undone, Sch
<1>10. StripesKnown(site, info, req[h])
  BY <1>2 DEF WholeInv, Known
<1>11. StripesKnown(site, info, r)
  BY <1>2, <1>3, <1>10 DEF StripesKnown
<1>12. Known(site, info', r)
  BY <1>2, <1>3, <1>9, <1>11 DEF Known, PlanKnown, SoundKnown
<1>13. \A t \in Stripes : Settled(site, t, info'[t])
  BY <1>2 DEF WholeInv
<1> QED BY <1>2, <1>12, <1>13, WholeStep DEF r

(* The head and the rest of a list of jobs.                                *)
LEMMA FirstJob ==
  ASSUME NEW S, NEW jobs \in Seq(SUBSET S), jobs # <<>>
  PROVE  /\ 1 \in DOMAIN jobs /\ Head(jobs) = jobs[1]
         /\ \A i \in DOMAIN Tail(jobs) :
              i + 1 \in DOMAIN jobs /\ Tail(jobs)[i] = jobs[i + 1] /\ i \in Nat /\ i > 0
         /\ \A i \in DOMAIN jobs : i = 1 \/ (i - 1 \in DOMAIN Tail(jobs)
                                             /\ Tail(jobs)[i - 1] = jobs[i])
<1> DEFINE sets == SUBSET S
<1> HIDE DEF sets
<1>1. jobs \in Seq(sets) /\ Len(jobs) \in Nat
  BY DEF sets
<1>2. /\ Head(jobs) = jobs[1] /\ Tail(jobs) \in Seq(sets) /\ Len(Tail(jobs)) = Len(jobs) - 1
      /\ \A i \in 1..Len(Tail(jobs)) : Tail(jobs)[i] = jobs[i + 1]
  BY <1>1, HeadTailProperties
<1>3. Len(jobs) > 0 /\ DOMAIN jobs = 1..Len(jobs) /\ DOMAIN Tail(jobs) = 1..Len(Tail(jobs))
  BY <1>1, <1>2, EmptySeq
<1>4. \A i \in 1..Len(jobs) : i = 1 \/ i - 1 \in 1..(Len(jobs) - 1)
  BY <1>1
<1>5. \A i \in 1..(Len(jobs) - 1) : i + 1 \in 1..Len(jobs) /\ i \in Nat /\ i > 0
  BY <1>1
<1>6. \A i \in 1..Len(jobs) : i - 1 \in 1..(Len(jobs) - 1) => Tail(jobs)[i - 1] = jobs[i]
  <2> TAKE i \in 1..Len(jobs)
  <2>1. (i - 1) + 1 = i
    OBVIOUS
  <2> QED BY <1>2, <2>1
<1> QED BY <1>2, <1>3, <1>4, <1>5, <1>6

LEMMA WholePlan ==
  ASSUME SerialRepair, Inv, Inv', WholeInv, NEW h \in Handlers, PlanJob(h)
  PROVE  WholeInv'
<1> DEFINE lost == Head(req[h].jobs)
           s == req[h].stripe
           at == info[s]
           places == PlacesFor(at, lost)
           r == req'[h]
           old == req[h]
<1>1. /\ old.pc = "plan" /\ Active(h) /\ UNCHANGED <<site, info, index>>
      /\ \A i \in Handlers \ {h} : req'[i] = req[i]
  BY ReqFacts DEF PlanJob, Active
<1>2. /\ r.pc = "gather" /\ r.jobs = Tail(old.jobs) /\ r.list = old.list
      /\ r.todo = old.todo /\ r.stripe = s
      /\ r.plan.lost = lost /\ r.plan.from = at /\ r.plan.to = places
      /\ r.plan.reads = ReadsOf(Sch, at, lost, site.partial)
  <2> HIDE DEF lost, places
  <2>1. PICK main \in Mains(Sch, at, lost, site.partial) :
          req' = [req EXCEPT ![h].pc = "gather", ![h].jobs = Tail(@),
                             ![h].got = {}, ![h].bad = {},
                             ![h].plan = [lost |-> lost, main |-> main,
                                          reads |-> ReadsOf(Sch, at, lost, site.partial),
                                          from |-> at, to |-> places]]
    BY DEF PlanJob, lost, places
  <2> QED BY <2>1, ReqFacts
<1>3. /\ s \in Stripes /\ at \in [Blocks(Sch) -> NodesOf(site)]
      /\ old.jobs \in Seq(SUBSET Blocks(Sch)) /\ old.jobs # <<>>
      /\ site \in Sites /\ old.list \in SUBSET site.mayFail
  BY <1>1, ReqFacts
<1>4. JobsKnown(site, at, old) /\ StripesKnown(site, info, old)
  BY <1>1 DEF WholeInv, Known
<1>5. /\ Apart(old.jobs)
      /\ \A i \in DOMAIN old.jobs :
           /\ Placed(site, s, old.jobs[i])
           /\ OneBlock(old.jobs[i]) \/ old.jobs[i] \subseteq FailedOf(at, old.list)
      /\ FailedOf(at, old.list) \subseteq UNION {Rebuilt(Sch, old.jobs[i]) : i \in DOMAIN old.jobs}
  BY <1>1, <1>4 DEF JobsKnown, Undone, Sch
<1> HIDE DEF old, r, at, s, places
<1>6. /\ 1 \in DOMAIN old.jobs /\ lost = old.jobs[1]
      /\ \A i \in DOMAIN Tail(old.jobs) :
           /\ i + 1 \in DOMAIN old.jobs /\ Tail(old.jobs)[i] = old.jobs[i + 1]
           /\ i \in Nat /\ i > 0
      /\ \A i \in DOMAIN old.jobs : i = 1 \/ (i - 1 \in DOMAIN Tail(old.jobs)
                                              /\ Tail(old.jobs)[i - 1] = old.jobs[i])
  BY <1>3, FirstJob DEF old
<1> HIDE DEF lost
<1>7. Apart(Tail(old.jobs))
  BY <1>5, <1>6 DEF Apart
<1>8. \A i \in DOMAIN Tail(old.jobs) : OneBlock(Tail(old.jobs)[i]) \/ lost \cap Tail(old.jobs)[i] = {}
  <2> TAKE i \in DOMAIN Tail(old.jobs)
  <2>1. i + 1 \in DOMAIN old.jobs /\ 1 < i + 1 /\ Tail(old.jobs)[i] = old.jobs[i + 1]
    BY <1>6
  <2> QED BY <1>5, <1>6, <2>1 DEF Apart
<1>9. FailedOf(at, old.list) \subseteq Undone(site, r)
  <2> SUFFICES ASSUME NEW x \in FailedOf(at, old.list)
               PROVE  x \in Undone(site, r)
    OBVIOUS
  <2>1. PICK i \in DOMAIN old.jobs : x \in Rebuilt(Sch, old.jobs[i])
    BY <1>5
  <2>2. Rebuilt(Sch, lost) \subseteq Undone(site, r)
    BY <1>2 DEF Undone, Sch
  <2>3. \A j \in DOMAIN Tail(old.jobs) : Rebuilt(Sch, Tail(old.jobs)[j]) \subseteq Undone(site, r)
    BY <1>2 DEF Undone, Sch
  <2> QED BY <1>6, <2>1, <2>2, <2>3
<1>10. JobsKnown(site, at, r)
  BY <1>2, <1>5, <1>6, <1>7, <1>9 DEF JobsKnown
<1>11. \A x \in DOMAIN places : places[x] \notin site.mayFail
  <2>1. /\ InPlace(site, s, at) /\ Settled(site, s, at)
    BY <1>3 DEF Inv, AzInv, WholeInv, at
  <2>2. /\ lost \in SUBSET Blocks(Sch)
        /\ \A x \in lost : site.layouts[s][x] \in site.mayFail
    <3>1. \A i \in DOMAIN old.jobs : old.jobs[i] \in SUBSET Blocks(Sch)
      BY <1>3
    <3> QED BY <3>1, <1>5, <1>6 DEF Placed
  <2>3. OneBlock(lost) \/ \A x \in lost : at[x] \in site.mayFail
    <3>1. OneBlock(lost) \/ lost \subseteq FailedOf(at, old.list)
      BY <1>5, <1>6
    <3> QED BY <1>3, <3>1 DEF FailedOf
  <2> QED BY <1>3, <2>1, <2>2, <2>3, PlacesStay DEF places
<1>12. PlanKnown(site, r)
  BY <1>2, <1>5, <1>6, <1>8, <1>11 DEF PlanKnown, Sch
<1>13. StripesKnown(site, info, r)
  BY <1>1, <1>2, <1>4 DEF StripesKnown, s, old
<1>14. Known(site, info', r)
  BY <1>1, <1>2, <1>10, <1>12, <1>13 DEF Known, SoundKnown, at
<1>15. \A t \in Stripes : Settled(site, t, info'[t])
  BY <1>1 DEF WholeInv
<1> QED BY <1>1, <1>14, <1>15, WholeStep DEF r

(* The list of nodes is as it was and the handler has the same plan.       *)
LEMMA KnownSame ==
  ASSUME SerialRepair, Inv, Inv', WholeInv, NEW h \in Handlers, Working(h),
         \A i \in Handlers \ {h} : req'[i] = req[i],
         UNCHANGED <<site, info, index>>,
         req'[h].pc \in {"gather", "store"},
         /\ req'[h].jobs = req[h].jobs /\ req'[h].list = req[h].list
         /\ req'[h].todo = req[h].todo /\ req'[h].stripe = req[h].stripe
         /\ req'[h].plan = req[h].plan,
         SoundKnown(site, req'[h])
  PROVE  WholeInv'
<1>1. Active(h) /\ req[h].pc \in {"gather", "store"}
  BY DEF Working, Active
<1>2. Known(site, info, req[h])
  BY <1>1 DEF WholeInv
<1>3. Known(site, info', req'[h])
  BY <1>1, <1>2 DEF Known, JobsKnown, PlanKnown, StripesKnown, Undone
<1>4. \A t \in Stripes : Settled(site, t, info'[t])
  BY DEF WholeInv
<1> QED BY <1>1, <1>3, <1>4, WholeStep

LEMMA WholeRead ==
  ASSUME SerialRepair, Inv, Inv', WholeInv, NEW h \in Handlers, NEW x, ReadBlock(h, x)
  PROVE  WholeInv'
<1>1. /\ Working(h) /\ \A i \in Handlers \ {h} : req'[i] = req[i]
      /\ UNCHANGED <<site, info, index>>
      /\ req'[h].pc = "gather"
      /\ req'[h].jobs = req[h].jobs /\ req'[h].list = req[h].list
      /\ req'[h].todo = req[h].todo /\ req'[h].stripe = req[h].stripe
      /\ req'[h].plan = req[h].plan
  BY ReqFacts DEF ReadBlock, Working
<1>2. SoundKnown(site, req'[h])
  BY <1>1 DEF SoundKnown
<1> QED BY <1>1, <1>2, KnownSame

(* Whole reads of what a plan says give the blocks back, if repair is made *)
(* for what is lost of the stripe.                                         *)
LEMMA WholeCombine ==
  ASSUME SerialRepair, Inv, Inv', WholeInv, NEW h \in Handlers, NEW bad, At(h, "gather"),
         NEW ok \in Outcomes(Sch, req[h].plan.lost, site.partial, Reads(h), bad),
         Combined(h, bad, ok), UNCHANGED <<nodeVars, memVars, tableVars>>
  PROVE  WholeInv'
<1> DEFINE lost == req[h].plan.lost
           from == req[h].plan.from
           all == FailedOf(from, req[h].list)
<1>1. /\ Working(h) /\ \A i \in Handlers \ {h} : req'[i] = req[i]
      /\ UNCHANGED <<site, info, index>>
      /\ req'[h].pc = "store" /\ req'[h].sound = ok /\ req'[h].bad = bad
      /\ req'[h].jobs = req[h].jobs /\ req'[h].list = req[h].list
      /\ req'[h].todo = req[h].todo /\ req'[h].stripe = req[h].stripe
      /\ req'[h].plan = req[h].plan
  BY ReqFacts DEF Combined, Working
<1>2. PlanKnown(site, req[h])
  BY <1>1 DEF WholeInv, Known, Working, Active
<1>3. /\ from \in [Blocks(Sch) -> NodesOf(site)] /\ lost \in SUBSET Blocks(Sch)
      /\ IsScheme(Sch) /\ site.partial \in BOOLEAN
  BY <1>1, WorkingFacts, ReqFacts, SiteFacts, SitesAssumption DEF GoodPlan, Sch
<1>4. Reads(h) = UNION Range(ReadsOf(Sch, from, lost, site.partial))
  BY <1>1, <1>2 DEF PlanKnown, Reads, Sch, Working
<1>5. ASSUME bad = {}, lost # {}, Handled(Sch, all, site.partial)
      PROVE  ok
  <2>1. CASE OneBlock(lost)
    BY <1>5, <2>1 DEF Outcomes, OneBlock
  <2>2. CASE ~OneBlock(lost)
    <3>1. lost \in SUBSET all /\ all \in SUBSET Blocks(Sch)
      BY <1>1, <1>2, <1>3, <2>2 DEF PlanKnown, FailedOf, Working
    <3> HIDE DEF all, lost, from
    <3>2. Handled(Sch, lost, site.partial)
      BY <1>3, <1>5, <3>1, HandledSubset
    <3>3. ok \in Outcomes(Sch, lost, site.partial,
                          UNION Range(ReadsOf(Sch, from, lost, site.partial)), {})
      BY <1>4, <1>5 DEF lost
    <3> QED BY <1>3, <1>5, <3>2, <3>3, HandledIsSound
  <2> QED BY <2>1, <2>2
<1>6. SoundKnown(site, req'[h])
  BY <1>1, <1>5 DEF SoundKnown, Sch
<1> QED BY <1>1, <1>6, KnownSame

LEMMA WholeStore ==
  ASSUME SerialRepair, Inv, Inv', WholeInv, NEW h \in Handlers, NEW x, StoreBlock(h, x)
  PROVE  WholeInv'
<1>1. /\ Working(h) /\ \A i \in Handlers \ {h} : req'[i] = req[i]
      /\ UNCHANGED <<site, info, index>>
      /\ req[h].pc = "store"
      /\ req'[h].pc = "store" /\ req'[h].sound = req[h].sound /\ req'[h].bad = req[h].bad
      /\ req'[h].jobs = req[h].jobs /\ req'[h].list = req[h].list
      /\ req'[h].todo = req[h].todo /\ req'[h].stripe = req[h].stripe
      /\ req'[h].plan = req[h].plan
  BY ReqFacts DEF StoreBlock, Working
<1>2. SoundKnown(site, req[h])
  BY <1>1 DEF WholeInv, Known, Active
<1>3. SoundKnown(site, req'[h])
  BY <1>1, <1>2 DEF SoundKnown
<1> QED BY <1>1, <1>3, KnownSame

(* The blocks of the job are lost no more: they are where none may fail.   *)
LEMMA WholeRecord ==
  ASSUME SerialRepair, Inv, Inv', WholeInv, NEW h \in Handlers, Record(h)
  PROVE  WholeInv'
<1> DEFINE old == req[h]
           r == req'[h]
           s == req[h].stripe
           plan == req[h].plan
           at == info[s]
           now == info'[s]
           rebuilt == Rebuilt(Sch, plan.lost)
           pc == IF req[h].jobs = <<>> THEN "scan" ELSE "plan"
<1>1. /\ Working(h) /\ Active(h) /\ old.pc = "store"
      /\ \A i \in Handlers \ {h} : req'[i] = req[i]
      /\ UNCHANGED <<site, index>>
      /\ r.pc = pc
      /\ r.jobs = old.jobs /\ r.list = old.list /\ r.todo = old.todo /\ r.stripe = s
  BY ReqFacts DEF Record, Working, Active
<1>2. /\ s \in Stripes /\ at \in [Blocks(Sch) -> NodesOf(site)]
      /\ old.jobs \in Seq(SUBSET Blocks(Sch))
      /\ old.list \in SUBSET site.mayFail
  BY ReqFacts
<1>3. /\ plan.from = at /\ rebuilt \subseteq DOMAIN plan.to
      /\ rebuilt \subseteq plan.lost
  BY <1>1, WorkingFacts, RebuiltAreLost DEF Fits, Sch
<1>4. /\ now = [x \in Blocks(Sch) |-> IF x \in rebuilt THEN plan.to[x] ELSE at[x]]
      /\ \A t \in Stripes \ {s} : info'[t] = info[t]
  <2>1. Recorded(plan) = rebuilt
    BY <1>3 DEF Recorded
  <2>2. DOMAIN info = Stripes
    BY DEF Inv, Shape
  <2>3. info' = [info EXCEPT ![s] = [x \in DOMAIN @ |-> IF x \in Recorded(plan) THEN plan.to[x]
                                                                               ELSE @[x]]]
    BY DEF Record
  <2> HIDE DEF rebuilt, plan, s
  <2> QED BY <1>2, <2>1, <2>2, <2>3
<1>5. Known(site, info, old)
  BY <1>1 DEF WholeInv
<1>6. /\ Apart(old.jobs)
      /\ \A i \in DOMAIN old.jobs :
           /\ Placed(site, s, old.jobs[i])
           /\ OneBlock(old.jobs[i]) \/ old.jobs[i] \subseteq FailedOf(at, old.list)
           /\ OneBlock(old.jobs[i]) \/ plan.lost \cap old.jobs[i] = {}
      /\ FailedOf(at, old.list)
           \subseteq (UNION {Rebuilt(Sch, old.jobs[i]) : i \in DOMAIN old.jobs}) \cup rebuilt
      /\ Placed(site, s, plan.lost)
      /\ \A x \in DOMAIN plan.to : plan.to[x] \notin site.mayFail
  BY <1>1, <1>5 DEF Known, JobsKnown, PlanKnown, Undone, Sch
<1> HIDE DEF old, r, s, plan, at, now, rebuilt
<1>7. FailedOf(now, old.list) = FailedOf(at, old.list) \ rebuilt
  BY <1>2, <1>3, <1>4, <1>6 DEF FailedOf
<1>8. Settled(site, s, now)
  <2>1. Settled(site, s, at)
    BY <1>2 DEF WholeInv, at
  <2> QED BY <1>3, <1>4, <1>6, <2>1 DEF Settled, Placed, Sch
<1>9. \A t \in Stripes : Settled(site, t, info'[t])
  BY <1>4, <1>8 DEF WholeInv, now
<1>10. pc \in {"scan", "plan"} /\ (pc = "scan" => DOMAIN old.jobs = {})
  BY DEF old
<1>11. JobsKnown(site, now, r)
  <2> SUFFICES ASSUME r.pc \in {"plan", "gather", "store"}
               PROVE  /\ Apart(r.jobs)
                      /\ \A i \in DOMAIN r.jobs :
                           /\ Placed(site, r.stripe, r.jobs[i])
                           /\ OneBlock(r.jobs[i]) \/ r.jobs[i] \subseteq FailedOf(now, r.list)
                      /\ FailedOf(now, r.list) \subseteq Undone(site, r)
    BY DEF JobsKnown
  <2>1. FailedOf(now, old.list)
          \subseteq UNION {Rebuilt(Sch, old.jobs[i]) : i \in DOMAIN old.jobs}
    BY <1>6, <1>7
  <2>2. \A i \in DOMAIN old.jobs : OneBlock(old.jobs[i]) \/ old.jobs[i] \subseteq FailedOf(now, old.list)
    BY <1>3, <1>6, <1>7
  <2>3. FailedOf(now, old.list) \subseteq Undone(site, r)
    BY <1>1, <2>1 DEF Undone, Sch
  <2> QED BY <1>1, <1>6, <2>2, <2>3
<1>12. StripesKnown(site, info', r)
  <2> SUFFICES ASSUME NEW t \in Stripes, t \notin r.todo, r.pc = "scan" \/ t # s
               PROVE  StripeDone(site, info'[t], r.list)
    BY <1>1 DEF StripesKnown, Stripes
  <2>1. CASE t # s
    <3>1. t \in old.todo \/ StripeDone(site, info[t], old.list) \/ t = s
      BY <1>5 DEF Known, StripesKnown, Stripes, s, old
    <3> QED BY <1>1, <1>4, <2>1, <3>1
  <2>2. CASE t = s /\ r.pc = "scan"
    <3>1. DOMAIN old.jobs = {}
      BY <1>1, <1>10, <2>2
    <3>2. FailedOf(now, old.list) = {}
      BY <1>6, <1>7, <3>1
    <3> QED BY <1>1, <2>2, <3>2 DEF StripeDone, now
  <2> QED BY <2>1, <2>2
<1>13. Known(site, info', r)
  BY <1>1, <1>10, <1>11, <1>12 DEF Known, PlanKnown, SoundKnown, now
<1> QED BY <1>1, <1>9, <1>13, WholeStep DEF r

LEMMA WholeFail ==
  ASSUME WholeInv, UNCHANGED <<site, info, index, req>>
  PROVE  WholeInv'
<1>1. Handlers' = Handlers /\ Stripes' = Stripes /\ NodesOf(site)' = NodesOf(site)
  BY DEF Handlers, Stripes, NodesOf
<1> QED BY <1>1 DEF WholeInv, Active

LEMMA WholeCoordinator ==
  ASSUME SerialRepair, Inv, Inv', WholeInv, NEW h \in Handlers,
         \/ RequestRepair(h) \/ Reply(h) \/ PlanJob(h) \/ Record(h)
         \/ \E s \in Stripes : SkipStripe(h, s) \/ ExamineStripe(h, s)
         \/ \E x \in Blocks(Sch) : StoreBlock(h, x) \/ ReadBlock(h, x)
  PROVE  WholeInv'
BY WholeRequest, WholeScan, WholePlan, WholeRecord, WholeExamine, WholeStore, WholeRead

LEMMA WholeNext ==
  ASSUME SerialRepair, Inv, Inv', WholeInv, [Next]_vars
  PROVE  WholeInv'
<1>1. CASE UNCHANGED vars
  BY <1>1, WholeFail
<1>2. ASSUME NEW n \in NodesOf(site), Fail(n) PROVE WholeInv'
  BY <1>2, WholeFail DEF Fail
<1>3. ASSUME NEW h \in Handlers, RequestRepair(h) PROVE WholeInv'
  BY <1>3, WholeCoordinator
<1>4. ASSUME NEW h \in Handlers, Step(h) PROVE WholeInv'
  <2>1. CASE Combine(h)
    BY <2>1, WholeCombine DEF Combine
  <2> QED BY <1>4, <2>1, WholeCoordinator DEF Step
<1> QED BY <1>1, <1>2, <1>3, <1>4 DEF Next

(* A step of a handler that is not that of a write leaves the datanodes,   *)
(* and only a write that is not sound makes junk.                          *)
LEMMA JunkWritten ==
  ASSUME SerialRepair, Inv, WholeInv, NEW h \in Handlers, At(h, "store"),
         NEW i \in Handlers, NEW x \in Blocks(Sch), StoreBlock(i, x), ~(junk' \subseteq junk)
  PROVE  \/ ~Handled(Sch, FailedOf(req[h].plan.from, req[h].list), site.partial)
         \/ req[h].bad # {}
<1>1. i = h /\ Active(h) /\ x \in req[h].left
  BY DEF Inv, OneActive, Active, StoreBlock
<1>2. ~req[h].sound
  BY <1>1 DEF StoreBlock
<1>3. x \in req[h].plan.lost
  BY <1>1, ReqFacts, RebuiltAreLost
<1>4. SoundKnown(site, req[h])
  BY <1>1 DEF WholeInv, Known
<1> QED BY <1>2, <1>3, <1>4 DEF SoundKnown, Sch

(* And a handler replies only with every stripe looked at.                 *)
LEMMA AllLookedAt ==
  ASSUME Inv, WholeInv, NEW h \in Handlers, Reply(h)
  PROVE  \A s \in Stripes : LostOf(h, s) = {} \/ ~Handled(Sch, LostOf(h, s), site.partial)
<1>1. Active(h) /\ req[h].pc = "scan" /\ req[h].todo = {}
  BY DEF Reply, Active
<1>2. StripesKnown(site, info, req[h])
  BY <1>1 DEF WholeInv, Known
<1> QED BY <1>1, <1>2, SMTT(30) DEF StripesKnown, StripeDone, LostOf, Stripes, Sch

(* What WritesWhole and Restored say of a step.                            *)
Writes ==
  \A h \in Handlers :
    At(h, "store") /\ ~(junk' \subseteq junk)
      => \/ ~Handled(Sch, FailedOf(req[h].plan.from, req[h].list), site.partial)
         \/ req[h].bad # {}
Replies ==
  \A h \in Handlers :
    ~At(h, "replied") /\ req'[h].pc = "replied"
      => \A s \in Stripes : LostOf(h, s) = {} \/ ~Handled(Sch, LostOf(h, s), site.partial)

LEMMA CoordinatorReplies ==
  ASSUME SerialRepair, Inv, WholeInv, NEW h \in Handlers,
         \/ RequestRepair(h) \/ Reply(h) \/ PlanJob(h) \/ Record(h)
         \/ \E s \in Stripes : SkipStripe(h, s) \/ ExamineStripe(h, s)
         \/ \E x \in Blocks(Sch) : StoreBlock(h, x) \/ ReadBlock(h, x)
         \/ \E bad, ok : Combined(h, bad, ok) /\ UNCHANGED memVars
  PROVE  Writes /\ Replies
<1>1. \/ junk' = junk
      \/ \E x \in Blocks(Sch) : StoreBlock(h, x)
  BY Zenon DEF RequestRepair, Reply, PlanJob, Record, SkipStripe, ExamineStripe, ReadBlock
<1>2. Writes
  BY <1>1, JunkWritten DEF Writes
<1>3. \/ Reply(h)
      \/ \A i \in Handlers : req'[i].pc = "replied" => req[i].pc = "replied"
  <2>1. \/ Reply(h)
        \/ /\ req'[h].pc # "replied"
           /\ \A i \in Handlers \ {h} : req'[i] = req[i]
    <3>1. CASE RequestRepair(h)
      BY <3>1, ReqFacts DEF RequestRepair, Unused
    <3>2. CASE PlanJob(h)
      BY <3>2, ReqFacts DEF PlanJob
    <3>3. CASE Record(h)
      BY <3>3, ReqFacts DEF Record
    <3>4. CASE \E s \in Stripes : SkipStripe(h, s) \/ ExamineStripe(h, s)
      <4>1. PICK s \in Stripes : SkipStripe(h, s) \/ ExamineStripe(h, s)
        BY <3>4
      <4>2. CASE SkipStripe(h, s)
        BY <4>2, ReqFacts DEF SkipStripe
      <4>3. CASE ExamineStripe(h, s)
        <5> DEFINE lost == LostOf(h, s)
                   jobs(alone, shared) == JobsOf(Sch, info[s], lost, alone, shared)
        <5>1. PICK alone, shared :
                req' = [req EXCEPT ![h].todo = @ \ {s}, ![h].stripe = s, ![h].pc = "plan",
                                   ![h].jobs = jobs(alone, shared)]
          BY <4>3 DEF ExamineStripe
        <5> HIDE DEF lost, jobs
        <5>2. req'[h].pc = "plan" /\ \A i \in Handlers \ {h} : req'[i] = req[i]
          BY <5>1, ReqFacts
        <5> QED BY <5>2
      <4> QED BY <4>1, <4>2, <4>3
    <3>5. CASE \E x \in Blocks(Sch) : StoreBlock(h, x) \/ ReadBlock(h, x)
      BY <3>5, ReqFacts DEF StoreBlock, ReadBlock
    <3>6. CASE \E bad, ok : Combined(h, bad, ok)
      <4>1. PICK bad, ok : Combined(h, bad, ok)
        BY <3>6
      <4>2. req'[h].pc = "store" /\ \A i \in Handlers \ {h} : req'[i] = req[i]
        <5> DEFINE reads == Reads(h)
                   left == Rebuilt(Sch, req[h].plan.lost)
        <5>1. req' = [req EXCEPT ![h].pc = "store", ![h].sound = ok, ![h].got = reads,
                                 ![h].bad = bad, ![h].left = left]
          BY <4>1 DEF Combined
        <5> HIDE DEF reads, left
        <5> QED BY <5>1, ReqFacts
      <4> QED BY <4>2
    <3> QED BY <3>1, <3>2, <3>3, <3>4, <3>5, <3>6
  <2> QED BY <2>1
<1>4. CASE Reply(h)
  <2>1. \A i \in Handlers \ {h} : req'[i] = req[i]
    BY <1>4, ReqFacts DEF Reply
  <2> QED BY <1>2, <1>4, <2>1, AllLookedAt DEF Replies
<1> QED BY <1>2, <1>3, <1>4 DEF Replies

LEMMA RepairReplies ==
  ASSUME SerialRepair, Inv, WholeInv, [Next]_vars
  PROVE  Writes /\ Replies
<1>1. CASE UNCHANGED <<junk, req>>
  BY <1>1 DEF Writes, Replies
<1>2. ASSUME NEW h \in Handlers, RequestRepair(h) \/ Step(h) PROVE Writes /\ Replies
  BY <1>2, CoordinatorReplies DEF Step, Combine
<1> QED BY <1>1, <1>2 DEF Next, Fail

-----------------------------------------------------------------------------
(* The theorems                                                            *)

LEMMA RepairInv == Spec => []Inv
<1>1. Init => Inv
  BY InitInv
<1>2. Inv /\ [Next]_vars => Inv'
  BY RepairStep
<1> QED BY <1>1, <1>2, PTL DEF Spec

(* The invariant is that of both modules: what is left to write has a      *)
(* place to go to, because an AZ keeps its spare nodes.                    *)
LEMMA InvIsTyped == SerialRepair /\ Inv => TypeOK
<1> SUFFICES ASSUME SerialRepair, Inv PROVE TypeOK
  OBVIOUS
<1>1. ASSUME NEW h \in Handlers
      PROVE  /\ req[h].pc \in {"none", "scan", "plan", "gather", "store", "replied"}
             /\ req[h].todo \subseteq Stripes
             /\ req[h].stripe \in Stripes
             /\ req[h].bad \subseteq req[h].got
             /\ req[h].got \subseteq Blocks(Sch) \ req[h].plan.lost
             /\ req[h].left \subseteq DOMAIN req[h].plan.to
  <2>1. req[h].pc = "store" =>
          Rebuilt(Sch, req[h].plan.lost) \subseteq DOMAIN req[h].plan.to
    BY DEF Inv, AllFit, Fits, Sch
  <2> QED BY <2>1, ReqFacts DEF Pcs
<1> QED BY <1>1 DEF TypeOK, Inv, Shape

(* Every variable has its type, and every block that is rebuilt a node to  *)
(* be written to: generate_repair_plan finds a spare one in the AZ of each *)
(* failed block, whatever has failed and moved before.                     *)
THEOREM TypeCorrect ==
  ASSUME SerialRepair
  PROVE  Spec => []TypeOK
<1>1. Inv => TypeOK
  BY InvIsTyped
<1> QED BY <1>1, RepairInv, PTL

(* Whatever fails and however many handlers rebuild and move blocks at a   *)
(* time, the coordinator names no node that is up for a block that was not *)
(* written there: do_repair records after the RPCs of the proxies return.  *)
THEOREM RecordedHeld == Spec => []RecordedIsHeld
<1>1. Inv => RecordedIsHeld
  BY DEF Inv
<1> QED BY <1>1, RepairInv, PTL

(* Every block stays in the AZ generate_placement put it in, so a stripe   *)
(* that could be decoded without an AZ still can, after any repairs.       *)
THEOREM Tolerant == Spec => []StaysTolerant
<1>1. Inv => StaysTolerant
  BY InvIsTolerant
<1> QED BY <1>1, RepairInv, PTL

(* With one call of requestRepair at a time no two blocks of a stripe ever *)
(* come to lie on one datanode.                                            *)
THEOREM NodesOwned ==
  ASSUME SerialRepair
  PROVE  Spec => []OwnNodes
<1>1. Inv => OwnNodes
  BY DEF Inv
<1> QED BY <1>1, RepairInv, PTL

LEMMA WholeRepair ==
  ASSUME SerialRepair PROVE Spec => [](Inv /\ WholeInv)
<1>1. Init => WholeInv
  BY WholeInit
<1>2. Inv /\ Inv' /\ WholeInv /\ [Next]_vars => WholeInv'
  BY WholeNext
<1> QED BY <1>1, <1>2, RepairInv, PTL DEF Spec

(* Repair writes junk only for a loss it is not made for, or after a read  *)
(* that failed or met junk: whatever jobs a stripe was split into, the     *)
(* blocks and rows generate_repair_plan names are enough to rebuild it.    *)
THEOREM WholeWritten ==
  ASSUME SerialRepair PROVE Spec => WritesWhole
<1>1. Inv /\ WholeInv /\ [Next]_vars => Writes
  BY RepairReplies
<1> QED BY <1>1, WholeRepair, PTL DEF Spec, WritesWhole, Writes

(* When requestRepair returns, no block of a stripe repair is made for is  *)
(* left on a node the call was told of: the jobs of do_repair cover every  *)
(* failed block, and none moves to a node that fails too.                  *)
THEOREM AllRestored ==
  ASSUME SerialRepair PROVE Spec => Restored
<1>1. Inv /\ WholeInv /\ [Next]_vars => Replies
  BY RepairReplies
<1> QED BY <1>1, WholeRepair, PTL DEF Spec, Restored, Replies
=============================================================================
