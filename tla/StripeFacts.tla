---------------------------- MODULE StripeFacts -----------------------------
(* Facts about numbers, orders and the blocks of a stripe that the proofs   *)
(* about placement, repair and update share.                                *)
EXTENDS StripeCode, Ordered, FiniteSetsExt, FiniteSetTheorems, FunctionTheorems,
        WellFoundedInduction, TLAPS

-----------------------------------------------------------------------------
(* Numbers and finite sets of them                                          *)

(* Some number of a set of them is the least.                               *)
LEMMA LeastNumber ==
  ASSUME NEW ns \in SUBSET Nat, ns # {}
  PROVE  \E n \in ns : \A m \in ns : n <= m
<1> DEFINE less == OpToRel(<, Nat)
<1>1. IsWellFoundedOn(less, Nat)
  BY NatLessThanWellFounded
<1> HIDE DEF less
<1>2. PICK n \in ns : \A m \in ns : <<m, n>> \notin less
  BY <1>1, WFMin
<1>3. ASSUME NEW m \in ns PROVE n <= m
  <2>1. m \in Nat /\ n \in Nat
    OBVIOUS
  <2>2. m < n => <<m, n>> \in less
    BY <2>1 DEF less, OpToRel
  <2> QED BY <1>2, <2>1, <2>2
<1> QED BY <1>2, <1>3

(* And some is the greatest, if none is greater than max.                   *)
LEMMA GreatestNumber ==
  ASSUME NEW ns \in SUBSET Nat, ns # {}, NEW max \in Nat, \A n \in ns : n <= max
  PROVE  \E n \in ns : \A m \in ns : m <= n
<1> DEFINE rest == {max - n : n \in ns}
<1>1. rest \in SUBSET Nat /\ rest # {}
  <2>1. \A n \in ns : max - n \in Nat
    OBVIOUS
  <2>2. PICK n \in ns : TRUE
    OBVIOUS
  <2>3. max - n \in rest
    BY <2>2
  <2> QED BY <2>1, <2>3
<1>2. PICK r \in rest : \A s \in rest : r <= s
  BY <1>1, LeastNumber
<1>3. PICK n \in ns : r = max - n
  OBVIOUS
<1>4. ASSUME NEW m \in ns PROVE m <= n
  <2>1. r <= max - m
    BY <1>2
  <2> QED BY <1>3, <2>1
<1> QED BY <1>4

LEMMA MinIsMember ==
  ASSUME NEW ns \in SUBSET Nat, ns # {}
  PROVE  Min(ns) \in ns /\ \A n \in ns : Min(ns) <= n
<1>1. \E n \in ns : \A m \in ns : n <= m
  BY LeastNumber
<1> QED BY <1>1 DEF Min

LEMMA MaxIsMember ==
  ASSUME NEW ns \in SUBSET Nat, ns # {}, NEW bound \in Nat, \A n \in ns : n <= bound
  PROVE  Max(ns) \in ns /\ \A n \in ns : n <= Max(ns)
<1>1. \E n \in ns : \A m \in ns : m <= n
  BY GreatestNumber
<1>2. \E n \in ns : \A m \in ns : n >= m
  BY <1>1
<1>3. Max(ns) \in ns /\ \A m \in ns : Max(ns) >= m
  BY <1>2 DEF Max
<1> QED BY <1>3

(* Of a set of numbers, two have different numbers of members below them.  *)
LEMMA RanksDiffer ==
  ASSUME NEW xs, IsFiniteSet(xs), xs \subseteq Int,
         NEW x \in xs, NEW y \in xs,
         Cardinality({z \in xs : z < x}) = Cardinality({z \in xs : z < y})
  PROVE  x = y
<1> DEFINE below(u) == {z \in xs : z < u}
<1>1. ASSUME NEW u \in xs, NEW v \in xs, u < v
      PROVE  Cardinality(below(u)) # Cardinality(below(v))
  <2>1. u \in below(v) /\ u \notin below(u)
    BY <1>1
  <2>2. \A z \in below(u) : z \in below(v)
    BY <1>1
  <2>3. below(v) \in SUBSET xs
    OBVIOUS
  <2>4. IsFiniteSet(below(v))
    BY <2>3, FS_Subset
  <2> HIDE DEF below
  <2>5. below(u) \in SUBSET below(v) /\ below(u) # below(v)
    BY <2>1, <2>2
  <2> QED BY <2>4, <2>5, FS_Subset
<1>2. Cardinality(below(x)) = Cardinality(below(y))
  OBVIOUS
<1> HIDE DEF below
<1>3. x \in Int /\ y \in Int
  OBVIOUS
<1> QED BY <1>1, <1>2, <1>3
-----------------------------------------------------------------------------
(* The blocks of a stripe and its groups                                    *)

LEMMA BlocksAreNumbers ==
  ASSUME NEW sch, IsScheme(sch)
  PROVE  /\ IsFiniteSet(Blocks(sch)) /\ Blocks(sch) \subseteq Nat
         /\ Size(sch) \in Nat /\ sch.k + sch.g <= Size(sch)
<1>1. Size(sch) \in Nat /\ sch.k + sch.g <= Size(sch)
  BY DEF IsScheme, Size
<1> QED BY <1>1, FS_Interval DEF Blocks

(* Group x \div b of a data block is one of the l groups.                  *)
LEMMA GroupOfData ==
  ASSUME NEW sch, IsScheme(sch), NEW x \in 0..(sch.k - 1)
  PROVE  x \div sch.b \in 0..(sch.l - 1)
<1> DEFINE k == sch.k
           l == sch.l
           b == sch.b
           i == x \div b
<1>1. k \in Nat /\ l \in Nat \ {0} /\ b \in Nat \ {0} /\ b = (k + l - 1) \div l
  BY DEF IsScheme
<1> HIDE DEF k, l, b
<1>2. k + l - 1 < l * b + l
  BY <1>1
<1>3. i \in Nat /\ b * i <= x
  BY <1>1
<1> HIDE DEF i
<1>4. b * i < b * l
  <2>1. x < k
    BY <1>1 DEF k
  <2>2. k <= l * b
    <3> DEFINE p == l * b
    <3>1. p \in Nat
      BY <1>1
    <3>2. k + l - 1 < p + l
      BY <1>2
    <3> HIDE DEF p
    <3>3. k <= p
      BY <1>1, <3>1, <3>2
    <3> QED BY <3>3 DEF p
  <2>3. l * b = b * l /\ b * l \in Nat /\ b * i \in Nat
    BY <1>1, <1>3
  <2> QED BY <1>1, <1>3, <2>1, <2>2, <2>3
<1>5. i < l
  <2>1. l <= i => b * l <= b * i
    BY <1>1, <1>3
  <2> QED BY <1>1, <1>3, <1>4, <2>1
<1> QED BY <1>1, <1>3, <1>5 DEF i, l, b

(* The global parities OPPO_LRC deals out before group i.                  *)
LEMMA DealtInTurn ==
  ASSUME NEW sch, IsScheme(sch)
  PROVE  /\ DealtBefore(sch, 0) = 0
         /\ DealtBefore(sch, sch.l) = sch.g
         /\ \A i \in Nat : /\ DealtBefore(sch, i) \in Nat /\ Dealt(sch, i) \in Nat
                           /\ DealtBefore(sch, i) <= sch.g
                           /\ DealtBefore(sch, i + 1) = DealtBefore(sch, i) + Dealt(sch, i)
<1> DEFINE all == 0..(sch.g - 1)
           before(i) == {j \in all : j % sch.l < i}
           of(i) == {j \in all : j % sch.l = i}
<1>1. sch.g \in Nat /\ sch.l \in Nat \ {0}
  BY DEF IsScheme
<1>2. IsFiniteSet(all) /\ Cardinality(all) = sch.g
  <2> DEFINE last == sch.g - 1
  <2>1. last \in Int /\ sch.g = (IF 0 > last THEN 0 ELSE last - 0 + 1)
    BY <1>1
  <2> HIDE DEF last
  <2>2. IsFiniteSet(0..last) /\ Cardinality(0..last) = sch.g
    BY <2>1, FS_Interval
  <2> QED BY <2>2 DEF last
<1>3. \A j \in all : j % sch.l \in 0..(sch.l - 1)
  BY <1>1
<1>4. \A i : DealtBefore(sch, i) = Cardinality(before(i)) /\ Dealt(sch, i) = Cardinality(of(i))
  BY DEF DealtBefore, Dealt
<1>5. before(0) = {} /\ before(sch.l) = all
  BY <1>1, <1>3
<1>6. ASSUME NEW i \in Nat
      PROVE  /\ before(i) \in SUBSET all /\ of(i) \in SUBSET all
             /\ before(i + 1) = before(i) \cup of(i)
             /\ before(i) \cap of(i) = {}
  BY <1>1, <1>3
<1> HIDE DEF all, before, of
<1>7. ASSUME NEW i \in Nat
      PROVE  /\ Cardinality(before(i)) \in Nat /\ Cardinality(of(i)) \in Nat
             /\ Cardinality(before(i)) <= sch.g
             /\ Cardinality(before(i + 1)) = Cardinality(before(i)) + Cardinality(of(i))
  <2>1. /\ IsFiniteSet(before(i)) /\ IsFiniteSet(of(i))
        /\ Cardinality(before(i)) <= sch.g
    BY <1>2, <1>6, FS_Subset
  <2>2. Cardinality(before(i)) \in Nat /\ Cardinality(of(i)) \in Nat
    BY <2>1, FS_CardinalityType
  <2>3. Cardinality(before(i) \cup of(i))
          = Cardinality(before(i)) + Cardinality(of(i)) - Cardinality(before(i) \cap of(i))
    BY <2>1, FS_Union
  <2>4. Cardinality(before(i) \cap of(i)) = 0
    BY <1>6, FS_EmptySet
  <2>5. Cardinality(before(i + 1)) = Cardinality(before(i) \cup of(i))
    BY <1>6
  <2> QED BY <2>1, <2>2, <2>3, <2>4, <2>5
<1> QED BY <1>2, <1>4, <1>5, <1>7, FS_EmptySet

(* The local groups                                                        *)

LEMMA GroupOfGlobal ==
  ASSUME NEW sch, IsScheme(sch), NEW x \in Globals(sch)
  PROVE  \E i \in 0..(sch.l - 1) : x \in GlobalsOf(sch, i)
<1> DEFINE j == x - sch.k
           from(i) == DealtBefore(sch, i)
           is == {i \in 0..(sch.l - 1) : from(i) <= j}
<1>1. sch.k \in Nat /\ sch.g \in Nat /\ sch.l \in Nat \ {0}
  BY DEF IsScheme
<1>2. x \in Nat /\ j \in Nat /\ j < sch.g /\ x = sch.k + j
  BY <1>1 DEF Globals
<1>3. 0 \in is /\ is \in SUBSET Nat /\ \A i \in is : i <= sch.l - 1
  BY <1>1, <1>2, DealtInTurn
<1>4. PICK i \in is : \A m \in is : m <= i
  <2> DEFINE last == sch.l - 1
  <2>1. last \in Nat /\ \A i \in is : i <= last
    BY <1>1
  <2>2. is \in SUBSET Nat /\ is # {}
    BY <1>3
  <2> HIDE DEF is, last
  <2> QED BY <2>1, <2>2, GreatestNumber
<1>5. i \in Nat /\ i \in 0..(sch.l - 1) /\ from(i) <= j
  BY <1>1
<1>6. /\ from(i) \in Nat /\ Dealt(sch, i) \in Nat
      /\ from(i + 1) \in Nat /\ from(i + 1) = from(i) + Dealt(sch, i)
      /\ from(sch.l) = sch.g
  BY <1>1, <1>5, DealtInTurn
<1>7. j < from(i + 1)
  <2>1. CASE i = sch.l - 1
    BY <1>1, <1>2, <1>6, <2>1
  <2>2. CASE i # sch.l - 1
    <3>1. i + 1 \in 0..(sch.l - 1) /\ i + 1 \notin is
      BY <1>1, <1>4, <1>5, <2>2
    <3> QED BY <1>2, <1>6, <3>1
  <2> QED BY <2>1, <2>2
<1> HIDE DEF j, is
<1>8. j - from(i) \in 0..(Dealt(sch, i) - 1) /\ x = sch.k + from(i) + (j - from(i))
  BY <1>1, <1>2, <1>5, <1>6, <1>7
<1> QED BY <1>5, <1>8 DEF GlobalsOf

LEMMA MembersAreBlocks ==
  ASSUME NEW sch, IsScheme(sch), sch.code # "RS", NEW i \in Groups(sch)
  PROVE  Members(sch, i) \subseteq Blocks(sch)
<1>1. /\ {sch.k, sch.l, sch.g} \subseteq Nat \ {0}
      /\ sch.code \in {"OPPO_LRC", "Azure_LRC_1"}
  BY DEF IsScheme
<1>2. i \in Nat /\ i <= sch.l
  BY <1>1 DEF Groups
<1>3. sch.code = "OPPO_LRC" => i < sch.l /\ Size(sch) = sch.k + sch.g + sch.l
  BY <1>1 DEF Groups, Size
<1>4. sch.code = "Azure_LRC_1" => Size(sch) = sch.k + sch.g + sch.l + 1
  BY <1>1 DEF Size
<1>5. DataOf(sch, i) \subseteq Blocks(sch) /\ Globals(sch) \subseteq Blocks(sch)
  BY <1>1, <1>3, <1>4 DEF DataOf, Globals, Blocks
<1>6. LocalOf(sch, i) \in Blocks(sch)
  BY <1>1, <1>2, <1>3, <1>4 DEF LocalOf, Blocks
<1>7. GlobalsOf(sch, i) \subseteq Globals(sch)
  <2> DEFINE from == DealtBefore(sch, i)
             n == Dealt(sch, i)
  <2>1. from \in Nat /\ n \in Nat /\ from + n <= sch.g
    <3>1. i + 1 \in Nat
      BY <1>2
    <3> QED BY <1>2, <3>1, DealtInTurn
  <2> HIDE DEF from, n
  <2>2. \A j \in 0..(n - 1) : sch.k + from + j \in Globals(sch)
    BY <1>1, <2>1 DEF Globals
  <2> QED BY <2>2 DEF GlobalsOf, from, n
<1> QED BY <1>1, <1>2, <1>5, <1>6, <1>7 DEF Members

(* What group i is dealt comes before what a later one is dealt.           *)
LEMMA DealtApart ==
  ASSUME NEW sch, IsScheme(sch), NEW i \in Nat, NEW j \in Nat, i < j
  PROVE  DealtBefore(sch, i) + Dealt(sch, i) <= DealtBefore(sch, j)
<1> DEFINE all == 0..(sch.g - 1)
           next == {m \in all : m % sch.l < i + 1}
           later == {m \in all : m % sch.l < j}
<1>1. DealtBefore(sch, i) + Dealt(sch, i) = DealtBefore(sch, i + 1)
  BY DealtInTurn
<1>2. sch.l \in Nat \ {0} /\ sch.g \in Nat
  BY DEF IsScheme
<1>3. \A m \in all : m % sch.l \in Int
  BY <1>2
<1>4. next \in SUBSET later /\ later \in SUBSET all
  BY <1>3
<1>5. IsFiniteSet(all)
  BY <1>2, FS_Interval
<1>6. DealtBefore(sch, i + 1) = Cardinality(next) /\ DealtBefore(sch, j) = Cardinality(later)
  BY DEF DealtBefore
<1> HIDE DEF all, next, later
<1> QED BY <1>1, <1>4, <1>5, <1>6, FS_Subset

(* No block is in two groups.                                              *)
LEMMA OneGroup ==
  ASSUME NEW sch, IsScheme(sch), sch.code # "RS", NEW i \in Groups(sch), NEW j \in Groups(sch),
         NEW x, x \in Members(sch, i), x \in Members(sch, j)
  PROVE  i = j
<1>1. /\ sch.k \in Nat /\ sch.l \in Nat /\ sch.g \in Nat /\ sch.b \in Nat \ {0}
      /\ sch.code \in {"OPPO_LRC", "Azure_LRC_1"}
  BY DEF IsScheme
<1>2. i \in Nat /\ j \in Nat
  BY <1>1 DEF Groups
<1>3. \A m \in Nat :
        /\ \A y \in DataOf(sch, m) : y \in Int /\ y < sch.k /\ y \div sch.b = m
        /\ LocalOf(sch, m) = sch.k + sch.g + m
  BY <1>1 DEF DataOf, LocalOf
<1>4. CASE sch.code = "OPPO_LRC"
  <2>1. \A m \in Nat : \A y \in GlobalsOf(sch, m) :
          /\ y \in Int /\ sch.k <= y /\ y < sch.k + sch.g
          /\ sch.k + DealtBefore(sch, m) <= y
          /\ y < sch.k + DealtBefore(sch, m) + Dealt(sch, m)
    <3> SUFFICES ASSUME NEW m \in Nat, NEW y \in GlobalsOf(sch, m)
                 PROVE  /\ y \in Int /\ sch.k <= y /\ y < sch.k + sch.g
                        /\ sch.k + DealtBefore(sch, m) <= y
                        /\ y < sch.k + DealtBefore(sch, m) + Dealt(sch, m)
      OBVIOUS
    <3>1. /\ DealtBefore(sch, m) \in Nat /\ Dealt(sch, m) \in Nat
          /\ DealtBefore(sch, m) + Dealt(sch, m) <= sch.g
      <4>1. m + 1 \in Nat
        OBVIOUS
      <4> QED BY <4>1, DealtInTurn
    <3>2. PICK n \in 0..(Dealt(sch, m) - 1) : y = sch.k + DealtBefore(sch, m) + n
      BY DEF GlobalsOf
    <3> QED BY <1>1, <3>1, <3>2
  <2>2. \A m \in {i, j} : x \in DataOf(sch, m) \/ x \in GlobalsOf(sch, m) \/ x = LocalOf(sch, m)
    BY <1>4 DEF Members
  <2>3. ASSUME x \in GlobalsOf(sch, i), x \in GlobalsOf(sch, j) PROVE i = j
    <3>1. /\ DealtBefore(sch, i) \in Nat /\ Dealt(sch, i) \in Nat
          /\ DealtBefore(sch, j) \in Nat /\ Dealt(sch, j) \in Nat
      BY <1>2, DealtInTurn
    <3>2. i < j => DealtBefore(sch, i) + Dealt(sch, i) <= DealtBefore(sch, j)
      BY <1>2, DealtApart
    <3>3. j < i => DealtBefore(sch, j) + Dealt(sch, j) <= DealtBefore(sch, i)
      BY <1>2, DealtApart
    <3> QED BY <1>1, <1>2, <2>1, <2>3, <3>1, <3>2, <3>3
  <2> QED BY <1>1, <1>2, <1>3, <2>1, <2>2, <2>3
<1>5. CASE sch.code = "Azure_LRC_1"
  <2>1. \A m \in {i, j} :
          /\ m <= sch.l
          /\ IF m = sch.l THEN x \in Globals(sch) \/ x = LocalOf(sch, m)
                         ELSE x \in DataOf(sch, m) \/ x = LocalOf(sch, m)
    BY <1>1, <1>5 DEF Members, Groups
  <2>2. x \in Globals(sch) => x \in Int /\ sch.k <= x /\ x < sch.k + sch.g
    BY <1>1 DEF Globals
  <2> QED BY <1>1, <1>2, <1>3, <2>1, <2>2
<1> QED BY <1>1, <1>4, <1>5

(* Division, on the side of the products.                                  *)
LEMMA Quotient ==
  ASSUME NEW x \in Nat, NEW n \in Nat \ {0}
  PROVE  /\ x \div n \in Nat
         /\ n * (x \div n) <= x /\ x < n * (x \div n) + n
OBVIOUS

LEMMA QuotientIs ==
  ASSUME NEW x \in Nat, NEW n \in Nat \ {0}, NEW i \in Nat, n * i <= x, x < n * i + n
  PROVE  x \div n = i
OBVIOUS

LEMMA Products ==
  ASSUME NEW n \in Nat, NEW i \in Nat, NEW j \in Nat, i <= j
  PROVE  n * i \in Nat /\ n * j \in Nat /\ n * i <= n * j
OBVIOUS

LEMMA QuotientGrows ==
  ASSUME NEW x \in Nat, NEW y \in Nat, NEW n \in Nat \ {0}, x <= y
  PROVE  x \div n <= y \div n
OBVIOUS

LEMMA BlockInGroup ==
  ASSUME NEW sch, IsScheme(sch), sch.code # "RS", NEW x \in Blocks(sch)
  PROVE  \E i \in Groups(sch) : x \in Members(sch, i)
<1>1. /\ {sch.k, sch.l, sch.g} \subseteq Nat \ {0}
      /\ sch.code \in {"OPPO_LRC", "Azure_LRC_1"}
  BY DEF IsScheme
<1>2. x \in Nat /\ x < Size(sch)
  BY BlocksAreNumbers DEF Blocks
<1> DEFINE n == sch.k + sch.g
<1>3. CASE x < sch.k
  <2>1. x \div sch.b \in 0..(sch.l - 1)
    BY <1>1, <1>2, <1>3, GroupOfData
  <2>2. x \in DataOf(sch, x \div sch.b)
    BY <1>1, <1>2, <1>3 DEF DataOf
  <2> HIDE DEF n
  <2> QED BY <1>1, <2>1, <2>2 DEF Groups, Members
<1>4. CASE x >= sch.k /\ x < n
  <2>1. x \in Globals(sch)
    BY <1>1, <1>2, <1>4 DEF Globals
  <2>2. CASE sch.code = "OPPO_LRC"
    BY <2>1, <2>2, GroupOfGlobal DEF Groups, Members
  <2>3. CASE sch.code = "Azure_LRC_1"
    <3>1. sch.l \in Groups(sch)
      BY <1>1, <2>3 DEF Groups
    <3>2. Members(sch, sch.l) = Globals(sch) \cup {LocalOf(sch, sch.l)}
      BY <1>1, <2>3 DEF Members
    <3> QED BY <2>1, <3>1, <3>2
  <2> QED BY <1>1, <2>2, <2>3
<1>5. CASE x >= n
  <2> DEFINE i == x - n
  <2>1. i \in Groups(sch)
    BY <1>1, <1>2, <1>5 DEF Groups, Size
  <2>2. x = LocalOf(sch, i)
    BY <1>1, <1>2 DEF LocalOf
  <2>3. LocalOf(sch, i) \in Members(sch, i)
    <3> HIDE DEF i
    <3> QED BY <1>1, <2>1 DEF Members, Groups
  <2> QED BY <2>1, <2>2, <2>3
<1> QED BY <1>1, <1>2, <1>3, <1>4, <1>5

-----------------------------------------------------------------------------
(* What can be had back                                                    *)

LEMMA TouchedFacts ==
  ASSUME NEW sch, IsScheme(sch), NEW lost
  PROVE  /\ IsFiniteSet(Groups(sch)) /\ IsFiniteSet(Touched(sch, lost))
         /\ Cardinality(Touched(sch, lost)) \in Nat
         /\ \A some \in SUBSET Groups(sch) : IsFiniteSet(some)
<1>1. sch.l \in Nat /\ sch.code \in {"RS", "OPPO_LRC", "Azure_LRC_1"}
  BY DEF IsScheme
<1>2. IsFiniteSet(Groups(sch))
  <2>1. sch.l - 1 \in Int
    BY <1>1
  <2>2. IsFiniteSet(0..(sch.l - 1))
    BY <2>1, FS_Interval
  <2>3. IsFiniteSet(0..sch.l)
    BY <1>1, FS_Interval
  <2>4. IsFiniteSet({})
    BY FS_EmptySet
  <2> QED BY <1>1, <2>2, <2>3, <2>4 DEF Groups
<1>3. Touched(sch, lost) \in SUBSET Groups(sch)
  BY DEF Touched
<1> QED BY <1>2, <1>3, FS_Subset, FS_CardinalityType

(* Up to g blocks, and the local parities of any groups.                   *)
LEMMA FewAndLocals ==
  ASSUME NEW sch, IsScheme(sch), sch.code # "RS", NEW lost, NEW few,
         IsFiniteSet(few), Cardinality(few) <= sch.g,
         lost \subseteq few \cup {LocalOf(sch, i) : i \in Groups(sch)}
  PROVE  Recoverable(sch, lost)
<1> DEFINE locals == {x \in lost : \E i \in Groups(sch) : x = LocalOf(sch, i)}
           touched == Touched(sch, lost)
           f == [x \in locals |-> x - (sch.k + sch.g)]
<1>1. /\ sch.k \in Nat /\ sch.l \in Nat /\ sch.g \in Nat
      /\ sch.code \in {"OPPO_LRC", "Azure_LRC_1"}
  BY DEF IsScheme
<1>2. \A i \in Groups(sch) : i \in Nat /\ LocalOf(sch, i) = i + (sch.k + sch.g)
                            /\ LocalOf(sch, i) \in Members(sch, i)
  BY <1>1 DEF Groups, LocalOf, Members
<1>3. f \in Injection(locals, touched)
  <2>1. \A x \in locals : f[x] \in touched /\ x = f[x] + (sch.k + sch.g)
    BY <1>1, <1>2 DEF Touched
  <2> HIDE DEF touched
  <2>2. f \in [locals -> touched]
    BY <2>1
  <2> HIDE DEF f, locals
  <2>3. \A x, y \in locals : f[x] = f[y] => x = y
    BY <2>1
  <2> QED BY <2>2, <2>3 DEF Injection, IsInjective
<1>4. IsFiniteSet(touched) /\ Cardinality(touched) \in Nat
  BY TouchedFacts
<1>5. lost \in SUBSET (few \cup locals)
  OBVIOUS
<1> HIDE DEF f, locals, touched
<1>6. IsFiniteSet(locals) /\ Cardinality(locals) <= Cardinality(touched)
  BY <1>3, <1>4, FS_Injection
<1>7. /\ IsFiniteSet(few \cup locals)
      /\ Cardinality(few \cup locals) <= Cardinality(few) + Cardinality(locals)
      /\ Cardinality(few) \in Nat /\ Cardinality(locals) \in Nat
      /\ Cardinality(few \cup locals) \in Nat
  <2>1. few \cap locals \in SUBSET few
    OBVIOUS
  <2>2. IsFiniteSet(few \cap locals)
    BY <2>1, FS_Subset
  <2>3. /\ Cardinality(few) \in Nat /\ Cardinality(locals) \in Nat
        /\ Cardinality(few \cap locals) \in Nat
    BY <1>6, <2>2, FS_CardinalityType
  <2>4. /\ IsFiniteSet(few \cup locals)
        /\ Cardinality(few \cup locals)
             = Cardinality(few) + Cardinality(locals) - Cardinality(few \cap locals)
    BY <1>6, FS_Union
  <2>5. Cardinality(few \cup locals) \in Nat
    BY <2>4, FS_CardinalityType
  <2> QED BY <2>3, <2>4, <2>5
<1>8. Cardinality(lost) <= Cardinality(few \cup locals) /\ Cardinality(lost) \in Nat
  BY <1>5, <1>7, FS_Subset, FS_CardinalityType
<1> QED BY <1>1, <1>4, <1>6, <1>7, <1>8 DEF Recoverable, touched

(* One block more than the global parities make up for.                    *)
LEMMA OneOver ==
  ASSUME NEW sch, IsScheme(sch), sch.code # "RS", NEW lost \in SUBSET Blocks(sch),
         Cardinality(lost) <= sch.g + 1
  PROVE  Recoverable(sch, lost)
<1>1. sch.g \in Nat /\ IsFiniteSet(lost) /\ Cardinality(lost) \in Nat
  BY BlocksAreNumbers, FS_Subset, FS_CardinalityType DEF IsScheme
<1>2. CASE lost = {}
  BY <1>1, <1>2, TouchedFacts, FS_EmptySet DEF Recoverable
<1>3. CASE lost # {}
  <2>1. Touched(sch, lost) # {}
    BY <1>3, BlockInGroup DEF Touched
  <2>2. Cardinality(Touched(sch, lost)) \in Nat /\ Cardinality(Touched(sch, lost)) # 0
    BY <2>1, TouchedFacts, FS_EmptySet
  <2> QED BY <1>1, <2>2 DEF Recoverable
<1> QED BY <1>2, <1>3

(* Another block, of a group that has lost none.                           *)
LEMMA AnotherGroup ==
  ASSUME NEW sch, IsScheme(sch), NEW lost \in SUBSET Blocks(sch), Recoverable(sch, lost),
         NEW i \in Groups(sch), i \notin Touched(sch, lost), NEW x \in Members(sch, i)
  PROVE  Recoverable(sch, lost \cup {x})
<1> DEFINE before == Touched(sch, lost)
           after == Touched(sch, lost \cup {x})
<1>1. sch.g \in Nat /\ IsFiniteSet(lost) /\ Cardinality(lost) \in Nat
  BY BlocksAreNumbers, FS_Subset, FS_CardinalityType DEF IsScheme
<1>2. before \cup {i} \in SUBSET after
  BY DEF Touched
<1>3. IsFiniteSet(before) /\ IsFiniteSet(after) /\ Cardinality(before) \in Nat
      /\ Cardinality(after) \in Nat
  BY TouchedFacts
<1> HIDE DEF before, after
<1>4. Cardinality(before) + 1 <= Cardinality(after)
  <2>1. Cardinality(before \cup {i}) = Cardinality(before) + 1
    BY <1>3, FS_AddElement DEF before
  <2> QED BY <1>2, <1>3, <2>1, FS_Subset
<1>5. Cardinality(lost \cup {x}) <= Cardinality(lost) + 1 /\ Cardinality(lost \cup {x}) \in Nat
  <2>1. /\ IsFiniteSet(lost \cup {x})
        /\ Cardinality(lost \cup {x})
             = IF x \in lost THEN Cardinality(lost) ELSE Cardinality(lost) + 1
    BY <1>1, FS_AddElement
  <2> QED BY <1>1, <2>1
<1> QED BY <1>1, <1>3, <1>4, <1>5 DEF Recoverable, before, after

-----------------------------------------------------------------------------
(* Orders                                                                  *)

IsOrder(xs, less) ==
  /\ \A x \in xs : <<x, x>> \notin less
  /\ \A x, y, z \in xs : <<x, y>> \in less /\ <<y, z>> \in less => <<x, z>> \in less
  /\ \A x, y \in xs : x # y => <<x, y>> \in less \/ <<y, x>> \in less

(* The rank of a member is the number of those before it: two members have *)
(* two ranks, and every rank is taken.                                     *)
LEMMA Ranks ==
  ASSUME NEW xs, IsFiniteSet(xs), NEW less, IsOrder(xs, less)
  PROVE  LET n == Cardinality(xs)
             rank(x) == Cardinality(Before(xs, less, x))
         IN /\ n \in Nat
            /\ \A x \in xs : rank(x) \in 0..(n - 1)
            /\ \A x, y \in xs : rank(x) = rank(y) => x = y
            /\ \A r \in 0..(n - 1) : \E x \in xs : rank(x) = r
<1> DEFINE n == Cardinality(xs)
           rank == [x \in xs |-> Cardinality(Before(xs, less, x))]
           ranks == 0..(n - 1)
<1>1. n \in Nat
  BY FS_CardinalityType
<1>2. ASSUME NEW x \in xs PROVE rank[x] \in ranks
  <2>1. Before(xs, less, x) \in SUBSET xs /\ x \notin Before(xs, less, x)
    BY DEF Before, IsOrder
  <2>2. /\ IsFiniteSet(Before(xs, less, x))
        /\ Cardinality(Before(xs, less, x)) <= n
        /\ Cardinality(Before(xs, less, x)) # n
    BY <2>1, FS_Subset
  <2>3. Cardinality(Before(xs, less, x)) \in Nat
    BY <2>2, FS_CardinalityType
  <2> HIDE DEF n
  <2> QED BY <1>1, <2>2, <2>3
<1>3. ASSUME NEW x \in xs, NEW y \in xs, <<x, y>> \in less
      PROVE  rank[x] # rank[y]
  <2>1. Before(xs, less, x) \in SUBSET Before(xs, less, y)
    BY <1>3 DEF Before, IsOrder
  <2>2. x \in Before(xs, less, y) /\ x \notin Before(xs, less, x)
    BY <1>3 DEF Before, IsOrder
  <2>3. IsFiniteSet(Before(xs, less, y))
    <3>1. Before(xs, less, y) \in SUBSET xs
      BY DEF Before
    <3> QED BY <3>1, FS_Subset
  <2>4. Cardinality(Before(xs, less, y)) # Cardinality(Before(xs, less, x))
    BY <2>1, <2>2, <2>3, FS_Subset
  <2> QED BY <2>4
<1>4. \A x, y \in xs : rank[x] = rank[y] => x = y
  BY <1>3 DEF IsOrder
<1>5. IsFiniteSet(ranks) /\ Cardinality(ranks) = n
  <2> HIDE DEF n
  <2> QED BY <1>1, FS_Interval
<1>6. rank \in Injection(xs, ranks)
  <2>1. rank \in [xs -> ranks]
    BY <1>2
  <2> HIDE DEF rank, ranks
  <2> QED BY <2>1, <1>4, Fun_IsInj
<1>7. rank \in Surjection(xs, ranks)
  <2> HIDE DEF rank, ranks
  <2> QED BY <1>5, <1>6, FS_Injection
<1>8. \A r \in ranks : \E x \in xs : rank[x] = r
  <2> HIDE DEF rank, ranks
  <2> QED BY <1>7, Fun_SurjectionProperties
<1> QED BY <1>1, <1>2, <1>4, <1>8

(* What comes at a place is the member of that rank.                       *)
LEMMA Sorted ==
  ASSUME NEW xs, IsFiniteSet(xs), NEW less, IsOrder(xs, less)
  PROVE  LET seq == SortedBy(xs, less) IN
         /\ seq \in [1..Cardinality(xs) -> xs]
         /\ \A i \in 1..Cardinality(xs) : Cardinality(Before(xs, less, seq[i])) = i - 1
<1> DEFINE n == Cardinality(xs)
           is(x, i) == Cardinality(Before(xs, less, x)) = i - 1
           at(i) == CHOOSE x \in xs : is(x, i)
<1>1. n \in Nat
  BY FS_CardinalityType
<1>2. ASSUME NEW i \in 1..n PROVE at(i) \in xs /\ is(at(i), i)
  <2>1. i - 1 \in 0..(n - 1)
    <3> HIDE DEF n
    <3> QED BY <1>1
  <2>2. \E x \in xs : is(x, i)
    BY <2>1, Ranks
  <2> HIDE DEF is
  <2> QED BY <2>2
<1>3. SortedBy(xs, less) = [i \in 1..n |-> at(i)]
  BY DEF SortedBy
<1> HIDE DEF at
<1>4. /\ SortedBy(xs, less) \in [1..n -> xs]
      /\ \A i \in 1..n : is(SortedBy(xs, less)[i], i)
  <2> HIDE DEF is, n
  <2> QED BY <1>2, <1>3
<1> QED BY <1>4

(* Every member is somewhere in the order, and at one place only.          *)
LEMMA SortedHasAll ==
  ASSUME NEW xs, IsFiniteSet(xs), NEW less, IsOrder(xs, less)
  PROVE  LET seq == SortedBy(xs, less)
             n == Cardinality(xs)
         IN /\ \A x \in xs : \E i \in 1..n : seq[i] = x
            /\ \A i, j \in 1..n : seq[i] = seq[j] => i = j
<1> DEFINE n == Cardinality(xs)
           seq == SortedBy(xs, less)
           rank(x) == Cardinality(Before(xs, less, x))
<1>1. /\ n \in Nat /\ \A x \in xs : rank(x) \in 0..(n - 1)
      /\ \A x, y \in xs : rank(x) = rank(y) => x = y
  BY Ranks
<1>2. seq \in [1..n -> xs] /\ \A i \in 1..n : rank(seq[i]) = i - 1
  BY Sorted
<1> HIDE DEF n, seq, rank
<1>3. ASSUME NEW x \in xs PROVE \E i \in 1..n : seq[i] = x
  <2>1. rank(x) + 1 \in 1..n /\ rank(seq[rank(x) + 1]) = rank(x)
    BY <1>1, <1>2
  <2> QED BY <1>1, <1>2, <2>1
<1>4. ASSUME NEW i \in 1..n, NEW j \in 1..n, seq[i] = seq[j] PROVE i = j
  BY <1>1, <1>2, <1>4
<1> QED BY <1>3, <1>4 DEF n, seq

LEMMA NumbersOrdered ==
  ASSUME NEW xs, IsFiniteSet(xs), xs \subseteq Int
  PROVE  LET seq == Ascending(xs)
             n == Cardinality(xs)
         IN /\ n \in Nat /\ seq \in [1..n -> xs]
            /\ \A i \in 1..n : Cardinality({y \in xs : y < seq[i]}) = i - 1
            /\ \A x \in xs : \E i \in 1..n : seq[i] = x
            /\ \A i, j \in 1..n : seq[i] = seq[j] => i = j
<1> DEFINE less == {p \in xs \X xs : p[1] < p[2]}
           seq == Ascending(xs)
           n == Cardinality(xs)
<1>1. \A x, y \in xs : <<x, y>> \in less <=> x < y
  OBVIOUS
<1>2. seq = SortedBy(xs, less)
  BY DEF Ascending
<1> HIDE DEF less, seq
<1>3. IsOrder(xs, less)
  BY <1>1 DEF IsOrder
<1>4. \A x \in xs : Before(xs, less, x) = {y \in xs : y < x}
  BY <1>1 DEF Before
<1>5. n \in Nat /\ seq \in [1..n -> xs]
  BY <1>2, <1>3, Sorted, FS_CardinalityType
<1>6. \A i \in 1..n : Cardinality(Before(xs, less, seq[i])) = i - 1
  BY <1>2, <1>3, Sorted
<1>7. /\ \A x \in xs : \E i \in 1..n : seq[i] = x
      /\ \A i, j \in 1..n : seq[i] = seq[j] => i = j
  BY <1>2, <1>3, SortedHasAll
<1> HIDE DEF n
<1>8. \A i \in 1..n : Cardinality({y \in xs : y < seq[i]}) = i - 1
  BY <1>4, <1>5, <1>6
<1> QED BY <1>5, <1>7, <1>8 DEF seq, n

LEMMA AscendingGrows ==
  ASSUME NEW xs, IsFiniteSet(xs), xs \subseteq Int,
         NEW i \in 1..Cardinality(xs), NEW j \in 1..Cardinality(xs)
  PROVE  i < j <=> Ascending(xs)[i] < Ascending(xs)[j]
<1> DEFINE seq == Ascending(xs)
           n == Cardinality(xs)
           below(x) == {y \in xs : y < x}
<1>1. /\ n \in Nat /\ seq \in [1..n -> xs]
      /\ \A m \in 1..n : Cardinality(below(seq[m])) = m - 1
      /\ \A m1, m2 \in 1..n : seq[m1] = seq[m2] => m1 = m2
  BY NumbersOrdered
<1> HIDE DEF seq, n
<1>2. ASSUME NEW m1 \in 1..n, NEW m2 \in 1..n, seq[m1] < seq[m2] PROVE m1 < m2
  <2>1. seq[m1] \in xs /\ seq[m2] \in xs /\ seq[m1] \in Int /\ seq[m2] \in Int
    BY <1>1
  <2>2. below(seq[m1]) \in SUBSET below(seq[m2])
    <3> DEFINE a == seq[m1]
               b == seq[m2]
    <3>1. a \in Int /\ b \in Int /\ a < b
      BY <1>2, <2>1
    <3> HIDE DEF a, b
    <3>2. \A y \in below(a) : y \in below(b)
      BY <3>1
    <3> HIDE DEF below
    <3> QED BY <3>2 DEF a, b
  <2>3. seq[m1] \in below(seq[m2]) /\ seq[m1] \notin below(seq[m1])
    BY <1>2, <2>1
  <2>4. below(seq[m2]) \in SUBSET xs
    OBVIOUS
  <2>5. IsFiniteSet(below(seq[m2]))
    BY <2>4, FS_Subset
  <2> HIDE DEF below
  <2>6. /\ Cardinality(below(seq[m1])) <= Cardinality(below(seq[m2]))
        /\ Cardinality(below(seq[m1])) # Cardinality(below(seq[m2]))
    BY <2>2, <2>3, <2>5, FS_Subset
  <2> QED BY <1>1, <2>6
<1>3. seq[i] \in Int /\ seq[j] \in Int /\ i \in 1..n /\ j \in 1..n
  BY <1>1 DEF n
<1>4. CASE seq[i] < seq[j]
  BY <1>2, <1>3, <1>4 DEF seq
<1>5. CASE seq[j] < seq[i]
  BY <1>2, <1>3, <1>5 DEF seq
<1>6. CASE seq[i] = seq[j]
  BY <1>1, <1>3, <1>6 DEF seq
<1> QED BY <1>3, <1>4, <1>5, <1>6

(* Picking from a list.                                                    *)
LEMMA Picked ==
  ASSUME NEW S, NEW seq \in Seq(S), NEW places \in SUBSET (DOMAIN seq)
  PROVE  LET picked == Pick(seq, places) IN
         /\ picked \in Seq(S) /\ Len(picked) = Cardinality(places)
         /\ \A i \in DOMAIN picked : \E p \in places : picked[i] = seq[p]
         /\ \A p \in places : \E i \in DOMAIN picked : picked[i] = seq[p]
<1> DEFINE order == Ascending(places)
           n == Cardinality(places)
           picked == Pick(seq, places)
<1>1. DOMAIN seq = 1..Len(seq) /\ Len(seq) \in Nat
  OBVIOUS
<1>2. IsFiniteSet(places) /\ places \subseteq Int
  <2>1. IsFiniteSet(1..Len(seq))
    BY <1>1, FS_Interval
  <2>2. places \in SUBSET (1..Len(seq))
    BY <1>1
  <2>3. IsFiniteSet(places)
    BY <2>1, <2>2, FS_Subset
  <2> QED BY <2>2, <2>3
<1>3. /\ n \in Nat /\ order \in [1..n -> places]
      /\ \A p \in places : \E i \in 1..n : order[i] = p
  BY <1>2, NumbersOrdered
<1>4. picked = [i \in DOMAIN order |-> seq[order[i]]]
  BY DEF Pick
<1> HIDE DEF order, n, picked
<1>5. DOMAIN picked = 1..n /\ \A i \in 1..n : picked[i] = seq[order[i]] /\ order[i] \in places
  BY <1>3, <1>4
<1>6. \A p \in places : seq[p] \in S
  OBVIOUS
<1>7. picked \in Seq(S) /\ Len(picked) = n
  <2>1. picked \in [1..n -> S]
    BY <1>3, <1>4, <1>6
  <2> QED BY <1>3, <2>1
<1> QED BY <1>3, <1>5, <1>7 DEF picked, n
=============================================================================
