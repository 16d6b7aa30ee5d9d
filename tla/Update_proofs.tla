--------------------------- MODULE Update_proofs ----------------------------
(***************************************************************************)
(* Proofs about Update, for every deployment, object, offset and length,   *)
(* and every number of calls at once.                                      *)
(***************************************************************************)
EXTENDS Update, SequenceTheorems, StripeFacts

-----------------------------------------------------------------------------
(* Sums                                                                    *)

(* A function that adds up a list exists: one up to n does for every n, and*)
(* two of them agree where both are defined.                               *)
LEMMA SumDefined ==
  ASSUME NEW list
  PROVE  \E sum : sum = [m \in Nat |-> IF m = 0 THEN 0 ELSE sum[m - 1] + list[m]]
<1> DEFINE is(f, n) == f = [m \in 0..n |-> IF m = 0 THEN 0 ELSE f[m - 1] + list[m]]
<1>1. \A n \in Nat : \E f : is(f, n)
  <2> DEFINE bad == {n \in Nat : ~\E f : is(f, n)}
  <2> SUFFICES ASSUME bad # {} PROVE FALSE
    OBVIOUS
  <2>1. PICK n \in bad : \A m \in bad : n <= m
    <3>1. bad \in SUBSET Nat
      OBVIOUS
    <3> HIDE DEF bad
    <3> QED BY <3>1, LeastNumber
  <2>2. n # 0
    <3>1. is([m \in 0..0 |-> 0], 0)
      OBVIOUS
    <3> HIDE DEF is
    <3> QED BY <2>1, <3>1
  <2>3. n - 1 \in Nat /\ n - 1 \notin bad
    BY <2>1, <2>2
  <2>4. PICK f : is(f, n - 1)
    BY <2>3
  <2> DEFINE g == [m \in 0..n |-> IF m < n THEN f[m] ELSE f[n - 1] + list[n]]
  <2>5. \A m \in 0..n : g[m] = IF m = 0 THEN 0 ELSE g[m - 1] + list[m]
    <3> SUFFICES ASSUME NEW m \in 0..n
                 PROVE  g[m] = IF m = 0 THEN 0 ELSE g[m - 1] + list[m]
      OBVIOUS
    <3>1. CASE m = n
      BY <2>2, <2>3, <3>1
    <3>2. CASE m < n
      <4>1. m \in 0..(n - 1)
        BY <2>3, <3>2
      <4>2. f[m] = IF m = 0 THEN 0 ELSE f[m - 1] + list[m]
        BY <2>4, <4>1
      <4> QED BY <3>2, <4>2
    <3> QED BY <2>1, <3>1, <3>2
  <2>6. is(g, n)
    <3>1. g = [m \in 0..n |-> g[m]]
      OBVIOUS
    <3> HIDE DEF g
    <3> QED BY <2>5, <3>1
  <2> HIDE DEF is
  <2> QED BY <2>1, <2>6
<1>2. ASSUME NEW n1 \in Nat, NEW n2 \in Nat, NEW f1, NEW f2, is(f1, n1), is(f2, n2),
             NEW m0 \in Nat, m0 <= n1, m0 <= n2
      PROVE  f1[m0] = f2[m0]
  <2> DEFINE bad == {m \in Nat : m <= n1 /\ m <= n2 /\ f1[m] # f2[m]}
  <2> SUFFICES ASSUME bad # {} PROVE FALSE
    BY <1>2
  <2>1. PICK m \in bad : \A i \in bad : m <= i
    <3>1. bad \in SUBSET Nat
      OBVIOUS
    <3> HIDE DEF bad
    <3> QED BY <3>1, LeastNumber
  <2>2. /\ m \in 0..n1 /\ m \in 0..n2
        /\ m # 0 => m - 1 \in Nat /\ m - 1 \notin bad
    BY <2>1
  <2>3. m # 0 => f1[m - 1] = f2[m - 1]
    BY <2>2
  <2>4. /\ f1[m] = IF m = 0 THEN 0 ELSE f1[m - 1] + list[m]
        /\ f2[m] = IF m = 0 THEN 0 ELSE f2[m - 1] + list[m]
    BY <1>2, <2>2
  <2> QED BY <2>1, <2>3, <2>4
<1> DEFINE part(n) == CHOOSE f : is(f, n)
           sum == [n \in Nat |-> part(n)[n]]
<1>3. \A n \in Nat : is(part(n), n)
  <2> HIDE DEF is
  <2> QED BY <1>1
<1> HIDE DEF part
<1>4. \A n \in Nat : sum[n] = IF n = 0 THEN 0 ELSE sum[n - 1] + list[n]
  <2> SUFFICES ASSUME NEW n \in Nat
               PROVE  sum[n] = IF n = 0 THEN 0 ELSE sum[n - 1] + list[n]
    OBVIOUS
  <2>1. sum[n] = part(n)[n] /\ n \in 0..n
    OBVIOUS
  <2>2. part(n)[n] = IF n = 0 THEN 0 ELSE part(n)[n - 1] + list[n]
    BY <1>3, <2>1
  <2>3. n # 0 => part(n)[n - 1] = part(n - 1)[n - 1] /\ n - 1 \in Nat
    <3> HIDE DEF is
    <3> QED BY <1>2, <1>3
  <2> QED BY <2>1, <2>2, <2>3
<1>5. sum = [m \in Nat |-> IF m = 0 THEN 0 ELSE sum[m - 1] + list[m]]
  <2>1. sum = [m \in Nat |-> sum[m]]
    OBVIOUS
  <2> HIDE DEF sum
  <2> QED BY <1>4, <2>1
<1> QED BY <1>5

LEMMA SumSteps ==
  ASSUME NEW list
  PROVE  /\ SumUpTo(list, 0) = 0
         /\ \A n \in Nat : SumUpTo(list, n + 1) = SumUpTo(list, n) + list[n + 1]
<1> DEFINE sum == CHOOSE f : f = [m \in Nat |-> IF m = 0 THEN 0 ELSE f[m - 1] + list[m]]
<1>1. sum = [m \in Nat |-> IF m = 0 THEN 0 ELSE sum[m - 1] + list[m]]
  BY SumDefined
<1>2. \A n : SumUpTo(list, n) = sum[n]
  BY DEF SumUpTo
<1> HIDE DEF sum
<1>3. sum[0] = 0 /\ \A n \in Nat : sum[n + 1] = sum[n] + list[n + 1]
  BY <1>1
<1> QED BY <1>2, <1>3

LEMMA SumsGrow ==
  ASSUME NEW n \in Nat, NEW list \in [1..n -> Nat]
  PROVE  /\ \A m \in 0..n : SumUpTo(list, m) \in Nat
         /\ \A m \in 1..n : SumUpTo(list, m) = SumUpTo(list, m - 1) + list[m]
         /\ \A i, j \in 0..n : i <= j => SumUpTo(list, i) <= SumUpTo(list, j)
<1> DEFINE sum(m) == SumUpTo(list, m)
<1>0. sum(0) = 0
  BY SumSteps
<1>1. \A m \in Nat : sum(m + 1) = sum(m) + list[m + 1]
  BY SumSteps
<1> HIDE DEF sum
<1>2. ASSUME NEW m0 \in 0..n PROVE sum(m0) \in Nat
  <2> DEFINE bad == {m \in 0..n : sum(m) \notin Nat}
  <2> SUFFICES ASSUME bad # {} PROVE FALSE
    OBVIOUS
  <2>1. PICK m \in bad : \A i \in bad : m <= i
    <3>1. bad \in SUBSET Nat
      OBVIOUS
    <3> HIDE DEF bad
    <3> QED BY <3>1, LeastNumber
  <2>2. m # 0
    <3>1. sum(0) \in Nat
      BY <1>0
    <3>2. sum(m) \notin Nat
      BY <2>1
    <3> QED BY <3>1, <3>2
  <2>3. m - 1 \in 0..n /\ m - 1 \notin bad
    BY <2>1, <2>2
  <2>4. sum(m) = sum(m - 1) + list[m] /\ list[m] \in Nat
    BY <1>1, <2>1, <2>2, <2>3
  <2> QED BY <2>1, <2>3, <2>4
<1>3. \A m \in 1..n : sum(m) = sum(m - 1) + list[m]
  <2> SUFFICES ASSUME NEW m \in 1..n PROVE sum(m) = sum(m - 1) + list[m]
    OBVIOUS
  <2>1. m - 1 \in Nat /\ (m - 1) + 1 = m
    OBVIOUS
  <2> QED BY <1>1, <2>1
<1>4. ASSUME NEW i \in 0..n, NEW j0 \in 0..n, i <= j0 PROVE sum(i) <= sum(j0)
  <2> DEFINE bad == {j \in 0..n : i <= j /\ ~(sum(i) <= sum(j))}
  <2> SUFFICES ASSUME bad # {} PROVE FALSE
    BY <1>4
  <2>1. PICK j \in bad : \A m \in bad : j <= m
    <3>1. bad \in SUBSET Nat
      OBVIOUS
    <3> HIDE DEF bad
    <3> QED BY <3>1, LeastNumber
  <2>2. j # i
    BY <1>2, <2>1
  <2>3. j - 1 \in 0..n /\ i <= j - 1 /\ j - 1 \notin bad
    BY <2>1, <2>2
  <2>4. sum(j) = sum(j - 1) + list[j] /\ list[j] \in Nat
    BY <1>3, <2>1, <2>3
  <2>5. sum(i) \in Nat /\ sum(j - 1) \in Nat /\ sum(i) <= sum(j - 1)
    BY <1>2, <2>3
  <2> QED BY <2>1, <2>4, <2>5
<1> QED BY <1>2, <1>3, <1>4 DEF sum

-----------------------------------------------------------------------------
(* The blocks of an object                                                 *)

LEMMA Remainder ==
  ASSUME NEW n \in Nat, NEW k \in Nat \ {0}
  PROVE  n % k \in 0..(k - 1) /\ n = k * (n \div k) + (n % k)
OBVIOUS

LEMMA RemainderIs ==
  ASSUME NEW n \in Nat, NEW k \in Nat \ {0}, NEW i \in Nat, k * i <= n, n < k * i + k
  PROVE  n \div k = i /\ n % k = n - k * i
<1>1. n \div k = i
  BY QuotientIs
<1>2. k * i \in Nat /\ k * (n \div k) = k * i
  BY <1>1
<1> QED BY <1>1, <1>2, Remainder

(* The stripes of an object one after the other.                           *)
LEMMA StripesInARow ==
  ASSUME NEW st \in Sites, NEW obj, IsObject(st, obj)
  PROVE  LET N == Len(obj.stripes)
             k == st.sch.k
             before(i) == BytesBefore(st, obj, i)
             size(i) == st.shard[obj.stripes[i]]
         IN /\ N \in Nat \ {0} /\ k \in Nat \ {0} /\ DOMAIN obj.stripes = 1..N
            /\ \A i \in 1..N : obj.stripes[i] \in DOMAIN st.at /\ size(i) \in Nat \ {0}
            /\ \A i \in 1..(N + 1) : before(i) \in Nat
            /\ before(1) = 0
            /\ \A i \in 1..N : before(i + 1) = before(i) + k * size(i)
            /\ \A i, j \in 1..(N + 1) : i <= j => before(i) <= before(j)
<1> DEFINE N == Len(obj.stripes)
           k == st.sch.k
           before(i) == BytesBefore(st, obj, i)
           size(i) == st.shard[obj.stripes[i]]
           list == [j \in DOMAIN obj.stripes |-> DataSize(st, obj.stripes[j])]
<1>1. /\ obj.stripes \in Seq(DOMAIN st.at) /\ obj.stripes # <<>>
      /\ st.shard \in [DOMAIN st.at -> Nat \ {0}] /\ k \in Nat \ {0}
  BY SitesAssumption DEF IsObject, IsScheme
<1>2. N \in Nat \ {0} /\ DOMAIN obj.stripes = 1..N
  BY <1>1
<1>3. \A i \in 1..N : obj.stripes[i] \in DOMAIN st.at /\ size(i) \in Nat \ {0}
  BY <1>1, <1>2
<1>4. \A i \in 1..N : list[i] = k * size(i) /\ list[i] \in Nat
  <2> SUFFICES ASSUME NEW i \in 1..N PROVE list[i] = k * size(i) /\ list[i] \in Nat
    OBVIOUS
  <2>1. list[i] = k * size(i)
    BY <1>2 DEF DataSize
  <2>2. k * size(i) \in Nat
    <3> HIDE DEF k, size
    <3> QED BY <1>1, <1>3
  <2> QED BY <2>1, <2>2
<1>5. list \in [1..N -> Nat]
  BY <1>2, <1>4
<1>6. \A i : before(i) = SumUpTo(list, i - 1)
  BY DEF BytesBefore
<1> HIDE DEF list, before, size, k, N
<1>7. /\ \A m \in 0..N : SumUpTo(list, m) \in Nat
      /\ \A m \in 1..N : SumUpTo(list, m) = SumUpTo(list, m - 1) + list[m]
      /\ \A i, j \in 0..N : i <= j => SumUpTo(list, i) <= SumUpTo(list, j)
  BY <1>2, <1>5, SumsGrow
<1>8. \A i \in 1..(N + 1) : before(i) \in Nat
  BY <1>2, <1>6, <1>7
<1>9. before(1) = 0
  BY <1>6, SumSteps
<1>10. \A i \in 1..N : before(i + 1) = before(i) + k * size(i)
  <2> SUFFICES ASSUME NEW i \in 1..N PROVE before(i + 1) = before(i) + k * size(i)
    OBVIOUS
  <2>1. before(i + 1) = SumUpTo(list, i) /\ before(i) = SumUpTo(list, i - 1)
    BY <1>2, <1>6
  <2> QED BY <1>4, <1>7, <2>1
<1>11. \A i, j \in 1..(N + 1) : i <= j => before(i) <= before(j)
  <2> SUFFICES ASSUME NEW i \in 1..(N + 1), NEW j \in 1..(N + 1), i <= j
               PROVE  before(i) <= before(j)
    OBVIOUS
  <2>1. i - 1 \in 0..N /\ j - 1 \in 0..N /\ i - 1 <= j - 1
    BY <1>2
  <2>2. before(i) = SumUpTo(list, i - 1) /\ before(j) = SumUpTo(list, j - 1)
    BY <1>6
  <2>3. \A a, b \in 0..N : a <= b => SumUpTo(list, a) <= SumUpTo(list, b)
    BY <1>7
  <2>4. SumUpTo(list, i - 1) <= SumUpTo(list, j - 1)
    <3> DEFINE a == i - 1
               b == j - 1
    <3> HIDE DEF a, b
    <3>1. SumUpTo(list, a) <= SumUpTo(list, b)
      BY <2>1, <2>3 DEF a, b
    <3> QED BY <3>1 DEF a, b
  <2> QED BY <2>2, <2>4
<1> QED BY <1>1, <1>2, <1>3, <1>8, <1>9, <1>10, <1>11 DEF N, k, before, size

(* Block n of an object: how many there are, its size, and the first byte  *)
(* of the object in it.                                                    *)
BlocksIn(st, obj) == st.sch.k * Len(obj.stripes)
SizeOf(st, obj, n) == st.shard[BlockOf(st, obj, n).s]
StartOfBlock(st, obj, n) ==
  BytesBefore(st, obj, n \div st.sch.k + 1) + SizeOf(st, obj, n) * (n % st.sch.k)

LEMMA BlocksInARow ==
  ASSUME NEW st \in Sites, NEW obj, IsObject(st, obj), NEW n \in Nat, n < BlocksIn(st, obj)
  PROVE  LET k == st.sch.k
             i == n \div k + 1
             x == n % k
             size == st.shard[obj.stripes[i]]
             before(j) == BytesBefore(st, obj, j)
         IN /\ i \in 1..Len(obj.stripes) /\ x \in 0..(k - 1) /\ n = k * (i - 1) + x
            /\ i \in Nat \ {0} /\ before(i) \in Nat
            /\ BlockOf(st, obj, n) = [s |-> obj.stripes[i], x |-> x]
            /\ SizeOf(st, obj, n) = size /\ size \in Nat \ {0}
            /\ StartOfBlock(st, obj, n) = before(i) + size * x
            /\ StartOfBlock(st, obj, n) \in Nat
            /\ before(i) <= StartOfBlock(st, obj, n)
            /\ StartOfBlock(st, obj, n) + size <= before(i + 1)
            /\ x = k - 1 => StartOfBlock(st, obj, n) + size = before(i + 1)
<1> DEFINE N == Len(obj.stripes)
           k == st.sch.k
           i == n \div k + 1
           x == n % k
           size == st.shard[obj.stripes[i]]
           before(j) == BytesBefore(st, obj, j)
<1>1. /\ N \in Nat \ {0} /\ k \in Nat \ {0}
      /\ \A j \in 1..N : st.shard[obj.stripes[j]] \in Nat \ {0}
      /\ \A j \in 1..(N + 1) : before(j) \in Nat
      /\ \A j \in 1..N : before(j + 1) = before(j) + k * st.shard[obj.stripes[j]]
  BY StripesInARow
<1>2. x \in 0..(k - 1) /\ n = k * (n \div k) + x /\ n \div k \in Nat
  <2> HIDE DEF k
  <2> QED BY <1>1, Remainder, Quotient
<1>3. i \in 1..N /\ n = k * (i - 1) + x
  <2> DEFINE d == n \div k
  <2>1. n < k * N
    BY DEF BlocksIn
  <2>2. d < N
    <3> HIDE DEF k, N, d, x
    <3>1. CASE d >= N
      <4>1. k * N \in Nat /\ k * d \in Nat /\ k * N <= k * d
        BY <1>1, <1>2, <3>1, Products DEF d
      <4> QED BY <1>2, <2>1, <4>1 DEF d
    <3> QED BY <1>1, <1>2, <3>1 DEF d
  <2> HIDE DEF k, N, x
  <2> QED BY <1>1, <1>2, <2>2
<1>4. /\ BlockOf(st, obj, n) = [s |-> obj.stripes[i], x |-> x]
      /\ SizeOf(st, obj, n) = size
      /\ StartOfBlock(st, obj, n) = before(i) + size * x
  BY DEF BlockOf, SizeOf, StartOfBlock
<1>5. size \in Nat \ {0} /\ before(i) \in Nat /\ before(i + 1) = before(i) + k * size
  <2> HIDE DEF k, N, i, before
  <2> QED BY <1>1, <1>3
<1> HIDE DEF k, N, x, i, before, size
<1>10. i \in Nat \ {0}
  BY <1>1, <1>3
<1>6. /\ size * x \in Nat /\ size * (x + 1) = size * x + size
      /\ size * (x + 1) <= k * size
      /\ x = k - 1 => size * (x + 1) = k * size
  <2>1. size * (x + 1) <= size * k
    BY <1>1, <1>2, <1>5, Products
  <2>2. size * k = k * size
    BY <1>1, <1>5
  <2>3. size * x \in Nat /\ size * (x + 1) = size * x + size
    BY <1>2, <1>5
  <2>4. x = k - 1 => x + 1 = k
    BY <1>1, <1>2
  <2> QED BY <2>1, <2>2, <2>3, <2>4
<1>7. k * size \in Nat
  BY <1>1, <1>5
<1> DEFINE start == StartOfBlock(st, obj, n)
<1>8. start = before(i) + size * x
  BY <1>4
<1> HIDE DEF start
<1>9. /\ start \in Nat /\ before(i) <= start /\ start + size <= before(i + 1)
      /\ x = k - 1 => start + size = before(i + 1)
  BY <1>5, <1>6, <1>7, <1>8
<1> QED BY <1>2, <1>3, <1>4, <1>5, <1>8, <1>9, <1>10, Zenon DEF k, x, i, before, size, N, start

LEMMA BlockIsAt ==
  ASSUME NEW st \in Sites, NEW obj, IsObject(st, obj), NEW n \in Nat, n < BlocksIn(st, obj)
  PROVE  LET i == n \div st.sch.k + 1
             x == n % st.sch.k
         IN /\ i \in 1..Len(obj.stripes) /\ x \in 0..(st.sch.k - 1)
            /\ n = st.sch.k * (i - 1) + x
            /\ BlockOf(st, obj, n) = [s |-> obj.stripes[i], x |-> x]
BY BlocksInARow

LEMMA BlockSize ==
  ASSUME NEW st \in Sites, NEW obj, IsObject(st, obj), NEW n \in Nat, n < BlocksIn(st, obj)
  PROVE  LET i == n \div st.sch.k + 1
         IN /\ SizeOf(st, obj, n) = st.shard[obj.stripes[i]]
            /\ st.shard[obj.stripes[i]] \in Nat
            /\ SizeOf(st, obj, n) \in Nat \ {0}
            /\ BytesBefore(st, obj, i) \in Nat
            /\ StartOfBlock(st, obj, n) \in Nat
BY BlocksInARow

LEMMA BlocksCounted ==
  ASSUME NEW st \in Sites, NEW obj, IsObject(st, obj)
  PROVE  BlocksIn(st, obj) \in Nat \ {0} /\ BlocksIn(st, obj) \in Nat
<1> DEFINE k == st.sch.k
           N == Len(obj.stripes)
<1>1. k \in Nat \ {0} /\ N \in Nat \ {0}
  BY StripesInARow
<1> HIDE DEF k, N
<1>2. k * N \in Nat \ {0} /\ k * N \in Nat
  BY <1>1
<1> QED BY <1>2, Zenon DEF BlocksIn, k, N

LEMMA BlockNumbers ==
  ASSUME NEW st \in Sites, NEW obj, IsObject(st, obj)
  PROVE  /\ BlocksIn(st, obj) \in Nat \ {0}
         /\ \A n \in Nat : n < BlocksIn(st, obj) =>
              StartOfBlock(st, obj, n) \in Nat /\ SizeOf(st, obj, n) \in Nat \ {0}
<1>1. ASSUME NEW n \in Nat, n < BlocksIn(st, obj)
      PROVE  StartOfBlock(st, obj, n) \in Nat /\ SizeOf(st, obj, n) \in Nat \ {0}
  BY <1>1, BlockSize, Zenon
<1> QED BY <1>1, BlocksCounted

LEMMA OneBefore ==
  ASSUME NEW n \in Nat, NEW b \in Nat, n + 1 < b
  PROVE  n < b /\ n + 1 \in Nat
OBVIOUS

LEMMA NextBlock ==
  ASSUME NEW st \in Sites, NEW obj, IsObject(st, obj),
         NEW n \in Nat, n + 1 < BlocksIn(st, obj)
  PROVE  StartOfBlock(st, obj, n + 1) = StartOfBlock(st, obj, n) + SizeOf(st, obj, n)
<1> DEFINE k == st.sch.k
           i == n \div k + 1
           x == n % k
           size == st.shard[obj.stripes[i]]
           before(j) == BytesBefore(st, obj, j)
           start(m) == StartOfBlock(st, obj, m)
<1>1. k \in Nat \ {0}
  BY StripesInARow
<1>2. n < BlocksIn(st, obj) /\ n + 1 \in Nat
  <2>1. BlocksIn(st, obj) \in Nat
    BY BlocksCounted, Zenon
  <2> QED BY <2>1, OneBefore, Zenon
<1>3. /\ x \in 0..(k - 1) /\ n = k * (i - 1) + x /\ i \in Nat \ {0}
      /\ SizeOf(st, obj, n) = size /\ size \in Nat \ {0}
      /\ start(n) = before(i) + size * x /\ before(i) \in Nat
      /\ x = k - 1 => start(n) + size = before(i + 1)
  BY <1>2, BlocksInARow
<1>4. /\ start(n + 1) = before((n + 1) \div k + 1)
                            + st.shard[obj.stripes[(n + 1) \div k + 1]] * ((n + 1) % k)
      /\ st.shard[obj.stripes[(n + 1) \div k + 1]] \in Nat
      /\ before((n + 1) \div k + 1) \in Nat
  <2> DEFINE m == n + 1
             d == m \div k + 1
             y == m % k
             shard == st.shard[obj.stripes[d]]
  <2> HIDE DEF i, x, size
  <2>1. m \in Nat /\ m < BlocksIn(st, obj)
    BY <1>2
  <2> HIDE DEF m
  <2>2. SizeOf(st, obj, m) = shard /\ shard \in Nat /\ before(d) \in Nat
    BY <2>1, BlockSize, Zenon
  <2>3. start(m) = before(d) + SizeOf(st, obj, m) * y
    BY DEF StartOfBlock
  <2> HIDE DEF start, before, d, y, shard
  <2>4. start(m) = before(d) + shard * y /\ shard \in Nat /\ before(d) \in Nat
    BY <2>2, <2>3
  <2> QED BY <2>4, Zenon DEF d, y, m, shard
<1> HIDE DEF i, x, size, before, start, k
<1>5. CASE x < k - 1
  <2>1. k * (i - 1) \in Nat /\ k * (i - 1) <= n + 1 /\ n + 1 < k * (i - 1) + k
    <3> DEFINE d == k * (i - 1)
    <3>1. d \in Nat
      BY <1>1, <1>3
    <3>2. n = d + x /\ x \in Nat /\ x < k - 1 /\ k \in Nat
      BY <1>1, <1>3, <1>5
    <3> HIDE DEF d
    <3>3. d <= n + 1 /\ n + 1 < d + k
      BY <3>1, <3>2
    <3> QED BY <3>1, <3>3 DEF d
  <2>3. (n + 1) \div k + 1 = i /\ (n + 1) % k = x + 1
    <3> DEFINE m == n + 1
               d == i - 1
    <3>1. /\ m \in Nat /\ d \in Nat /\ k * d <= m /\ m < k * d + k
          /\ m - k * d = x + 1 /\ d + 1 = i
      BY <1>3, <2>1
    <3> HIDE DEF m, d
    <3>2. m \div k = d /\ m % k = m - k * d
      BY <1>1, <3>1, RemainderIs
    <3>3. m \div k + 1 = i /\ m % k = x + 1
      BY <3>1, <3>2
    <3> QED BY <3>3 DEF m
  <2>4. start(n + 1) = before(i) + size * (x + 1)
    BY <1>4, <2>3 DEF size
  <2>5. size * (x + 1) = size * x + size /\ size * x \in Nat
    BY <1>3
  <2> QED BY <1>3, <2>4, <2>5 DEF start
<1>6. CASE x = k - 1
  <2>1. k * (i - 1) \in Nat /\ k * i = k * (i - 1) + k
    BY <1>1, <1>3
  <2>2. k * i \in Nat /\ k * i <= n + 1 /\ n + 1 < k * i + k /\ n + 1 = k * i
    BY <1>1, <1>3, <1>6, <2>1
  <2>3. (n + 1) \div k = i /\ (n + 1) % k = 0
    <3> DEFINE m == n + 1
    <3>1. m \in Nat /\ i \in Nat /\ k * i <= m /\ m < k * i + k /\ m - k * i = 0
      BY <1>3, <2>2
    <3> HIDE DEF m
    <3>2. m \div k = i /\ m % k = m - k * i
      BY <1>1, <3>1, RemainderIs
    <3> QED BY <3>1, <3>2 DEF m
  <2>4. start(n + 1) = before(i + 1)
    BY <1>4, <2>3
  <2> QED BY <1>3, <1>6, <2>4 DEF start
<1> QED BY <1>1, <1>3, <1>5, <1>6

(* Byte p of an object is in the block whose bytes it is among ...         *)
LEMMA PlaceOfByte ==
  ASSUME NEW st \in Sites, NEW obj, IsObject(st, obj), obj.big,
         NEW n \in Nat, n < BlocksIn(st, obj), NEW p \in Nat,
         StartOfBlock(st, obj, n) <= p,
         p < StartOfBlock(st, obj, n) + SizeOf(st, obj, n)
  PROVE  Place(st, obj, p) = [stripe |-> BlockOf(st, obj, n).s, block |-> BlockOf(st, obj, n).x,
                              offset |-> p - StartOfBlock(st, obj, n)]
<1> DEFINE k == st.sch.k
           N == Len(obj.stripes)
           j == n \div k + 1
           x == n % k
           size == st.shard[obj.stripes[j]]
           before(m) == BytesBefore(st, obj, m)
           start == StartOfBlock(st, obj, n)
           has(m) == before(m) <= p /\ p < before(m + 1)
           i == CHOOSE m \in 1..N : has(m)
<1>1. /\ N \in Nat /\ \A m \in 1..(N + 1) : before(m) \in Nat
      /\ \A m1, m2 \in 1..(N + 1) : m1 <= m2 => before(m1) <= before(m2)
  BY StripesInARow
<1>2. /\ j \in 1..N /\ x \in Nat
      /\ SizeOf(st, obj, n) = size /\ size \in Nat \ {0}
      /\ start = before(j) + size * x /\ start \in Nat
      /\ before(j) <= start /\ start + size <= before(j + 1)
  BY BlocksInARow
<1>3. BlockOf(st, obj, n) = [s |-> obj.stripes[j], x |-> x]
  BY DEF BlockOf
<1> HIDE DEF k, j, x, N, before, start, size
<1>4. has(j)
  BY <1>1, <1>2 DEF start
<1>5. \A m \in 1..N : has(m) => m = j
  <2> SUFFICES ASSUME NEW m \in 1..N, has(m), m # j PROVE FALSE
    OBVIOUS
  <2>1. CASE m < j
    <3>1. m + 1 \in 1..(N + 1) /\ j \in 1..(N + 1) /\ m + 1 <= j
      BY <1>1, <1>2, <2>1
    <3>2. before(m + 1) <= before(j) /\ before(m + 1) \in Nat /\ before(j) \in Nat
      BY <1>1, <3>1
    <3> QED BY <1>4, <3>2
  <2>2. CASE j < m
    <3>1. j + 1 \in 1..(N + 1) /\ m \in 1..(N + 1) /\ j + 1 <= m
      BY <1>1, <1>2, <2>2
    <3>2. before(j + 1) <= before(m) /\ before(j + 1) \in Nat /\ before(m) \in Nat
      BY <1>1, <3>1
    <3> QED BY <1>4, <3>2
  <2> QED BY <1>1, <1>2, <2>1, <2>2
<1>6. i = j
  <2> HIDE DEF has
  <2> QED BY <1>2, <1>4, <1>5
<1> DEFINE q == p - before(i)
<1>7. q \div size = x /\ q % size = p - start
  <2>1. before(j) \in Nat /\ size * x \in Nat /\ start <= p /\ p < start + size
    BY <1>1, <1>2 DEF start
  <2>2. q = p - before(j)
    BY <1>6
  <2> HIDE DEF q, has, i
  <2>3. q \in Nat /\ size * x <= q /\ q < size * x + size /\ q - size * x = p - start
    BY <1>2, <2>1, <2>2
  <2>4. q \div size = x /\ q % size = q - size * x
    BY <1>2, <2>3, RemainderIs
  <2> QED BY <2>3, <2>4
<1>8. Place(st, obj, p) = [stripe |-> obj.stripes[i], block |-> q \div st.shard[obj.stripes[i]],
                           offset |-> q % st.shard[obj.stripes[i]]]
  BY DEF Place, i, N, before
<1> HIDE DEF i, q
<1>9. Place(st, obj, p) = [stripe |-> obj.stripes[j], block |-> x, offset |-> p - start]
  BY <1>6, <1>7, <1>8 DEF size
<1> QED BY <1>3, <1>9 DEF start

(* ... and there is such a block for every byte.                           *)
LEMMA BlockOfByte ==
  ASSUME NEW st \in Sites, NEW obj, IsObject(st, obj), NEW p \in Nat,
         p < BytesBefore(st, obj, Len(obj.stripes) + 1)
  PROVE  \E n \in 0..(BlocksIn(st, obj) - 1) :
           /\ StartOfBlock(st, obj, n) <= p
           /\ p < StartOfBlock(st, obj, n) + SizeOf(st, obj, n)
<1> DEFINE k == st.sch.k
           N == Len(obj.stripes)
           B == BlocksIn(st, obj)
           start(n) == StartOfBlock(st, obj, n)
           size(n) == SizeOf(st, obj, n)
           ns == {n \in 0..(B - 1) : start(n) <= p}
<1>1. /\ N \in Nat \ {0} /\ k \in Nat \ {0} /\ B = k * N
      /\ BytesBefore(st, obj, 1) = 0
  BY StripesInARow DEF BlocksIn
<1>2. B \in Nat \ {0}
  <2> HIDE DEF k, N, B
  <2> QED BY <1>1
<1>3. \A n \in 0..(B - 1) : start(n) \in Nat /\ size(n) \in Nat \ {0}
  <2> SUFFICES ASSUME NEW n \in 0..(B - 1) PROVE start(n) \in Nat /\ size(n) \in Nat \ {0}
    OBVIOUS
  <2>1. n \in Nat /\ n < BlocksIn(st, obj)
    BY <1>2
  <2> QED BY <2>1, BlockSize
<1>4. start(0) = 0
  <2>1. 0 \div k = 0 /\ 0 % k = 0
    <3> HIDE DEF k
    <3> QED BY <1>1
  <2>2. size(0) \in Nat
    BY <1>2, <1>3
  <2>3. start(0) = BytesBefore(st, obj, 1) + size(0) * 0
    BY <2>1 DEF StartOfBlock
  <2> QED BY <1>1, <2>2, <2>3
<1>5. PICK n \in ns : \A m \in ns : m <= n
  <2>1. 0 \in ns
    BY <1>2, <1>4
  <2>2. ns \in SUBSET Nat /\ B - 1 \in Nat /\ \A m \in ns : m <= B - 1
    BY <1>2
  <2> HIDE DEF ns
  <2> QED BY <2>1, <2>2, GreatestNumber
<1>6. n \in 0..(B - 1) /\ start(n) <= p
  BY <1>5
<1>7. ASSUME ~(p < start(n) + size(n)) PROVE FALSE
  <2>1. start(n) + size(n) <= p /\ n \in Nat /\ n < BlocksIn(st, obj)
    BY <1>2, <1>3, <1>6, <1>7
  <2>2. CASE n + 1 < B
    <3>1. start(n + 1) = start(n) + size(n)
      BY <2>1, <2>2, NextBlock
    <3>2. n + 1 \in ns
      BY <1>2, <1>6, <2>1, <2>2, <3>1
    <3> QED BY <1>5, <1>6, <3>2
  <2>3. CASE n + 1 = B
    <3> DEFINE i == n \div k + 1
               x == n % k
    <3>1. /\ i \in 1..N /\ x \in 0..(k - 1) /\ n = k * (i - 1) + x
          /\ x = k - 1 => start(n) + size(n) = BytesBefore(st, obj, i + 1)
      <4>1. n \in Nat /\ n < BlocksIn(st, obj)
        BY <2>1
      <4>2. i \in 1..N /\ x \in 0..(k - 1) /\ n = k * (i - 1) + x
        BY <4>1, BlockIsAt
      <4>3. /\ SizeOf(st, obj, n) = st.shard[obj.stripes[i]]
            /\ x = k - 1 => StartOfBlock(st, obj, n) + st.shard[obj.stripes[i]]
                              = BytesBefore(st, obj, i + 1)
        BY <4>1, BlocksInARow
      <4> HIDE DEF i, x, k, N
      <4> QED BY <4>2, <4>3
    <3> HIDE DEF i, x, start, size
    <3>2. i = N /\ x = k - 1
      <4> HIDE DEF k, N, B
      <4>1. k * (i - 1) + x + 1 = k * N
        BY <1>1, <2>3, <3>1
      <4>2. CASE i < N
        <5>1. k * i <= k * N /\ k * i = k * (i - 1) + k /\ k * i \in Nat /\ k * N \in Nat
          BY <1>1, <3>1, <4>2, Products
        <5>2. k * (i + 1) <= k * N /\ k * (i + 1) = k * i + k
          BY <1>1, <3>1, <4>2, Products
        <5> QED BY <1>1, <3>1, <4>1, <5>1, <5>2
      <4>3. CASE i = N
        <5>1. k * N = k * (i - 1) + k /\ k * (i - 1) \in Nat
          BY <1>1, <3>1, <4>3
        <5> QED BY <1>1, <3>1, <4>1, <4>3, <5>1
      <4> QED BY <1>1, <3>1, <4>2, <4>3
    <3>3. start(n) + size(n) = BytesBefore(st, obj, N + 1)
      BY <3>1, <3>2
    <3>4. start(n) \in Nat /\ size(n) \in Nat
      BY <1>3, <1>6 DEF start, size
    <3> QED BY <2>1, <3>3, <3>4 DEF start, size
  <2> QED BY <1>2, <1>6, <2>2, <2>3
<1> QED BY <1>6, <1>7

LEMMA BlocksApart ==
  ASSUME NEW st \in Sites, NEW obj, IsObject(st, obj),
         NEW n \in Nat, NEW m0 \in Nat, n < m0, m0 < BlocksIn(st, obj)
  PROVE  StartOfBlock(st, obj, n) + SizeOf(st, obj, n) <= StartOfBlock(st, obj, m0)
<1> DEFINE B == BlocksIn(st, obj)
           start(m) == StartOfBlock(st, obj, m)
           size(m) == SizeOf(st, obj, m)
           bad == {m \in Nat : n < m /\ m < B /\ ~(start(n) + size(n) <= start(m))}
<1> SUFFICES ASSUME bad # {} PROVE FALSE
  OBVIOUS
<1>1. \A m \in Nat : m < B => start(m) \in Nat /\ size(m) \in Nat
  BY BlockNumbers
<1>2. PICK m \in bad : \A i \in bad : m <= i
  <2>1. bad \in SUBSET Nat
    OBVIOUS
  <2> HIDE DEF bad
  <2> QED BY <2>1, LeastNumber
<1>3. B \in Nat
  <2>1. st.sch.k \in Nat /\ Len(obj.stripes) \in Nat
    BY StripesInARow
  <2> QED BY <2>1 DEF BlocksIn
<1>4. m - 1 \in Nat /\ m - 1 < B /\ (m - 1) + 1 = m /\ m < B
  BY <1>2, <1>3
<1>5. start(m) = start(m - 1) + size(m - 1)
  <2> DEFINE l == m - 1
  <2>1. l \in Nat /\ l + 1 < BlocksIn(st, obj) /\ m = l + 1
    BY <1>4
  <2> HIDE DEF l
  <2>2. start(l + 1) = start(l) + size(l)
    BY <2>1, NextBlock
  <2> HIDE DEF start, size
  <2>3. start(m) = start(l) + size(l)
    BY <2>1, <2>2
  <2> QED BY <2>3 DEF l
<1> HIDE DEF start, size
<1>6. CASE m - 1 = n
  <2>1. start(m) = start(n) + size(n) /\ start(m) \in Nat
    BY <1>1, <1>4, <1>5, <1>6
  <2>2. start(n) + size(n) <= start(m)
    BY <2>1
  <2> QED BY <1>2, <2>2
<1>7. CASE n < m - 1
  <2>1. m - 1 \notin bad
    BY <1>2, <1>4
  <2>2. start(n) + size(n) <= start(m - 1)
    BY <1>4, <1>7, <2>1
  <2>3. n < B
    BY <1>3, <1>4, <1>7
  <2> HIDE DEF B
  <2>4. /\ start(m - 1) \in Nat /\ size(m - 1) \in Nat
        /\ start(n) \in Nat /\ size(n) \in Nat
    BY <1>1, <1>4, <2>3
  <2>5. start(n) + size(n) <= start(m)
    BY <1>5, <2>2, <2>4
  <2> QED BY <1>2, <2>5 DEF bad
<1> QED BY <1>2, <1>6, <1>7

LEMMA TakenIs ==
  ASSUME NEW room \in Nat, NEW left \in Nat
  PROVE  Taken(room, left) = IF room <= left THEN room ELSE left
<1>1. Min({room, left}) \in {room, left} /\ \A n \in {room, left} : Min({room, left}) <= n
  BY MinIsMember
<1> QED BY <1>1 DEF Taken

(* A set of numbers that has with one all those before it.                 *)
LEMMA UpTo ==
  ASSUME NEW n \in Nat, NEW ns \in SUBSET (1..n),
         \A j \in ns : \A i \in 1..j : i \in ns
  PROVE  ns = 1..Cardinality(ns) /\ Cardinality(ns) \in 0..n
<1>1. CASE ns = {}
  <2>1. Cardinality(ns) = 0
    BY <1>1, FS_EmptySet
  <2> QED BY <1>1, <2>1
<1>2. CASE ns # {}
  <2>1. PICK g \in ns : \A m \in ns : m <= g
    <3>1. ns \in SUBSET Nat /\ \A m \in ns : m <= n
      OBVIOUS
    <3> QED BY <1>2, <3>1, GreatestNumber
  <2>2. g \in 1..n /\ \A m \in 1..g : m \in ns
    BY <2>1
  <2>3. \A m \in ns : m \in 1..g
    BY <2>1, <2>2
  <2>4. ns = 1..g
    BY <2>2, <2>3
  <2>5. Cardinality(1..g) = g
    <3>1. g \in Int /\ 1 \in Int /\ ~(1 > g)
      BY <2>2
    <3>2. Cardinality(1..g) = IF 1 > g THEN 0 ELSE g - 1 + 1
      BY <3>1, FS_Interval
    <3> QED BY <3>1, <3>2
  <2> QED BY <2>2, <2>4, <2>5
<1> QED BY <1>1, <1>2

-----------------------------------------------------------------------------
(* The split of an update                                                  *)

(* Where an update begins: the stripe, and the number of a block of it, or *)
(* k if the offset is the end of the stripe.                               *)
LEMMA UpdateBegins ==
  ASSUME NEW st \in Sites, NEW obj, IsObject(st, obj), obj.big,
         NEW offset \in Nat, offset < obj.size
  PROVE  LET i == StartOf(st, obj, offset)
             size == st.shard[obj.stripes[i]]
             before(j) == BytesBefore(st, obj, j)
             x == (offset - before(i)) \div size
             o == (offset - before(i)) % size
         IN /\ i \in 1..Len(obj.stripes) /\ size \in Nat \ {0}
            /\ before(i) \in Nat /\ before(i) <= offset /\ offset <= before(i + 1)
            /\ x \in 0..st.sch.k /\ o \in 0..(size - 1)
            /\ offset = before(i) + size * x + o
            /\ offset < before(i + 1) => x < st.sch.k
<1> DEFINE i == StartOf(st, obj, offset)
           N == Len(obj.stripes)
           k == st.sch.k
           size == st.shard[obj.stripes[i]]
           before(j) == BytesBefore(st, obj, j)
           d == offset - before(i)
           x == d \div size
           o == d % size
           kept == {j \in 1..N : ~Skipped(st, obj, offset, j)}
<1>1. /\ N \in Nat \ {0} /\ k \in Nat \ {0}
      /\ \A j \in 1..N : st.shard[obj.stripes[j]] \in Nat \ {0}
      /\ \A j \in 1..(N + 1) : before(j) \in Nat
      /\ before(1) = 0
      /\ \A j \in 1..N : before(j + 1) = before(j) + k * st.shard[obj.stripes[j]]
  BY StripesInARow
<1>2. i \in kept \cup {N} /\ \A j \in kept \cup {N} : i <= j
  <2>1. kept \cup {N} \in SUBSET Nat /\ kept \cup {N} # {}
    BY <1>1
  <2>2. i = Min(kept \cup {N})
    BY DEF StartOf
  <2> HIDE DEF i, kept, N
  <2> QED BY <2>1, <2>2, MinIsMember
<1>3. i \in 1..N
  BY <1>1, <1>2
<1>4. size \in Nat \ {0} /\ before(i) \in Nat /\ before(i + 1) = before(i) + k * size
  <2> HIDE DEF i, before, k, N
  <2> QED BY <1>1, <1>3
<1>5. before(i) <= offset
  <2> HIDE DEF i, before, N, k
  <2>1. CASE i = 1
    BY <1>1, <2>1
  <2>2. CASE i # 1
    <3>1. i - 1 \in 1..N /\ i - 1 \notin kept /\ (i - 1) + 1 = i
      BY <1>1, <1>2, <1>3, <2>2
    <3>2. offset > before(i)
      BY <3>1 DEF Skipped, before
    <3> QED BY <1>4, <3>2
  <2> QED BY <2>1, <2>2
<1>6. offset <= before(i + 1)
  <2>1. before(i + 1) \in Nat
    <3> HIDE DEF i, before, N, k, size
    <3> QED BY <1>1, <1>3
  <2>2. CASE i \in kept
    <3>1. ~(offset > before(i + 1))
      BY <2>2 DEF Skipped
    <3> HIDE DEF i, before
    <3> QED BY <2>1, <3>1
  <2>3. CASE i = N
    <3>1. obj.size <= before(N + 1) /\ obj.size \in Nat
      BY DEF IsObject
    <3>2. offset <= before(N + 1)
      <4>1. before(N + 1) \in Nat
        BY <1>1
      <4> HIDE DEF before, N
      <4> QED BY <3>1, <4>1
    <3> QED BY <2>3, <3>2
  <2> QED BY <1>2, <2>2, <2>3
<1> HIDE DEF i, N, k, before, size
<1>7. d \in Nat /\ d <= k * size /\ offset = before(i) + d /\ k * size \in Nat
  <2>1. k * size \in Nat
    BY <1>1, <1>4
  <2> QED BY <1>4, <1>5, <1>6, <2>1
<1> HIDE DEF d
<1>8. x \in Nat /\ o \in 0..(size - 1) /\ d = size * x + o /\ size * x \in Nat
  <2>1. x \in Nat /\ o \in 0..(size - 1) /\ d = size * x + o
    BY <1>4, <1>7, Quotient, Remainder
  <2>2. size * x \in Nat
    BY <1>4, <2>1
  <2> QED BY <2>1, <2>2
<1> HIDE DEF x, o
<1>9. x <= k /\ (d < k * size => x < k)
  <2>1. CASE x > k
    <3>1. size * (k + 1) <= size * x /\ size * (k + 1) = size * k + size /\ size * k = k * size
      BY <1>1, <1>4, <1>8, <2>1, Products
    <3> QED BY <1>4, <1>7, <1>8, <3>1
  <2>2. CASE x = k
    <3>1. size * x = k * size
      BY <1>1, <1>4, <2>2
    <3>2. ~(d < k * size)
      BY <1>7, <1>8, <3>1
    <3> QED BY <1>1, <2>2, <3>2
  <2> QED BY <1>1, <1>8, <2>1, <2>2
<1>10. offset < before(i + 1) => d < k * size
  BY <1>4, <1>7
<1>11. x \in 0..k
  BY <1>1, <1>8, <1>9
<1>12. offset = before(i) + size * x + o
  BY <1>4, <1>7, <1>8
<1> QED BY <1>3, <1>4, <1>5, <1>6, <1>8, <1>9, <1>10, <1>11, <1>12
        DEF i, N, k, before, size, d, x, o

(* The blocks after the one an update begins in.                           *)
LEMMA BlocksFollow ==
  ASSUME NEW st \in Sites, NEW obj, IsObject(st, obj),
         NEW i \in 1..Len(obj.stripes), NEW x \in 0..st.sch.k
  PROVE  LET from == FirstFollowing(st, i, x)
             B == BlocksIn(st, obj)
             next == Following(st, obj, i, x)
             sizes == SizesOf(st, next)
         IN /\ from \in 1..B /\ B \in Nat
            /\ from = IF x < st.sch.k THEN st.sch.k * (i - 1) + x + 1
                      ELSE st.sch.k * (i - 1) + st.sch.k
            /\ DOMAIN next = 1..(B - from)
            /\ \A n \in 1..(B - from) : /\ next[n] = BlockOf(st, obj, from + n - 1)
                                        /\ sizes[n] = SizeOf(st, obj, from + n - 1)
            /\ sizes \in [1..(B - from) -> Nat \ {0}]
<1> DEFINE k == st.sch.k
           N == Len(obj.stripes)
           B == BlocksIn(st, obj)
           from == FirstFollowing(st, i, x)
           next == Following(st, obj, i, x)
           sizes == SizesOf(st, next)
<1>1. k \in Nat \ {0} /\ N \in Nat \ {0} /\ B = k * N
  BY StripesInARow DEF BlocksIn
<1>2. from = (i - 1) * k + Min({x + 1, k})
  BY DEF FirstFollowing
<1>3. next = [n \in 1..(N * k - from) |-> BlockOf(st, obj, from + n - 1)]
  BY DEF Following
<1>4. x \in 0..k /\ i \in 1..N
  OBVIOUS
<1> HIDE DEF k, N, B, from, next
<1>5. Min({x + 1, k}) = IF x < k THEN x + 1 ELSE k
  <2>1. {x + 1, k} \in SUBSET Nat /\ {x + 1, k} # {}
    BY <1>1, <1>4
  <2>2. Min({x + 1, k}) \in {x + 1, k} /\ \A n \in {x + 1, k} : Min({x + 1, k}) <= n
    BY <2>1, MinIsMember
  <2> QED BY <1>1, <1>4, <2>2
<1>6. from = IF x < k THEN k * (i - 1) + x + 1 ELSE k * (i - 1) + k
  BY <1>1, <1>2, <1>4, <1>5
<1>7. /\ k * (i - 1) \in Nat /\ k * (i - 1) + k <= k * N
      /\ k * N \in Nat /\ N * k = k * N
  <2>1. k * i <= k * N /\ k * i = k * (i - 1) + k
    BY <1>1, <1>4, Products
  <2> QED BY <1>1, <1>4, <2>1
<1>8. from \in 1..B /\ B \in Nat
  BY <1>1, <1>4, <1>6, <1>7
<1>9. DOMAIN next = 1..(B - from)
  BY <1>1, <1>3, <1>7
<1>10. ASSUME NEW n \in 1..(B - from)
       PROVE  /\ next[n] = BlockOf(st, obj, from + n - 1)
              /\ sizes[n] = SizeOf(st, obj, from + n - 1)
              /\ sizes[n] \in Nat \ {0}
  <2>1. next[n] = BlockOf(st, obj, from + n - 1)
    BY <1>1, <1>3, <1>7
  <2>2. sizes[n] = SizeOf(st, obj, from + n - 1)
    BY <1>9, <2>1 DEF SizeOf, SizesOf
  <2>3. from + n - 1 \in Nat /\ from + n - 1 < B
    BY <1>8
  <2>4. SizeOf(st, obj, from + n - 1) \in Nat \ {0}
    BY <2>3, BlockNumbers DEF B
  <2> QED BY <2>1, <2>2, <2>4
<1>11. sizes \in [1..(B - from) -> Nat \ {0}]
  <2>1. sizes = [n \in 1..(B - from) |-> st.shard[next[n].s]]
    BY <1>9 DEF SizesOf
  <2> QED BY <1>10, <2>1
<1> QED BY <1>6, <1>8, <1>9, <1>10, <1>11 DEF k, B, from, next

(* What they take up is what lies between their first bytes.               *)
LEMMA BlocksAddUp ==
  ASSUME NEW st \in Sites, NEW obj, IsObject(st, obj),
         NEW i \in 1..Len(obj.stripes), NEW x \in 0..st.sch.k
  PROVE  LET from == FirstFollowing(st, i, x)
             next == Following(st, obj, i, x)
             sizes == SizesOf(st, next)
         IN \A t \in Nat : from + t < BlocksIn(st, obj) =>
              SumUpTo(sizes, t) = StartOfBlock(st, obj, from + t)
                                    - StartOfBlock(st, obj, from)
<1> DEFINE B == BlocksIn(st, obj)
           from == FirstFollowing(st, i, x)
           next == Following(st, obj, i, x)
           sizes == SizesOf(st, next)
           start(n) == StartOfBlock(st, obj, n)
           bad == {t \in Nat : from + t < B /\ SumUpTo(sizes, t) # start(from + t) - start(from)}
<1>1. /\ from \in 1..B /\ B \in Nat
      /\ \A n \in 1..(B - from) : sizes[n] = SizeOf(st, obj, from + n - 1)
      /\ sizes \in [1..(B - from) -> Nat \ {0}]
  BY BlocksFollow
<1>2. \A n \in Nat : n < B => start(n) \in Nat /\ SizeOf(st, obj, n) \in Nat
  BY BlockNumbers
<1> SUFFICES ASSUME bad # {} PROVE FALSE
  OBVIOUS
<1>3. PICK t \in bad : \A j \in bad : t <= j
  <2>1. bad \in SUBSET Nat
    OBVIOUS
  <2> HIDE DEF bad
  <2> QED BY <2>1, LeastNumber
<1> HIDE DEF sizes, from, B
<1>4. t # 0
  <2>1. SumUpTo(sizes, 0) = 0
    BY SumSteps
  <2>2. ASSUME t = 0 PROVE FALSE
    <3>1. from < B /\ from \in Nat /\ from + t = from
      BY <1>1, <1>3, <2>2
    <3>2. start(from) \in Nat
      BY <1>2, <3>1
    <3>3. SumUpTo(sizes, t) = 0 /\ start(from + t) = start(from)
      BY <2>1, <2>2, <3>1
    <3>4. SumUpTo(sizes, t) # start(from + t) - start(from)
      BY <1>3
    <3> HIDE DEF start
    <3> QED BY <3>2, <3>3, <3>4
  <2> QED BY <2>2
<1>5. t - 1 \in Nat /\ t - 1 \notin bad /\ from + t < B
  BY <1>3, <1>4
<1>6. from + (t - 1) < B /\ from + (t - 1) \in Nat /\ t \in 1..(B - from)
  BY <1>1, <1>3, <1>5
<1>7. SumUpTo(sizes, t - 1) = start(from + (t - 1)) - start(from)
  BY <1>5, <1>6
<1>8. SumUpTo(sizes, t) = SumUpTo(sizes, t - 1) + sizes[t]
  <2>1. SumUpTo(sizes, (t - 1) + 1) = SumUpTo(sizes, t - 1) + sizes[(t - 1) + 1]
    BY <1>5, SumSteps
  <2>2. (t - 1) + 1 = t
    BY <1>3
  <2> QED BY <2>1, <2>2
<1>9. sizes[t] = SizeOf(st, obj, from + (t - 1))
  <2>1. from + t - 1 = from + (t - 1)
    BY <1>1, <1>3
  <2> QED BY <1>1, <1>6, <2>1
<1>10. start(from + t) = start(from + (t - 1)) + SizeOf(st, obj, from + (t - 1))
  <2> DEFINE m == from + (t - 1)
  <2>1. m \in Nat /\ m + 1 < BlocksIn(st, obj) /\ m + 1 = from + t
    BY <1>1, <1>3, <1>5, <1>6 DEF B
  <2> HIDE DEF m
  <2>2. start(m + 1) = start(m) + SizeOf(st, obj, m)
    BY <2>1, NextBlock
  <2> QED BY <2>1, <2>2 DEF m
<1>11. start(from) \in Nat /\ start(from + (t - 1)) \in Nat /\ SizeOf(st, obj, from + (t - 1)) \in Nat
  <2>1. from \in Nat /\ from < B
    BY <1>1, <1>3, <1>5
  <2>2. \A n \in Nat : n < B => start(n) \in Nat /\ SizeOf(st, obj, n) \in Nat
    BY <1>2
  <2> HIDE DEF start, bad
  <2> QED BY <1>6, <2>1, <2>2
<1>12. SumUpTo(sizes, t) = start(from + t) - start(from)
  <2> DEFINE a == start(from)
             s == start(from + (t - 1))
             r == SizeOf(st, obj, from + (t - 1))
             e == start(from + t)
             before == SumUpTo(sizes, t - 1)
  <2>1. /\ before = s - a /\ SumUpTo(sizes, t) = before + r /\ e = s + r
        /\ a \in Nat /\ s \in Nat /\ r \in Nat
    BY <1>7, <1>8, <1>9, <1>10, <1>11
  <2> HIDE DEF a, s, r, e, before
  <2>2. SumUpTo(sizes, t) = e - a
    BY <2>1
  <2> QED BY <2>2 DEF e, a
<1> QED BY <1>3, <1>12

(* What is left of an update at the n-th block after the first.            *)
LeftAt(st, obj, from, rest, n) ==
  rest - (StartOfBlock(st, obj, from + n - 1) - StartOfBlock(st, obj, from))
LeastOf(room, left) == IF room <= left THEN room ELSE left

RangesIn(st) ==
  [stripe : DOMAIN st.at, block : Blocks(st.sch), offset : Nat, length : Nat \ {0}]

(* The ranges one by one: the first, in block x of stripe i, and c in the  *)
(* blocks after it.                                                        *)
IsSplit(st, obj, offset, length, split, i, x, o, c) ==
  LET size == st.shard[obj.stripes[i]]
      from == FirstFollowing(st, i, x)
      first == LeastOf(size - o, length)
      left(n) == LeftAt(st, obj, from, length - first, n)
  IN /\ i \in 1..Len(obj.stripes) /\ x \in 0..st.sch.k /\ o \in 0..(size - 1)
     /\ offset = BytesBefore(st, obj, i) + size * x + o
     /\ offset <= BytesBefore(st, obj, i + 1)
     /\ offset < BytesBefore(st, obj, i + 1) => x < st.sch.k
     /\ c \in 0..(BlocksIn(st, obj) - from)
     /\ \A n \in 1..(BlocksIn(st, obj) - from) : n <= c <=> left(n) > 0
     /\ split \in Seq(RangesIn(st)) /\ Len(split) = c + 1
     /\ split[1] = Range0(obj.stripes[i], x, o, first)
     /\ \A n \in 1..c :
          LET b == from + n - 1
          IN split[n + 1] = Range0(BlockOf(st, obj, b).s, BlockOf(st, obj, b).x, 0,
                                   LeastOf(SizeOf(st, obj, b), left(n)))

LEMMA SplitRanges ==
  ASSUME NEW st \in Sites, NEW obj, IsObject(st, obj), obj.big,
         NEW offset \in Nat, offset < obj.size, NEW length \in Nat \ {0}
  PROVE  \E i, x, o, c :
           IsSplit(st, obj, offset, length, SplitBig(st, obj, offset, length), i, x, o, c)
<1> DEFINE i == StartOf(st, obj, offset)
           s == obj.stripes[i]
           size == st.shard[s]
           before(j) == BytesBefore(st, obj, j)
           x == (offset - before(i)) \div size
           o == (offset - before(i)) % size
           first == Taken(size - o, length)
           B == BlocksIn(st, obj)
           from == FirstFollowing(st, i, x)
           next == Following(st, obj, i, x)
           sizes == SizesOf(st, next)
           left(n) == length - first - SumUpTo(sizes, n - 1)
           used == {n \in DOMAIN next : left(n) > 0}
           c == Cardinality(used)
           start(n) == StartOfBlock(st, obj, n)
           at(n) == LeftAt(st, obj, from, length - first, n)
           split == SplitBig(st, obj, offset, length)
<1>1. /\ i \in 1..Len(obj.stripes) /\ size \in Nat \ {0}
      /\ x \in 0..st.sch.k /\ o \in 0..(size - 1)
      /\ offset = before(i) + size * x + o
      /\ offset <= before(i + 1)
      /\ offset < before(i + 1) => x < st.sch.k
  BY UpdateBegins
<1>2. split = <<Range0(s, x, o, first)>>
                \o [n \in 1..c |-> Range0(next[n].s, next[n].x, 0, Taken(sizes[n], left(n)))]
  BY DEF SplitBig, Needed
<1> HIDE DEF i, x, o, split
<1>3. first = LeastOf(size - o, length) /\ first \in 1..length
  <2>1. size \in Nat \ {0} /\ o \in 0..(size - 1)
    BY <1>1
  <2> HIDE DEF size
  <2>2. size - o \in Nat \ {0}
    BY <2>1
  <2> QED BY <2>2, TakenIs DEF LeastOf
<1>4. /\ from \in 1..B /\ B \in Nat /\ DOMAIN next = 1..(B - from)
      /\ \A n \in 1..(B - from) : /\ next[n] = BlockOf(st, obj, from + n - 1)
                                  /\ sizes[n] = SizeOf(st, obj, from + n - 1)
      /\ sizes \in [1..(B - from) -> Nat \ {0}]
  BY <1>1, BlocksFollow
<1>5. \A t \in Nat : from + t < B => SumUpTo(sizes, t) = start(from + t) - start(from)
  BY <1>1, BlocksAddUp
<1> HIDE DEF first, next, sizes, from, B, size
<1>6. /\ \A m \in 0..(B - from) : SumUpTo(sizes, m) \in Nat
      /\ \A m1, m2 \in 0..(B - from) : m1 <= m2 => SumUpTo(sizes, m1) <= SumUpTo(sizes, m2)
  <2> DEFINE max == B - from
  <2>1. max \in Nat /\ sizes \in [1..max -> Nat]
    BY <1>4
  <2> HIDE DEF max
  <2>2. /\ \A m \in 0..max : SumUpTo(sizes, m) \in Nat
        /\ \A m1, m2 \in 0..max : m1 <= m2 => SumUpTo(sizes, m1) <= SumUpTo(sizes, m2)
    BY <2>1, SumsGrow
  <2> QED BY <2>2 DEF max
<1>7. ASSUME NEW n \in 1..(B - from)
      PROVE  left(n) = at(n) /\ left(n) \in Int
  <2>1. n - 1 \in Nat /\ from + (n - 1) < B /\ n - 1 \in 0..(B - from)
        /\ from + (n - 1) = from + n - 1
    BY <1>4
  <2>2. SumUpTo(sizes, n - 1) = start(from + n - 1) - start(from) /\ SumUpTo(sizes, n - 1) \in Nat
    BY <1>5, <1>6, <2>1
  <2> HIDE DEF start
  <2> QED BY <1>3, <2>2 DEF LeftAt, start
<1>8. used \in SUBSET (1..(B - from)) /\ \A j \in used : \A m \in 1..j : m \in used
  <2>1. ASSUME NEW j \in used, NEW m \in 1..j PROVE m \in used
    <3>1. /\ m \in 1..(B - from) /\ j \in 1..(B - from)
          /\ m - 1 \in 0..(B - from) /\ j - 1 \in 0..(B - from) /\ m - 1 <= j - 1
      BY <1>4
    <3>2. SumUpTo(sizes, m - 1) <= SumUpTo(sizes, j - 1)
      BY <1>6, <3>1
    <3>3. /\ left(j) > 0
          /\ SumUpTo(sizes, m - 1) \in Nat /\ SumUpTo(sizes, j - 1) \in Nat
      BY <1>6, <3>1
    <3>4. left(m) > 0
      BY <1>3, <3>2, <3>3
    <3> QED BY <1>4, <3>1, <3>4
  <2> QED BY <1>4, <2>1
<1>9. used = 1..c /\ c \in 0..(B - from)
  <2> DEFINE max == B - from
  <2>1. max \in Nat /\ used \in SUBSET (1..max)
    BY <1>4, <1>8
  <2> HIDE DEF max, used
  <2>2. used = 1..Cardinality(used) /\ Cardinality(used) \in 0..max
    BY <1>8, <2>1, UpTo
  <2> QED BY <2>2 DEF max
<1>10. \A n \in 1..(B - from) : n <= c <=> at(n) > 0
  <2> SUFFICES ASSUME NEW n \in 1..(B - from) PROVE n <= c <=> at(n) > 0
    OBVIOUS
  <2>1. left(n) > 0 <=> n \in used
    BY <1>4
  <2> HIDE DEF used, left, at, c
  <2>2. n \in used <=> n <= c
    BY <1>4, <1>9
  <2> QED BY <1>7, <2>1, <2>2
<1> DEFINE rest == [n \in 1..c |-> Range0(next[n].s, next[n].x, 0, Taken(sizes[n], left(n)))]
<1>11. ASSUME NEW n \in 1..c
       PROVE  LET b == from + n - 1 IN
              /\ rest[n] = Range0(BlockOf(st, obj, b).s, BlockOf(st, obj, b).x, 0,
                                  LeastOf(SizeOf(st, obj, b), at(n)))
              /\ rest[n] \in RangesIn(st)
  <2> DEFINE b == from + n - 1
  <2> HIDE DEF c, left, at, used
  <2>1. n \in 1..(B - from) /\ b \in Nat /\ b < B
    BY <1>4, <1>9
  <2>2. left(n) = at(n) /\ left(n) \in Nat \ {0}
    <3>1. n <= c
      OBVIOUS
    <3>2. at(n) > 0
      BY <1>10, <2>1, <3>1
    <3> QED BY <1>7, <2>1, <3>2
  <2>3. next[n] = BlockOf(st, obj, b) /\ sizes[n] = SizeOf(st, obj, b) /\ sizes[n] \in Nat \ {0}
    BY <1>4, <2>1
  <2>4. Taken(sizes[n], left(n)) = LeastOf(sizes[n], at(n))
    BY <2>2, <2>3, TakenIs DEF LeastOf
  <2>5. Taken(sizes[n], left(n)) \in Nat \ {0}
    BY <2>2, <2>3, <2>4 DEF LeastOf
  <2> HIDE DEF b
  <2>6. BlockOf(st, obj, b).s \in DOMAIN st.at /\ BlockOf(st, obj, b).x \in Blocks(st.sch)
    <3> DEFINE d == b \div st.sch.k + 1
               y == b % st.sch.k
    <3>1. /\ BlockOf(st, obj, b) = [s |-> obj.stripes[d], x |-> y]
          /\ d \in 1..Len(obj.stripes) /\ y \in 0..(st.sch.k - 1)
      BY <2>1, BlockIsAt DEF B
    <3> HIDE DEF d, y
    <3>2. obj.stripes[d] \in DOMAIN st.at
      BY <3>1, StripesInARow
    <3>3. IsScheme(st.sch)
      BY SitesAssumption
    <3>4. st.sch.k + st.sch.g <= Size(st.sch) /\ Size(st.sch) \in Nat /\ {st.sch.k, st.sch.g} \subseteq Nat
      BY <3>3, BlocksAreNumbers DEF IsScheme
    <3>5. y \in Blocks(st.sch)
      BY <3>1, <3>4 DEF Blocks
    <3> QED BY <3>1, <3>2, <3>5
  <2>7. rest[n] = Range0(BlockOf(st, obj, b).s, BlockOf(st, obj, b).x, 0, Taken(sizes[n], left(n)))
    BY <2>3
  <2>8. rest[n] \in RangesIn(st)
    BY <2>5, <2>6, <2>7 DEF Range0, RangesIn
  <2> QED BY <2>3, <2>4, <2>7, <2>8 DEF b
<1>12. Range0(s, x, o, first) \in RangesIn(st)
  <2>1. s \in DOMAIN st.at
    <3> HIDE DEF before
    <3> QED BY <1>1, StripesInARow
  <2>2. IsScheme(st.sch)
    BY SitesAssumption
  <2>3. /\ st.sch.k + st.sch.g <= Size(st.sch) /\ Size(st.sch) \in Nat
        /\ st.sch.k \in Nat /\ st.sch.g \in Nat \ {0}
    BY <2>2, BlocksAreNumbers DEF IsScheme
  <2>4. x \in Blocks(st.sch)
    <3>1. x \in 0..st.sch.k
      BY <1>1, Zenon
    <3> QED BY <2>3, <3>1 DEF Blocks
  <2>5. o \in Nat /\ first \in Nat \ {0}
    <3>1. size \in Nat \ {0} /\ o \in 0..(size - 1) /\ first \in 1..length
      BY <1>1, <1>3
    <3> HIDE DEF size, first
    <3> QED BY <3>1
  <2> HIDE DEF s
  <2> QED BY <2>1, <2>4, <2>5 DEF Range0, RangesIn
<1> HIDE DEF rest, c, left, at
<1>13. /\ split \in Seq(RangesIn(st)) /\ Len(split) = c + 1
       /\ split[1] = Range0(s, x, o, first)
       /\ \A n \in 1..c : split[n + 1] = rest[n]
  <2> DEFINE r1 == Range0(s, x, o, first)
  <2>1. r1 \in RangesIn(st)
    BY <1>12
  <2>2. c \in Nat
    BY <1>4, <1>9
  <2>3. rest \in Seq(RangesIn(st)) /\ Len(rest) = c
    <3>1. rest = [n \in 1..c |-> rest[n]]
      BY DEF rest
    <3>2. rest \in [1..c -> RangesIn(st)]
      BY <1>11, <3>1
    <3> QED BY <2>2, <3>2
  <2>4. split = <<r1>> \o rest
    BY <1>2 DEF rest
  <2> HIDE DEF r1
  <2>5. <<r1>> \in Seq(RangesIn(st)) /\ Len(<<r1>>) = 1 /\ <<r1>>[1] = r1
    BY <2>1
  <2>6. split \in Seq(RangesIn(st)) /\ Len(split) = c + 1 /\ split[1] = r1
    BY <2>2, <2>3, <2>4, <2>5
  <2>7. ASSUME NEW n \in 1..c PROVE split[n + 1] = rest[n]
    BY <2>2, <2>3, <2>4, <2>5
  <2> QED BY <2>6, <2>7 DEF r1
<1>14. ASSUME NEW n \in 1..c
       PROVE  LET b == from + n - 1
              IN split[n + 1] = Range0(BlockOf(st, obj, b).s, BlockOf(st, obj, b).x, 0,
                                       LeastOf(SizeOf(st, obj, b), at(n)))
  BY <1>11, <1>13
<1>15. IsSplit(st, obj, offset, length, split, i, x, o, c)
  BY <1>1, <1>3, <1>9, <1>10, <1>13, <1>14 DEF IsSplit, from, B, at, size
<1> QED BY <1>15 DEF split

(* Blocks of an object are different ones.                                 *)
LEMMA BlocksDiffer ==
  ASSUME NEW st \in Sites, NEW obj, IsObject(st, obj),
         NEW n \in 0..(BlocksIn(st, obj) - 1), NEW m \in 0..(BlocksIn(st, obj) - 1),
         BlockOf(st, obj, n).s = BlockOf(st, obj, m).s,
         BlockOf(st, obj, n).x = BlockOf(st, obj, m).x
  PROVE  n = m
<1> DEFINE k == st.sch.k
           i(u) == u \div k + 1
           x(u) == u % k
<1>1. BlocksIn(st, obj) \in Nat
  BY BlockNumbers
<1>2. \A u \in {n, m} :
        /\ i(u) \in 1..Len(obj.stripes) /\ x(u) \in 0..(k - 1) /\ u = k * (i(u) - 1) + x(u)
        /\ BlockOf(st, obj, u) = [s |-> obj.stripes[i(u)], x |-> x(u)]
  <2> SUFFICES ASSUME NEW u \in {n, m}
               PROVE  /\ i(u) \in 1..Len(obj.stripes) /\ x(u) \in 0..(k - 1)
                      /\ u = k * (i(u) - 1) + x(u)
                      /\ BlockOf(st, obj, u) = [s |-> obj.stripes[i(u)], x |-> x(u)]
    OBVIOUS
  <2>1. u \in Nat /\ u < BlocksIn(st, obj)
    BY <1>1
  <2> QED BY <2>1, BlockIsAt
<1> HIDE DEF i, x
<1>3. obj.stripes[i(n)] = obj.stripes[i(m)] /\ x(n) = x(m)
  BY <1>2
<1>4. i(n) = i(m)
  <2>1. \A j1, j2 \in DOMAIN obj.stripes : obj.stripes[j1] = obj.stripes[j2] => j1 = j2
    BY DEF IsObject
  <2>2. DOMAIN obj.stripes = 1..Len(obj.stripes)
    BY StripesInARow
  <2> QED BY <1>2, <1>3, <2>1, <2>2
<1> QED BY <1>2, <1>3, <1>4

(* An update that does not begin where a stripe after the first does begins*)
(* in a block; the ranges are those of the blocks from this one on that    *)
(* have a byte of it.                                                      *)
LEMMA RangesInBlocks ==
  ASSUME NEW st \in Sites, NEW obj, IsObject(st, obj), obj.big,
         NEW offset \in Nat, offset < obj.size, NEW length \in Nat \ {0},
         RegularIn(st, obj, offset, length)
  PROVE  LET split == SplitBig(st, obj, offset, length)
             B == BlocksIn(st, obj)
             end == offset + length
             start(b) == StartOfBlock(st, obj, b)
         IN \E c0 \in Nat, c \in Nat :
              /\ c0 + c < B /\ start(c0) <= offset /\ DOMAIN split = 1..(c + 1)
              /\ \A b \in (c0 + 1)..(B - 1) : b <= c0 + c <=> start(b) < end
              /\ \A m \in 1..(c + 1) :
                   LET b == c0 + m - 1
                       low == IF m = 1 THEN offset ELSE start(b)
                       high == LeastOf(start(b) + SizeOf(st, obj, b), end)
                   IN /\ split[m] = Range0(BlockOf(st, obj, b).s, BlockOf(st, obj, b).x,
                                           low - start(b), high - low)
                      /\ low < high
<1> DEFINE split == SplitBig(st, obj, offset, length)
           B == BlocksIn(st, obj)
           end == offset + length
           k == st.sch.k
           N == Len(obj.stripes)
           before(j) == BytesBefore(st, obj, j)
           start(b) == StartOfBlock(st, obj, b)
           size(b) == SizeOf(st, obj, b)
<1>1. PICK i, x, o, c : IsSplit(st, obj, offset, length, split, i, x, o, c)
  BY SplitRanges
<1> DEFINE from == FirstFollowing(st, i, x)
           c0 == k * (i - 1) + x
           s == obj.stripes[i]
           first == LeastOf(st.shard[s] - o, length)
           left(n) == LeftAt(st, obj, from, length - first, n)
<1> HIDE DEF split
<1>2. /\ i \in 1..N /\ x \in 0..k
      /\ offset <= before(i + 1)
      /\ offset < before(i + 1) => x < k
  BY <1>1 DEF IsSplit
<1>12. /\ o \in 0..(st.shard[s] - 1)
       /\ offset = before(i) + st.shard[s] * x + o
  BY <1>1 DEF IsSplit
<1>13. c \in 0..(B - from) /\ \A n \in 1..(B - from) : n <= c <=> left(n) > 0
  BY <1>1 DEF IsSplit
<1>14. split \in Seq(RangesIn(st)) /\ Len(split) = c + 1 /\ split[1] = Range0(s, x, o, first)
  BY <1>1 DEF IsSplit
<1>3. \A n \in 1..c :
         LET b == from + n - 1
         IN split[n + 1] = Range0(BlockOf(st, obj, b).s, BlockOf(st, obj, b).x, 0,
                                  LeastOf(size(b), left(n)))
  BY <1>1 DEF IsSplit
<1>4. N \in Nat \ {0} /\ k \in Nat \ {0} /\ B \in Nat
  BY StripesInARow, BlockNumbers
<1>15. \A j \in 1..(N + 1) : before(j) \in Nat
  BY StripesInARow
<1>5. x < k
  <2>1. offset + length <= obj.size
    BY DEF RegularIn
  <2>2. i # N => offset # before(i + 1)
    <3>1. \A j \in 2..N : offset # before(j)
      BY DEF RegularIn
    <3> HIDE DEF before, N
    <3>2. i + 1 \in 2..N \/ i = N
      BY <1>2, <1>4
    <3> QED BY <3>1, <3>2
  <2>3. i = N => offset < before(i + 1)
    <3>1. obj.size <= before(N + 1) /\ obj.size \in Nat
      BY DEF IsObject
    <3>2. before(N + 1) \in Nat
      <4> HIDE DEF before, N
      <4> QED BY <1>4, <1>15
    <3> HIDE DEF before, N
    <3> QED BY <3>1, <3>2
  <2>4. before(i + 1) \in Nat
    <3> HIDE DEF before, N, k
    <3>1. i + 1 \in 1..(N + 1)
      BY <1>2, <1>4
    <3> QED BY <1>15, <3>1
  <2> HIDE DEF before, N, k
  <2> QED BY <1>2, <2>2, <2>3, <2>4
<1>6. /\ c0 \in Nat /\ c0 < B /\ from = c0 + 1
      /\ BlockOf(st, obj, c0) = [s |-> s, x |-> x]
      /\ size(c0) = st.shard[s] /\ size(c0) \in Nat \ {0}
      /\ offset = start(c0) + o /\ start(c0) \in Nat
  <2>1. from = c0 + 1 /\ from \in 1..B
    BY <1>2, <1>5, BlocksFollow
  <2>2. k * (i - 1) \in Nat
    <3> HIDE DEF k, N
    <3> QED BY <1>2, <1>4
  <2>3. c0 \in Nat /\ c0 < B
    <3> HIDE DEF k, from, B
    <3> QED BY <1>2, <1>4, <2>1, <2>2
  <2>4. c0 \div k = i - 1 /\ c0 % k = x
    <3> DEFINE j == i - 1
               kj == k * j
    <3>1. c0 = kj + x /\ kj \in Nat /\ j \in Nat /\ j + 1 = i /\ x \in Nat
      <4> HIDE DEF k, N
      <4> QED BY <1>2, <1>4, <2>2
    <3>2. c0 \in Nat /\ k * j <= c0 /\ c0 < k * j + k /\ c0 - k * j = x
      <4> HIDE DEF k, N, kj, c0, j
      <4>1. c0 \in Nat /\ kj <= c0 /\ c0 < kj + k /\ c0 - kj = x
        BY <1>2, <1>4, <1>5, <3>1
      <4> QED BY <4>1 DEF kj
    <3> HIDE DEF j, c0, k
    <3>3. c0 \div k = j /\ c0 % k = c0 - k * j
      BY <1>4, <3>1, <3>2, RemainderIs
    <3> QED BY <3>2, <3>3 DEF j
  <2>5. /\ BlockOf(st, obj, c0) = [s |-> obj.stripes[(c0 \div k) + 1], x |-> c0 % k]
        /\ size(c0) = st.shard[obj.stripes[(c0 \div k) + 1]] /\ size(c0) \in Nat \ {0}
        /\ start(c0) = before((c0 \div k) + 1)
                          + st.shard[obj.stripes[(c0 \div k) + 1]] * (c0 % k)
        /\ start(c0) \in Nat
    <3> HIDE DEF c0
    <3> QED BY <2>3, BlocksInARow
  <2>6. (c0 \div k) + 1 = i
    BY <1>2, <2>4
  <2> HIDE DEF c0, k, before, start
  <2>7. start(c0) = before(i) + st.shard[s] * x
    BY <2>4, <2>5, <2>6
  <2>8. offset = start(c0) + o
    BY <1>12, <2>7
  <2> QED BY <2>1, <2>3, <2>4, <2>5, <2>6, <2>8
<1> HIDE DEF c0, from, B, start, size, before, k, N
<1>7. /\ first \in 1..length /\ o \in 0..(size(c0) - 1)
      /\ first = LeastOf(start(c0) + size(c0), end) - offset
  <2>1. first = LeastOf(size(c0) - o, length) /\ o \in 0..(size(c0) - 1)
    BY <1>6, <1>12
  <2> HIDE DEF s, first
  <2> QED BY <1>6, <2>1 DEF LeastOf
<1> HIDE DEF first, end
<1>8. ASSUME NEW b \in (c0 + 1)..(B - 1)
      PROVE  /\ start(b) \in Nat /\ size(b) \in Nat \ {0}
             /\ b <= c0 + c <=> start(b) < end
             /\ b <= c0 + c => left(b - c0) = end - start(b)
  <2> DEFINE n == b - c0
  <2>1. n \in 1..(B - from) /\ from + n - 1 = b /\ b \in Nat /\ b < B /\ from < B
        /\ from \in Nat /\ c0 < b
    BY <1>4, <1>6
  <2>2. start(b) \in Nat /\ size(b) \in Nat \ {0} /\ start(from) \in Nat
    BY <2>1, BlockNumbers DEF B, start, size
  <2>3. start(from) = start(c0) + size(c0)
    <3>1. c0 + 1 < BlocksIn(st, obj)
      BY <1>6, <2>1 DEF B
    <3> QED BY <1>6, <3>1, NextBlock DEF start, size
  <2>4. start(c0) + size(c0) <= start(b)
    BY <1>6, <2>1, BlocksApart DEF start, size, B
  <2>5. left(n) = length - first - (start(b) - start(from))
    BY <2>1 DEF LeftAt, start
  <2>6. b <= c0 + c <=> left(n) > 0
    <3>1. b <= c0 + c <=> n <= c
      BY <1>6, <1>13
    <3> HIDE DEF n, left
    <3> QED BY <1>13, <2>1, <3>1
  <2> HIDE DEF left, n
  <2>7. first = IF start(c0) + size(c0) <= end THEN start(c0) + size(c0) - offset ELSE length
    BY <1>6, <1>7 DEF LeastOf, end
  <2>8. CASE start(c0) + size(c0) <= end
    <3>1. left(n) = end - start(b)
      BY <1>6, <2>2, <2>3, <2>5, <2>7, <2>8 DEF end
    <3> QED BY <1>6, <2>2, <2>6, <3>1 DEF n, end
  <2>9. CASE ~(start(c0) + size(c0) <= end)
    <3>1. first = length
      BY <2>7, <2>9
    <3>2. left(n) <= 0 /\ left(n) \in Int
      BY <1>6, <2>2, <2>3, <2>4, <2>5, <3>1
    <3>3. ~(start(b) < end)
      BY <1>6, <2>2, <2>4, <2>9 DEF end
    <3> QED BY <2>2, <2>6, <3>2, <3>3
  <2> QED BY <2>8, <2>9
<1>9. ASSUME NEW m \in 1..(c + 1)
      PROVE  LET b == c0 + m - 1
                 low == IF m = 1 THEN offset ELSE start(b)
                 high == LeastOf(start(b) + size(b), end)
             IN /\ split[m] = Range0(BlockOf(st, obj, b).s, BlockOf(st, obj, b).x,
                                     low - start(b), high - low)
                /\ low < high
  <2> DEFINE b == c0 + m - 1
             low == IF m = 1 THEN offset ELSE start(b)
             high == LeastOf(start(b) + size(b), end)
  <2>1. CASE m = 1
    <3>1. b = c0 /\ low = offset
      BY <1>6, <2>1
    <3>2. low - start(b) = o /\ high - low = first /\ low < high
      <4>1. high = LeastOf(start(c0) + size(c0), end) /\ high \in Int
        <5>1. end \in Nat
          BY DEF end
        <5> QED BY <1>6, <3>1, <5>1 DEF LeastOf
      <4> HIDE DEF b, low, high
      <4> QED BY <1>6, <1>7, <3>1, <4>1
    <3>3. split[1] = Range0(s, x, o, first)
      BY <1>14
    <3> HIDE DEF b, low, high
    <3>4. split[m] = Range0(BlockOf(st, obj, b).s, BlockOf(st, obj, b).x, low - start(b), high - low)
      BY <1>6, <2>1, <3>1, <3>2, <3>3
    <3> QED BY <3>2, <3>4 DEF b, low, high
  <2>2. CASE m # 1
    <3> DEFINE n == m - 1
    <3>1. /\ n \in 1..c /\ n + 1 = m /\ from + n - 1 = b /\ b \in (c0 + 1)..(B - 1)
          /\ b <= c0 + c /\ b - c0 = n /\ low = start(b)
      BY <1>4, <1>6, <1>13, <2>2
    <3> HIDE DEF n, b, low
    <3>2. /\ split[n + 1] = Range0(BlockOf(st, obj, b).s, BlockOf(st, obj, b).x, 0,
                                   LeastOf(size(b), left(n)))
      BY <1>3, <3>1
    <3>3. /\ start(b) \in Nat /\ size(b) \in Nat \ {0} /\ start(b) < end
          /\ left(n) = end - start(b)
      BY <1>8, <3>1
    <3> HIDE DEF left
    <3>4. LeastOf(size(b), left(n)) = high - low /\ low < high /\ low - start(b) = 0
      BY <3>1, <3>3 DEF LeastOf, end
    <3> HIDE DEF high
    <3>5. split[m] = Range0(BlockOf(st, obj, b).s, BlockOf(st, obj, b).x, low - start(b), high - low)
      BY <3>1, <3>2, <3>4
    <3> QED BY <3>4, <3>5 DEF b, low, high
  <2> QED BY <2>1, <2>2
<1>10. c0 + c < B /\ start(c0) <= offset /\ DOMAIN split = 1..(c + 1) /\ c \in Nat
  <2>1. DOMAIN split = 1..(c + 1)
    BY <1>14
  <2> QED BY <1>4, <1>6, <1>7, <1>13, <2>1
<1>11. \A b \in (c0 + 1)..(B - 1) : b <= c0 + c <=> start(b) < end
  BY <1>8
<1> QED BY <1>6, <1>9, <1>10, <1>11 DEF split, B, end, start, size

(* So the split is exact.                                                  *)
LEMMA BigCovered ==
  ASSUME NEW st \in Sites, NEW obj, IsObject(st, obj), obj.big,
         NEW offset \in Nat, offset < obj.size, NEW length \in Nat \ {0},
         RegularIn(st, obj, offset, length)
  PROVE  IsExact(SplitBig(st, obj, offset, length), BytesAt(st, obj, offset, length))
<1> DEFINE split == SplitBig(st, obj, offset, length)
           B == BlocksIn(st, obj)
           end == offset + length
           start(b) == StartOfBlock(st, obj, b)
           size(b) == SizeOf(st, obj, b)
           block(b) == BlockOf(st, obj, b)
           place(p) == Place(st, obj, p)
<1>1. PICK c0 \in Nat, c \in Nat :
        /\ c0 + c < B /\ start(c0) <= offset /\ DOMAIN split = 1..(c + 1)
        /\ \A b \in (c0 + 1)..(B - 1) : b <= c0 + c <=> start(b) < end
        /\ \A m \in 1..(c + 1) :
             LET b == c0 + m - 1
                 low == IF m = 1 THEN offset ELSE start(b)
                 high == LeastOf(start(b) + size(b), end)
             IN /\ split[m] = Range0(block(b).s, block(b).x, low - start(b), high - low)
                /\ low < high
  BY RangesInBlocks
<1>2. B \in Nat /\ \A b \in Nat : b < B => start(b) \in Nat /\ size(b) \in Nat \ {0}
  BY BlockNumbers
<1> DEFINE at(m) == c0 + m - 1
           low(m) == IF m = 1 THEN offset ELSE start(at(m))
           high(m) == LeastOf(start(at(m)) + size(at(m)), end)
<1>3. ASSUME NEW m \in 1..(c + 1)
      PROVE  /\ at(m) \in Nat /\ at(m) < B /\ low(m) \in Nat /\ high(m) \in Nat
             /\ offset <= low(m) /\ start(at(m)) <= low(m) /\ low(m) < high(m)
             /\ high(m) <= end /\ high(m) <= start(at(m)) + size(at(m))
             /\ start(at(m)) \in Nat
             /\ split[m] = Range0(block(at(m)).s, block(at(m)).x,
                                  low(m) - start(at(m)), high(m) - low(m))
  <2> DEFINE b == at(m)
  <2>1. /\ split[m] = Range0(block(b).s, block(b).x, low(m) - start(b), high(m) - low(m))
        /\ low(m) < high(m)
    BY <1>1
  <2>2. b \in Nat /\ b < B /\ (m = 1 => b = c0) /\ (m # 1 => c0 < b)
    BY <1>1, <1>2
  <2>3. start(b) \in Nat /\ size(b) \in Nat \ {0}
    BY <1>2, <2>2
  <2>4. m # 1 => offset <= start(b)
    <3> SUFFICES ASSUME m # 1 PROVE offset <= start(b)
      OBVIOUS
    <3>1. start(c0) + size(c0) <= start(b)
      BY <2>2, BlocksApart
    <3>2. offset < LeastOf(start(c0) + size(c0), end)
      <4>1. 1 \in 1..(c + 1) /\ c0 + 1 - 1 = c0
        BY <1>1
      <4>2. offset < LeastOf(start(c0 + 1 - 1) + size(c0 + 1 - 1), end)
        BY <1>1, <4>1
      <4> HIDE DEF start, size, end
      <4> QED BY <4>1, <4>2
    <3>3. start(c0) \in Nat /\ size(c0) \in Nat
      <4>1. c0 < B
        BY <1>1, <1>2
      <4> QED BY <1>2, <4>1
    <3> HIDE DEF start, size, b
    <3> QED BY <2>3, <3>1, <3>2, <3>3 DEF LeastOf
  <2>5. /\ high(m) \in Nat /\ high(m) <= end /\ high(m) <= start(b) + size(b)
    <3>1. high(m) = LeastOf(start(b) + size(b), end) /\ end \in Nat
      OBVIOUS
    <3> HIDE DEF b, start, size, high, end
    <3> QED BY <2>3, <3>1 DEF LeastOf
  <2>6. low(m) \in Nat /\ start(b) <= low(m) /\ offset <= low(m)
    <3>1. m = 1 => start(b) <= offset
      BY <1>1, <2>2
    <3>2. low(m) = IF m = 1 THEN offset ELSE start(b)
      OBVIOUS
    <3> HIDE DEF b, start, low
    <3> QED BY <2>3, <2>4, <3>1, <3>2
  <2> QED BY <2>1, <2>2, <2>3, <2>5, <2>6
<1> HIDE DEF split, low, high, at, start, size, B, end
<1>4. ASSUME NEW m \in 1..(c + 1), NEW byte
      PROVE  byte \in BytesOf(split[m])
               <=> \E p \in low(m)..(high(m) - 1) :
                     /\ byte = place(p)
                     /\ byte.stripe = block(at(m)).s /\ byte.block = block(at(m)).x
  <2> DEFINE b == at(m)
             o == low(m) - start(b)
             l == high(m) - low(m)
             there(u) == [stripe |-> block(b).s, block |-> block(b).x, offset |-> u]
  <2>1. split[m] = Range0(block(b).s, block(b).x, o, l)
    BY <1>3
  <2> HIDE DEF b, o, l, block
  <2>2. BytesOf(split[m]) = {there(o + n) : n \in 0..(l - 1)}
    BY <2>1 DEF BytesOf, Range0
  <2>3. /\ b \in Nat /\ b < B /\ low(m) \in Nat /\ high(m) \in Nat /\ start(b) \in Nat
        /\ start(b) <= low(m) /\ high(m) <= start(b) + size(b) /\ size(b) \in Nat
        /\ o = low(m) - start(b) /\ l = high(m) - low(m)
    BY <1>2, <1>3 DEF b, o, l
  <2>4. ASSUME NEW p \in low(m)..(high(m) - 1)
        PROVE  place(p) = there(p - start(b))
    <3>1. p \in Nat /\ start(b) <= p /\ p < start(b) + size(b)
      BY <2>3
    <3> QED BY <2>3, <3>1, PlaceOfByte DEF start, size, B, block
  <2>5. ASSUME byte \in BytesOf(split[m])
        PROVE  \E p \in low(m)..(high(m) - 1) :
                 /\ byte = place(p)
                 /\ byte.stripe = block(b).s /\ byte.block = block(b).x
    <3>1. PICK n \in 0..(l - 1) : byte = there(o + n)
      BY <2>2, <2>5
    <3> DEFINE p == low(m) + n
    <3>2. p \in low(m)..(high(m) - 1) /\ p - start(b) = o + n
      BY <2>3
    <3> HIDE DEF p
    <3>3. place(p) = byte
      BY <2>4, <3>1, <3>2
    <3> QED BY <3>1, <3>2, <3>3
  <2>6. ASSUME NEW p \in low(m)..(high(m) - 1), byte = place(p)
        PROVE  byte \in BytesOf(split[m])
    <3> DEFINE n == p - low(m)
    <3>1. n \in 0..(l - 1) /\ o + n = p - start(b)
      BY <2>3
    <3>2. byte = there(o + n)
      BY <2>4, <2>6, <3>1
    <3> HIDE DEF n
    <3> QED BY <2>2, <3>1, <3>2
  <2> QED BY <2>5, <2>6 DEF b
<1>5. ASSUME NEW p \in offset..(end - 1)
      PROVE  \E m \in 1..(c + 1) : place(p) \in BytesOf(split[m])
  <2>1. p \in Nat /\ p < BytesBefore(st, obj, Len(obj.stripes) + 1) /\ offset <= p /\ p < end
        /\ end \in Nat
    <3>1. /\ obj.size <= BytesBefore(st, obj, Len(obj.stripes) + 1) /\ obj.size \in Nat
          /\ offset + length <= obj.size
      BY DEF IsObject, RegularIn
    <3>2. BytesBefore(st, obj, Len(obj.stripes) + 1) \in Nat
      <4>1. Len(obj.stripes) + 1 \in 1..(Len(obj.stripes) + 1)
        BY StripesInARow
      <4> QED BY <4>1, StripesInARow
    <3> QED BY <3>1, <3>2 DEF end
  <2>2. PICK n \in 0..(B - 1) : start(n) <= p /\ p < start(n) + size(n)
    BY <2>1, BlockOfByte DEF start, size, B
  <2>3. /\ n \in Nat /\ n < B /\ start(n) \in Nat /\ size(n) \in Nat
        /\ c0 < B /\ start(c0) \in Nat /\ start(c0) <= offset
    BY <1>1, <1>2
  <2>4. ~(n < c0)
    <3>1. n < c0 => start(n) + size(n) <= start(c0)
      BY <2>3, BlocksApart DEF start, size, B
    <3> QED BY <2>1, <2>2, <2>3, <3>1
  <2> DEFINE m == n - c0 + 1
  <2>5. m \in 1..(c + 1) /\ at(m) = n
    <3>1. n <= c0 + c
      <4>1. CASE n = c0
        BY <4>1
      <4>2. CASE n # c0
        <5>1. n \in (c0 + 1)..(B - 1) /\ start(n) < end
          BY <1>2, <2>1, <2>2, <2>3, <2>4, <4>2
        <5> QED BY <1>1, <5>1
      <4> QED BY <4>1, <4>2
    <3> QED BY <2>3, <2>4, <3>1 DEF at
  <2> HIDE DEF m
  <2>6. p \in low(m)..(high(m) - 1)
    <3>1. low(m) <= p
      BY <2>1, <2>2, <2>5 DEF low
    <3>2. p < high(m)
      BY <2>1, <2>2, <2>3, <2>5 DEF high, LeastOf
    <3>3. low(m) \in Nat /\ high(m) \in Nat
      BY <1>3, <2>5
    <3> QED BY <2>1, <3>1, <3>2, <3>3
  <2>7. place(p).stripe = block(at(m)).s /\ place(p).block = block(at(m)).x
    BY <2>1, <2>2, <2>3, <2>5, PlaceOfByte DEF start, size, B
  <2> HIDE DEF place, block
  <2> QED BY <1>4, <2>5, <2>6, <2>7
<1>6. UNION {BytesOf(split[i]) : i \in DOMAIN split} = {place(p) : p \in offset..(end - 1)}
  <2>1. ASSUME NEW m \in 1..(c + 1), NEW byte \in BytesOf(split[m])
        PROVE  byte \in {place(p) : p \in offset..(end - 1)}
    <3>1. PICK p \in low(m)..(high(m) - 1) : byte = place(p)
      BY <1>4
    <3>2. p \in offset..(end - 1)
      <4>1. low(m) \in Nat /\ high(m) \in Nat /\ offset <= low(m) /\ high(m) <= end /\ end \in Nat
        BY <1>3 DEF end
      <4> QED BY <4>1
    <3> QED BY <3>1, <3>2
  <2> HIDE DEF place
  <2> QED BY <1>1, <1>5, <2>1
<1>7. ASSUME NEW i \in DOMAIN split, NEW j \in DOMAIN split, i # j
      PROVE  BytesOf(split[i]) \cap BytesOf(split[j]) = {}
  <2> SUFFICES ASSUME NEW byte, byte \in BytesOf(split[i]), byte \in BytesOf(split[j])
               PROVE  FALSE
    OBVIOUS
  <2>1. i \in 1..(c + 1) /\ j \in 1..(c + 1)
    BY <1>1
  <2>2. /\ byte.stripe = block(at(i)).s /\ byte.block = block(at(i)).x
        /\ byte.stripe = block(at(j)).s /\ byte.block = block(at(j)).x
    BY <1>4, <2>1
  <2>3. at(i) \in 0..(B - 1) /\ at(j) \in 0..(B - 1)
    BY <1>2, <1>3, <2>1
  <2>4. at(i) = at(j)
    BY <2>2, <2>3, BlocksDiffer DEF B
  <2> QED BY <1>7, <2>1, <2>4 DEF at
<1> QED BY <1>6, <1>7 DEF IsExact, BytesAt, split, end

LEMMA SplitCovers ==
  ASSUME NEW st \in Sites, NEW obj, IsObject(st, obj),
         NEW offset \in Nat, offset < obj.size, NEW length \in Nat \ {0},
         RegularIn(st, obj, offset, length)
  PROVE  IsExact(SplitOf(st, obj, offset, length), BytesAt(st, obj, offset, length))
<1>1. CASE obj.big
  BY <1>1, BigCovered DEF SplitOf
<1>2. CASE ~obj.big
  <2> DEFINE split == SplitOf(st, obj, offset, length)
             there(u) == [stripe |-> obj.stripes[1], block |-> obj.block, offset |-> u]
             o == obj.offset
             r == Range0(obj.stripes[1], obj.block, o + offset, length)
  <2>1. split = <<r>>
    BY <1>2 DEF SplitOf, SplitSmall
  <2>2. o \in Nat
    BY <1>2 DEF IsObject
  <2>3. BytesAt(st, obj, offset, length) = {there(o + p) : p \in offset..(offset + length - 1)}
    BY <1>2 DEF BytesAt, Place
  <2>4. BytesOf(r) = {there(o + offset + n) : n \in 0..(length - 1)}
    BY DEF BytesOf, Range0
  <2> HIDE DEF split, o, r
  <2>5. BytesOf(r) = BytesAt(st, obj, offset, length)
    <3>1. ASSUME NEW n \in 0..(length - 1)
          PROVE  there(o + offset + n) \in BytesAt(st, obj, offset, length)
      <4>1. offset + n \in offset..(offset + length - 1) /\ o + (offset + n) = o + offset + n
        BY <2>2
      <4> QED BY <2>3, <4>1
    <3>2. ASSUME NEW p \in offset..(offset + length - 1)
          PROVE  there(o + p) \in BytesOf(r)
      <4>1. p - offset \in 0..(length - 1) /\ o + offset + (p - offset) = o + p
        BY <2>2
      <4> QED BY <2>4, <4>1
    <3> HIDE DEF there
    <3> QED BY <2>3, <2>4, <3>1, <3>2
  <2>6. DOMAIN split = {1} /\ split[1] = r
    BY <2>1
  <2>7. UNION {BytesOf(split[i]) : i \in DOMAIN split} = BytesOf(r)
    BY <2>6
  <2> QED BY <2>5, <2>6, <2>7 DEF IsExact, split
<1> QED BY <1>1, <1>2 DEF IsObject

(* Every range is in a block of a stripe and is not empty.                 *)
LEMMA SplitTyped ==
  ASSUME NEW st \in Sites, NEW obj, IsObject(st, obj),
         NEW offset \in Nat, offset < obj.size, NEW length \in Nat \ {0}
  PROVE  LET split == SplitOf(st, obj, offset, length) IN
         split \in Seq(RangesIn(st)) /\ Len(split) \in Nat \ {0}
<1>1. CASE obj.big
  <2>1. PICK i, x, o, c :
          IsSplit(st, obj, offset, length, SplitBig(st, obj, offset, length), i, x, o, c)
    BY <1>1, SplitRanges
  <2> DEFINE split == SplitBig(st, obj, offset, length)
  <2>2. /\ split \in Seq(RangesIn(st)) /\ Len(split) = c + 1
        /\ c \in 0..(BlocksIn(st, obj) - FirstFollowing(st, i, x))
    BY <2>1 DEF IsSplit
  <2> HIDE DEF split
  <2>3. c \in Int /\ c >= 0
    BY <2>2
  <2> QED BY <1>1, <2>2, <2>3 DEF SplitOf, split
<1>2. CASE ~obj.big
  <2> DEFINE r == Range0(obj.stripes[1], obj.block, obj.offset + offset, length)
  <2>1. SplitOf(st, obj, offset, length) = <<r>>
    BY <1>2 DEF SplitOf, SplitSmall
  <2>2. obj.stripes[1] \in DOMAIN st.at
    <3>1. 1 \in 1..Len(obj.stripes)
      BY StripesInARow
    <3> QED BY <3>1, StripesInARow
  <2>3. IsScheme(st.sch)
    BY SitesAssumption
  <2>4. /\ st.sch.k + st.sch.g <= Size(st.sch) /\ Size(st.sch) \in Nat
        /\ st.sch.k \in Nat /\ st.sch.g \in Nat \ {0}
    BY <2>3, BlocksAreNumbers DEF IsScheme
  <2>5. obj.block \in 0..(st.sch.k - 1) /\ obj.offset \in Nat
    BY <1>2 DEF IsObject
  <2>6. obj.block \in Blocks(st.sch) /\ obj.offset + offset \in Nat
    BY <2>4, <2>5 DEF Blocks
  <2>7. r \in RangesIn(st)
    BY <2>2, <2>6 DEF Range0, RangesIn
  <2> HIDE DEF r
  <2> QED BY <2>1, <2>7
<1> QED BY <1>1, <1>2 DEF IsObject

-----------------------------------------------------------------------------
(* The first stripe and its AZs                                            *)

AzsIn(st) == 0..(st.azs - 1)

LEMMA AzsAreNumbers ==
  ASSUME NEW st \in Sites
  PROVE  /\ st.azs \in Nat \ {0} /\ IsScheme(st.sch)
         /\ DOMAIN st.at \subseteq Nat
         /\ \A s \in DOMAIN st.at : \A x \in Blocks(st.sch) : st.at[s][x][1] \in AzsIn(st)
         /\ \A r \in RangesIn(st) : AzOf(st, r) \in AzsIn(st)
<1>1. /\ st.azs \in Nat \ {0} /\ IsScheme(st.sch)
      /\ st.at \in Seq([Blocks(st.sch) -> (0..(st.azs - 1)) \X Nat])
  BY SitesAssumption
<1>2. DOMAIN st.at = 1..Len(st.at) /\ Len(st.at) \in Nat
  BY <1>1
<1>3. ASSUME NEW s \in DOMAIN st.at, NEW x \in Blocks(st.sch)
      PROVE  st.at[s][x][1] \in AzsIn(st)
  <2>1. st.at[s] \in [Blocks(st.sch) -> (0..(st.azs - 1)) \X Nat]
    BY <1>1
  <2>2. st.at[s][x] \in (0..(st.azs - 1)) \X Nat
    BY <2>1
  <2> QED BY <2>2 DEF AzsIn
<1>4. \A r \in RangesIn(st) : r.stripe \in DOMAIN st.at /\ r.block \in Blocks(st.sch)
  BY DEF RangesIn
<1>5. \A r \in RangesIn(st) : AzOf(st, r) \in AzsIn(st)
  BY <1>3, <1>4 DEF AzOf
<1> QED BY <1>1, <1>2, <1>3, <1>5

(* The ranges gone on with are those of the first stripe, all of them.     *)
LEMMA RangesOfFirst ==
  ASSUME NEW st \in Sites, NEW split \in Seq(RangesIn(st)), split # <<>>
  PROVE  LET s == FirstStripe(split)
             ranges == InFirst(split)
         IN /\ s \in DOMAIN st.at
            /\ ranges \in Seq(RangesIn(st))
            /\ \A m \in DOMAIN ranges : /\ ranges[m].stripe = s
                                        /\ \E i \in DOMAIN split : ranges[m] = split[i]
            /\ \A i \in DOMAIN split :
                 split[i].stripe = s => \E m \in DOMAIN ranges : ranges[m] = split[i]
<1> DEFINE stripes == {split[i].stripe : i \in DOMAIN split}
           s == FirstStripe(split)
           places == {i \in DOMAIN split : split[i].stripe = s}
<1>1. \A i \in DOMAIN split : split[i] \in RangesIn(st) /\ split[i].stripe \in DOMAIN st.at
  <2>1. \A i \in DOMAIN split : split[i] \in RangesIn(st)
    OBVIOUS
  <2>2. \A r \in RangesIn(st) : r.stripe \in DOMAIN st.at
    BY DEF RangesIn
  <2> QED BY <2>1, <2>2
<1>2. stripes \in SUBSET Nat /\ stripes # {}
  <2>1. 1 \in DOMAIN split
    <3>1. DOMAIN split = 1..Len(split) /\ Len(split) \in Nat /\ Len(split) # 0
      OBVIOUS
    <3> QED BY <3>1
  <2>2. split[1].stripe \in stripes
    BY <2>1
  <2> QED BY <1>1, <2>2, AzsAreNumbers
<1>3. s \in stripes
  <2>1. s = Min(stripes)
    BY DEF FirstStripe
  <2> HIDE DEF stripes, s
  <2> QED BY <1>2, <2>1, MinIsMember
<1>4. s \in DOMAIN st.at
  BY <1>1, <1>3
<1>5. InFirst(split) = Pick(split, places)
  BY DEF InFirst
<1> HIDE DEF s
<1>6. places \in SUBSET (DOMAIN split)
  OBVIOUS
<1> DEFINE ranges == Pick(split, places)
<1> HIDE DEF places
<1>7. /\ ranges \in Seq(RangesIn(st))
      /\ \A m \in DOMAIN ranges : \E i \in places : ranges[m] = split[i]
      /\ \A i \in places : \E m \in DOMAIN ranges : ranges[m] = split[i]
  BY <1>6, Picked
<1> HIDE DEF ranges
<1>8. \A m \in DOMAIN ranges : /\ ranges[m].stripe = s
                               /\ \E i \in DOMAIN split : ranges[m] = split[i]
  BY <1>7 DEF places
<1>9. \A i \in DOMAIN split :
        split[i].stripe = s => \E m \in DOMAIN ranges : ranges[m] = split[i]
  BY <1>7 DEF places
<1>10. InFirst(split) = ranges
  BY <1>5 DEF ranges
<1> QED BY <1>4, <1>7, <1>8, <1>9, <1>10 DEF s

(* The AZs of a list of ranges, in ascending order.                        *)
LEMMA AzsListed ==
  ASSUME NEW st \in Sites, NEW ranges \in Seq(RangesIn(st))
  PROVE  LET azs == AzsOf(st, ranges)
             n == Len(azs)
         IN /\ n \in Nat /\ azs \in [1..n -> AzsIn(st)]
            /\ \A j \in DOMAIN ranges : AzOf(st, ranges[j]) \in AzsIn(st)
            /\ \A i \in 1..n : \E j \in DOMAIN ranges : azs[i] = AzOf(st, ranges[j])
            /\ \A j \in DOMAIN ranges : \E i \in 1..n : azs[i] = AzOf(st, ranges[j])
            /\ \A i, j \in 1..n : i < j <=> azs[i] < azs[j]
<1> DEFINE xs == {AzOf(st, ranges[i]) : i \in DOMAIN ranges}
           azs == AzsOf(st, ranges)
           n == Cardinality(xs)
<1>1. \A j \in DOMAIN ranges : AzOf(st, ranges[j]) \in AzsIn(st)
  BY AzsAreNumbers
<1>2. xs \in SUBSET AzsIn(st)
  BY <1>1
<1>3. IsFiniteSet(xs) /\ xs \subseteq Int
  <2>1. st.azs \in Nat
    BY AzsAreNumbers
  <2>2. IsFiniteSet(AzsIn(st)) /\ AzsIn(st) \subseteq Int
    BY <2>1, FS_Interval DEF AzsIn
  <2> QED BY <1>2, <2>2, FS_Subset
<1>4. azs = Ascending(xs)
  BY DEF AzsOf
<1>5. \A x \in xs : \E j \in DOMAIN ranges : x = AzOf(st, ranges[j])
  OBVIOUS
<1>6. \A j \in DOMAIN ranges : AzOf(st, ranges[j]) \in xs
  OBVIOUS
<1> HIDE DEF xs, azs
<1>7. /\ n \in Nat /\ azs \in [1..n -> xs]
      /\ \A x \in xs : \E i \in 1..n : azs[i] = x
  BY <1>3, <1>4, NumbersOrdered
<1>8. \A i, j \in 1..n : i < j <=> azs[i] < azs[j]
  BY <1>3, <1>4, AscendingGrows
<1> HIDE DEF n
<1>9. azs \in Seq(xs) /\ Len(azs) = n
  BY <1>7
<1> QED BY <1>1, <1>2, <1>5, <1>6, <1>7, <1>8, <1>9 DEF azs

(* The ranges of the AZs before a, which come first in the reply; those of *)
(* a follow.                                                               *)
Earlier(st, ranges, a) == {j \in DOMAIN ranges : AzOf(st, ranges[j]) < a}

LEMMA EarlierAndHere ==
  ASSUME NEW st \in Sites, NEW ranges \in Seq(RangesIn(st)), NEW a \in Nat
  PROVE  LET earlier == Earlier(st, ranges, a)
             here == PlacesOf(st, ranges, a)
         IN /\ IsFiniteSet(earlier) /\ IsFiniteSet(here)
            /\ Cardinality(earlier) \in Nat /\ Cardinality(here) \in Nat
            /\ IsFiniteSet(earlier \cup here)
            /\ Cardinality(earlier \cup here) = Cardinality(earlier) + Cardinality(here)
<1> DEFINE earlier == Earlier(st, ranges, a)
           here == PlacesOf(st, ranges, a)
<1>1. IsFiniteSet(DOMAIN ranges)
  <2>1. DOMAIN ranges = 1..Len(ranges) /\ Len(ranges) \in Nat
    OBVIOUS
  <2> QED BY <2>1, FS_Interval
<1>2. earlier \in SUBSET (DOMAIN ranges) /\ here \in SUBSET (DOMAIN ranges)
  BY DEF Earlier, PlacesOf
<1>3. earlier \cap here = {}
  <2>1. \A j \in DOMAIN ranges : AzOf(st, ranges[j]) \in Int
    <3>1. \A j \in DOMAIN ranges : AzOf(st, ranges[j]) \in AzsIn(st)
      BY AzsListed
    <3> QED BY <3>1, AzsAreNumbers DEF AzsIn
  <2> QED BY <2>1 DEF Earlier, PlacesOf
<1> HIDE DEF earlier, here
<1>4. IsFiniteSet(earlier) /\ IsFiniteSet(here) /\ IsFiniteSet(earlier \cup here)
  <2>1. earlier \cup here \in SUBSET (DOMAIN ranges)
    BY <1>2
  <2> QED BY <1>1, <1>2, <2>1, FS_Subset
<1>5. Cardinality(earlier) \in Nat /\ Cardinality(here) \in Nat
  BY <1>4, FS_CardinalityType
<1>6. /\ Cardinality(earlier \cup here)
           = Cardinality(earlier) + Cardinality(here) - Cardinality(earlier \cap here)
      /\ Cardinality(earlier \cap here) = 0
  BY <1>3, <1>4, FS_Union, FS_EmptySet
<1>7. Cardinality(earlier \cup here) = Cardinality(earlier) + Cardinality(here)
  BY <1>5, <1>6
<1> QED BY <1>4, <1>5, <1>7 DEF earlier, here

(* The reply has the ranges of an AZ one after the other, after those of   *)
(* the AZs before it.                                                      *)
LEMMA ReplyInTurn ==
  ASSUME NEW st \in Sites, NEW ranges \in Seq(RangesIn(st)),
         NEW i \in 1..Len(AzsOf(st, ranges))
  PROVE  LET a == AzsOf(st, ranges)[i]
             here == PlacesOf(st, ranges, a)
             count == Cardinality(here)
             first == Cardinality(Earlier(st, ranges, a))
             reply == ReplyFor(st, ranges)
         IN /\ reply.azs[i] = [az |-> a, count |-> count]
            /\ \A t \in 1..count : \E j \in here : reply.ranges[first + t] = ranges[j]
            /\ \A j \in here : \E t \in 1..count : reply.ranges[first + t] = ranges[j]
<1> DEFINE azs == AzsOf(st, ranges)
           a == azs[i]
           places == DOMAIN ranges
           az(j) == AzOf(st, ranges[j])
           less == ByAz(st, ranges)
           order == SortedBy(places, less)
           earlier(b) == Earlier(st, ranges, b)
           here(b) == PlacesOf(st, ranges, b)
           reply == ReplyFor(st, ranges)
           m == Len(ranges)
           earlierCount(b) == Cardinality(earlier(b))
           hereCount(b) == Cardinality(here(b))
<1>1. /\ azs \in [1..Len(azs) -> AzsIn(st)] /\ Len(azs) \in Nat
      /\ \A j \in places : az(j) \in AzsIn(st)
  BY AzsListed
<1>2. AzsIn(st) \subseteq Nat
  BY AzsAreNumbers DEF AzsIn
<1>3. a \in Nat /\ \A j \in places : az(j) \in Nat
  BY <1>1, <1>2
<1>4. places = 1..m /\ m \in Nat /\ IsFiniteSet(places) /\ Cardinality(places) = m
  <2>1. places = 1..m /\ m \in Nat
    OBVIOUS
  <2> HIDE DEF m, places
  <2>2. IsFiniteSet(1..m) /\ Cardinality(1..m) = m
    BY <2>1, FS_Interval
  <2> QED BY <2>1, <2>2
<1>5. /\ reply.azs = [n \in DOMAIN azs |-> [az |-> azs[n],
                                            count |-> Cardinality(here(azs[n]))]]
      /\ reply.ranges = [n \in DOMAIN order |-> ranges[order[n]]]
  BY DEF ReplyFor
<1> HIDE DEF azs, order, reply, m, earlier, here
<1>6. \A p, q \in places : <<p, q>> \in less <=> az(p) < az(q) \/ (az(p) = az(q) /\ p < q)
  BY DEF ByAz
<1> HIDE DEF less, az, places
<1>7. IsOrder(places, less)
  <2>1. ASSUME NEW p \in places PROVE <<p, p>> \notin less
    BY <1>3, <1>4, <1>6
  <2>2. ASSUME NEW p \in places, NEW q \in places, p # q
        PROVE  <<p, q>> \in less \/ <<q, p>> \in less
    BY <1>3, <1>4, <1>6, <2>2
  <2>3. ASSUME NEW p \in places, NEW q \in places, NEW r \in places,
               <<p, q>> \in less, <<q, r>> \in less
        PROVE  <<p, r>> \in less
    BY <1>3, <1>4, <1>6, <2>3
  <2> QED BY <2>1, <2>2, <2>3 DEF IsOrder
<1>8. /\ order \in [1..m -> places]
      /\ \A n \in 1..m : Cardinality(Before(places, less, order[n])) = n - 1
  <2>1. /\ order \in [1..Cardinality(places) -> places]
        /\ \A n \in 1..Cardinality(places) :
             Cardinality(Before(places, less, order[n])) = n - 1
    BY <1>4, <1>7, Sorted DEF order
  <2> QED BY <1>4, <2>1
<1>9. \A j \in places : \E n \in 1..m : order[n] = j
  <2> DEFINE seq == SortedBy(places, less)
             n0 == Cardinality(places)
  <2>1. IsFiniteSet(places)
    BY <1>4
  <2>2. /\ \A x \in places : \E n \in 1..n0 : seq[n] = x
        /\ \A n1, n2 \in 1..n0 : seq[n1] = seq[n2] => n1 = n2
    BY <1>7, <2>1, SortedHasAll
  <2> QED BY <1>4, <2>2 DEF order
<1>10. \A b \in Nat : /\ IsFiniteSet(earlier(b)) /\ IsFiniteSet(earlier(b) \cup here(b))
                      /\ earlierCount(b) \in Nat /\ hereCount(b) \in Nat
                      /\ Cardinality(earlier(b) \cup here(b))
                           = earlierCount(b) + hereCount(b)
  BY EarlierAndHere DEF earlier, here
<1>18. \A b \in Nat : \A j : /\ j \in earlier(b) <=> j \in places /\ az(j) < b
                             /\ j \in here(b) <=> j \in places /\ az(j) = b
  BY DEF earlier, here, Earlier, PlacesOf, az, places
<1>19. \A b \in Nat : /\ earlierCount(b) = Cardinality(earlier(b))
                      /\ hereCount(b) = Cardinality(here(b))
  OBVIOUS
<1> HIDE DEF earlierCount, hereCount
<1>11. ASSUME NEW n \in 1..m, NEW b \in Nat, b = az(order[n])
       PROVE  earlierCount(b) < n /\ n <= earlierCount(b) + hereCount(b)
  <2> DEFINE j == order[n]
             before == Before(places, less, j)
  <2>1. j \in places /\ Cardinality(before) = n - 1 /\ az(j) = b
    BY <1>8, <1>11
  <2> HIDE DEF j
  <2>2. \A q : q \in before <=> q \in places /\ <<q, j>> \in less
    BY DEF Before
  <2> HIDE DEF before
  <2>3. \A q \in earlier(b) : q \in before
    BY <1>6, <1>18, <2>1, <2>2
  <2>4. \A q \in before : q \in earlier(b) \cup here(b)
    BY <1>6, <1>18, <2>1, <2>2
  <2>5. j \in here(b) /\ j \notin before
    BY <1>7, <1>18, <2>1, <2>2 DEF IsOrder
  <2>6. /\ before \in SUBSET (earlier(b) \cup here(b)) /\ earlier(b) \in SUBSET before
        /\ before # earlier(b) \cup here(b) /\ IsFiniteSet(earlier(b) \cup here(b))
    BY <1>10, <2>3, <2>4, <2>5
  <2>7. /\ IsFiniteSet(before)
        /\ Cardinality(before) <= Cardinality(earlier(b) \cup here(b))
        /\ Cardinality(before) # Cardinality(earlier(b) \cup here(b))
    BY <2>6, FS_Subset
  <2>8. Cardinality(earlier(b)) <= Cardinality(before)
    BY <2>6, <2>7, FS_Subset
  <2>9. /\ n - 1 <= earlierCount(b) + hereCount(b) /\ n - 1 # earlierCount(b) + hereCount(b)
        /\ earlierCount(b) <= n - 1
    BY <1>10, <1>19, <2>1, <2>7, <2>8
  <2>10. earlierCount(b) \in Nat /\ hereCount(b) \in Nat
    BY <1>10
  <2>11. n \in Int
    BY <1>4
  <2> QED BY <2>9, <2>10, <2>11
<1>12. ASSUME NEW b1 \in Nat, NEW b2 \in Nat, b1 < b2
       PROVE  earlierCount(b1) + hereCount(b1) <= earlierCount(b2)
  <2>1. \A q \in earlier(b1) \cup here(b1) : q \in earlier(b2)
    <3> SUFFICES ASSUME NEW q \in earlier(b1) \cup here(b1) PROVE q \in earlier(b2)
      OBVIOUS
    <3>1. q \in places /\ az(q) \in Nat /\ (az(q) < b1 \/ az(q) = b1)
      BY <1>3, <1>18
    <3>2. az(q) < b2
      BY <1>12, <3>1
    <3> QED BY <1>18, <3>1, <3>2
  <2>2. earlier(b1) \cup here(b1) \in SUBSET earlier(b2) /\ IsFiniteSet(earlier(b2))
    BY <1>10, <2>1
  <2>3. Cardinality(earlier(b1) \cup here(b1)) <= Cardinality(earlier(b2))
    BY <2>2, FS_Subset
  <2> QED BY <1>10, <1>19, <2>3
<1> DEFINE first == earlierCount(a)
           count == hereCount(a)
<1>13. first \in Nat /\ count \in Nat /\ first + count <= m
  <2>1. \A q \in earlier(a) \cup here(a) : q \in places
    BY <1>3, <1>18
  <2>2. earlier(a) \cup here(a) \in SUBSET places
    BY <2>1
  <2>3. Cardinality(earlier(a) \cup here(a)) <= m
    BY <1>4, <2>2, FS_Subset
  <2> QED BY <1>3, <1>10, <2>3
<1> HIDE DEF first, count, a
<1>14. \A n \in 1..m : reply.ranges[n] = ranges[order[n]]
  BY <1>5, <1>8
<1>15. ASSUME NEW t \in 1..count
       PROVE  \E j \in here(a) : reply.ranges[first + t] = ranges[j]
  <2> DEFINE n == first + t
  <2>1. n \in 1..m /\ first < n /\ n <= first + count
    BY <1>4, <1>13
  <2> HIDE DEF n
  <2>2. order[n] \in places /\ az(order[n]) \in Nat
    BY <1>3, <1>8, <2>1
  <2> DEFINE b == az(order[n])
  <2>3. /\ b \in Nat /\ earlierCount(b) < n /\ n <= earlierCount(b) + hereCount(b)
        /\ earlierCount(b) \in Nat /\ hereCount(b) \in Nat
    BY <1>10, <1>11, <2>1, <2>2
  <2>4. b = a
    <3>1. ~(b < a)
      <4>1. b < a => earlierCount(b) + hereCount(b) <= first
        BY <1>3, <1>12, <2>3 DEF first
      <4> HIDE DEF b
      <4> QED BY <1>13, <2>1, <2>3, <4>1
    <3>2. ~(a < b)
      <4>1. a < b => first + count <= earlierCount(b)
        BY <1>3, <1>12, <2>3 DEF first, count
      <4> HIDE DEF b
      <4> QED BY <1>13, <2>1, <2>3, <4>1
    <3> HIDE DEF b
    <3> QED BY <1>3, <2>3, <3>1, <3>2
  <2>5. order[n] \in here(a)
    BY <1>3, <1>18, <2>2, <2>4
  <2>6. reply.ranges[n] = ranges[order[n]]
    BY <1>14, <2>1
  <2> QED BY <2>5, <2>6 DEF n
<1>16. ASSUME NEW j \in here(a)
       PROVE  \E t \in 1..count : reply.ranges[first + t] = ranges[j]
  <2>1. j \in places /\ az(j) = a
    BY <1>3, <1>18
  <2>2. PICK n \in 1..m : order[n] = j
    BY <1>9, <2>1
  <2>3. first < n /\ n <= first + count
    BY <1>3, <1>11, <2>1, <2>2 DEF first, count
  <2> DEFINE t == n - first
  <2>4. t \in 1..count /\ first + t = n
    BY <1>13, <2>3
  <2>5. reply.ranges[n] = ranges[j]
    BY <1>14, <2>2
  <2> QED BY <2>4, <2>5
<1>17. reply.azs[i] = [az |-> a, count |-> count]
  <2>1. i \in DOMAIN azs
    BY <1>1 DEF azs
  <2>2. reply.azs[i] = [az |-> azs[i], count |-> Cardinality(here(azs[i]))]
    BY <1>5, <2>1
  <2> QED BY <1>3, <1>19, <2>2 DEF a, count
<1>20. first = Cardinality(earlier(a)) /\ count = Cardinality(here(a))
  BY <1>3, <1>19 DEF first, count
<1> QED BY <1>15, <1>16, <1>17, <1>20 DEF azs, here, earlier, reply, a

-----------------------------------------------------------------------------
(* The collector                                                           *)

LEMMA GlobalsInAzs ==
  ASSUME NEW st \in Sites, NEW s \in DOMAIN st.at
  PROVE  /\ GlobalAzs(st, s) \in SUBSET AzsIn(st) /\ GlobalAzs(st, s) # {}
         /\ GlobalAzs(st, s) \in SUBSET Nat /\ \A a \in GlobalAzs(st, s) : a <= st.azs
         /\ Globals(st.sch) \subseteq Blocks(st.sch)
         /\ IsFiniteSet(Globals(st.sch))
<1>1. IsScheme(st.sch) /\ st.azs \in Nat
  BY AzsAreNumbers
<1>2. /\ st.sch.k \in Nat /\ st.sch.g \in Nat \ {0}
      /\ st.sch.k + st.sch.g <= Size(st.sch) /\ Size(st.sch) \in Nat
  BY <1>1, BlocksAreNumbers DEF IsScheme
<1>3. Globals(st.sch) \subseteq Blocks(st.sch) /\ st.sch.k \in Globals(st.sch)
  BY <1>2 DEF Globals, Blocks
<1>4. IsFiniteSet(Globals(st.sch))
  <2> DEFINE last == st.sch.k + st.sch.g - 1
  <2>1. last \in Int /\ st.sch.k \in Int
    BY <1>2
  <2> HIDE DEF last
  <2>2. IsFiniteSet(st.sch.k..last)
    BY <2>1, FS_Interval
  <2> QED BY <2>2 DEF Globals, last
<1>5. \A x \in Globals(st.sch) : st.at[s][x][1] \in AzsIn(st)
  BY <1>3, AzsAreNumbers
<1>6. GlobalAzs(st, s) \in SUBSET AzsIn(st) /\ GlobalAzs(st, s) # {}
  BY <1>3, <1>5 DEF GlobalAzs
<1>7. AzsIn(st) \subseteq Nat /\ \A a \in AzsIn(st) : a <= st.azs
  BY <1>1 DEF AzsIn
<1> QED BY <1>3, <1>4, <1>6, <1>7

(* With Azure_LRC_1 and OPPO_LRC it is an AZ with global parities.         *)
LEMMA CollectorHasGlobals ==
  ASSUME NEW st \in Sites, NEW s \in DOMAIN st.at, st.sch.code # "RS", NEW ranges,
         NEW c \in Collectors(st, s, ranges)
  PROVE  c \in GlobalAzs(st, s)
<1> DEFINE azs == GlobalAzs(st, s)
           size(a) == GlobalsIn(st, s, a)
<1>1. /\ azs \in SUBSET Nat /\ azs # {} /\ \A a \in azs : a <= st.azs
      /\ IsFiniteSet(Globals(st.sch))
  BY GlobalsInAzs
<1>2. st.sch.code \in {"OPPO_LRC", "Azure_LRC_1"} /\ st.azs \in Nat
  BY AzsAreNumbers DEF IsScheme
<1>3. CASE st.sch.code = "Azure_LRC_1"
  <2> DEFINE most == {a \in azs : \A b \in azs : size(b) <= size(a)}
             max == Cardinality(Globals(st.sch))
             sizes == {size(a) : a \in azs}
  <2>1. c = Min(most)
    <3>1. c = CollectorAzure(st, s, ranges)
      BY <1>3 DEF Collectors
    <3> QED BY <3>1 DEF CollectorAzure
  <2>2. \A a : size(a) \in Nat /\ size(a) <= max
    <3> SUFFICES ASSUME NEW a PROVE size(a) \in Nat /\ size(a) <= max
      OBVIOUS
    <3> DEFINE here == ParitiesIn(st, s, Globals(st.sch), a)
    <3>1. here \in SUBSET Globals(st.sch)
      BY DEF ParitiesIn
    <3> HIDE DEF here
    <3>2. IsFiniteSet(here) /\ Cardinality(here) <= max
      BY <1>1, <3>1, FS_Subset
    <3>3. Cardinality(here) \in Nat
      BY <3>2, FS_CardinalityType
    <3> QED BY <3>2, <3>3 DEF GlobalsIn, here
  <2>3. max \in Nat
    BY <1>1, FS_CardinalityType
  <2> HIDE DEF size, azs, max
  <2>4. sizes \in SUBSET Nat /\ sizes # {} /\ \A n \in sizes : n <= max
    BY <1>1, <2>2
  <2>5. PICK n \in sizes : \A m \in sizes : m <= n
    <3> HIDE DEF sizes
    <3> QED BY <2>3, <2>4, GreatestNumber
  <2>6. PICK a \in azs : n = size(a)
    OBVIOUS
  <2>7. a \in most
    BY <2>5, <2>6
  <2>8. most \in SUBSET Nat /\ most # {}
    BY <1>1, <2>7
  <2>9. c \in most
    <3> HIDE DEF most
    <3> QED BY <2>1, <2>8, MinIsMember
  <2> QED BY <2>9 DEF azs
<1>4. CASE st.sch.code = "OPPO_LRC"
  <2>1. c \in CollectorsOppo(st, s)
    BY <1>4 DEF Collectors
  <2>2. \E max \in [azs -> azs] : c = max[Max(azs)]
    BY <2>1 DEF CollectorsOppo
  <2> HIDE DEF azs
  <2>3. Max(azs) \in azs
    BY <1>1, <1>2, MaxIsMember
  <2> QED BY <2>2, <2>3 DEF azs
<1> QED BY <1>2, <1>3, <1>4

LEMMA CollectorIsAz ==
  ASSUME NEW st \in Sites, NEW s \in DOMAIN st.at, NEW ranges,
         NEW c \in Collectors(st, s, ranges)
  PROVE  /\ c \in AzsIn(st) \cup {-1}
         /\ st.sch.code # "RS" => c \in AzsIn(st)
<1>1. CASE st.sch.code = "RS"
  BY <1>1 DEF Collectors
<1>2. CASE st.sch.code # "RS"
  BY <1>2, CollectorHasGlobals, GlobalsInAzs
<1> QED BY <1>1, <1>2

(* The parities the notices name.                                          *)
LEMMA NamedParities ==
  ASSUME NEW st \in Sites, st.sch.code # "RS", NEW s \in DOMAIN st.at,
         NEW ranges \in Seq(RangesIn(st)), \A m \in DOMAIN ranges : ranges[m].stripe = s,
         NEW c \in Collectors(st, s, ranges)
  PROVE  LET notices == NoticesFor(st, s, ranges, c)
             sch == st.sch
             az(x) == st.at[s][x][1]
         IN /\ \A m \in DOMAIN ranges : \A i \in 0..(sch.l - 1) :
                 az(LocalOf(sch, i)) = az(ranges[m].block)
                   => \E n \in DOMAIN notices.data : LocalOf(sch, i) \in notices.data[n].parities
            /\ sch.code = "Azure_LRC_1" /\ (\A x, y \in Globals(sch) : az(x) = az(y))
                 => Globals(sch) \subseteq notices.parities
<1> DEFINE sch == st.sch
           az(x) == st.at[s][x][1]
           azs == AzsOf(st, ranges)
           notices == NoticesFor(st, s, ranges, c)
<1>1. ASSUME NEW m \in DOMAIN ranges, NEW i \in 0..(sch.l - 1),
             az(LocalOf(sch, i)) = az(ranges[m].block)
      PROVE  \E n \in DOMAIN notices.data : LocalOf(sch, i) \in notices.data[n].parities
  <2>1. AzOf(st, ranges[m]) = az(ranges[m].block)
    BY DEF AzOf
  <2>2. PICK n \in 1..Len(azs) : azs[n] = AzOf(st, ranges[m])
    BY AzsListed
  <2>3. DOMAIN azs = 1..Len(azs)
    <3>1. azs \in [1..Len(azs) -> AzsIn(st)]
      BY AzsListed
    <3> QED BY <3>1
  <2> HIDE DEF azs
  <2>4. /\ DOMAIN notices.data = DOMAIN azs
        /\ notices.data[n].parities = ParitiesIn(st, s, Locals(sch), azs[n])
    BY <2>2, <2>3 DEF NoticesFor, azs
  <2>5. LocalOf(sch, i) \in Locals(sch)
    BY DEF Locals
  <2>6. LocalOf(sch, i) \in ParitiesIn(st, s, Locals(sch), azs[n])
    BY <1>1, <2>1, <2>2, <2>5 DEF ParitiesIn
  <2> QED BY <2>2, <2>3, <2>4, <2>6
<1>2. ASSUME sch.code = "Azure_LRC_1", \A x, y \in Globals(sch) : az(x) = az(y)
      PROVE  Globals(sch) \subseteq notices.parities
  <2>1. notices.parities = ParitiesIn(st, s, Locals(sch) \cup Globals(sch), c)
    BY <1>2 DEF NoticesFor
  <2>2. PICK x \in Globals(sch) : c = az(x)
    <3>1. c \in GlobalAzs(st, s)
      BY CollectorHasGlobals
    <3> QED BY <3>1 DEF GlobalAzs
  <2> HIDE DEF notices
  <2> QED BY <1>2, <2>1, <2>2 DEF ParitiesIn
<1> QED BY <1>1, <1>2

(* The reply and the notices are typed.                                    *)
RepliesIn(st) ==
  [azs : Seq([az : AzsIn(st), count : Nat]), ranges : Seq(RangesIn(st)), id : Nat]
NoticesIn(st) ==
  [data : Seq([az : AzsIn(st), nodes : Seq(AzsIn(st) \X Nat),
               parities : SUBSET Blocks(st.sch)]),
   collector : AzsIn(st) \cup {-1}, parities : SUBSET Blocks(st.sch)]

LEMMA ReplyTyped ==
  ASSUME NEW st \in Sites, NEW ranges \in Seq(RangesIn(st))
  PROVE  /\ ReplyFor(st, ranges) \in RepliesIn(st)
         /\ Len(ReplyFor(st, ranges).azs) = Len(AzsOf(st, ranges))
<1> DEFINE azs == AzsOf(st, ranges)
           places == DOMAIN ranges
           less == ByAz(st, ranges)
           order == SortedBy(places, less)
           az(j) == AzOf(st, ranges[j])
           list == [i \in DOMAIN azs |->
                      [az |-> azs[i], count |-> Cardinality(PlacesOf(st, ranges, azs[i]))]]
           all == [n \in DOMAIN order |-> ranges[order[n]]]
<1>1. /\ azs \in [1..Len(azs) -> AzsIn(st)] /\ Len(azs) \in Nat
      /\ \A j \in places : az(j) \in AzsIn(st)
  BY AzsListed
<1>2. AzsIn(st) \subseteq Nat
  BY AzsAreNumbers DEF AzsIn
<1>3. ReplyFor(st, ranges) = [azs |-> list, ranges |-> all, id |-> 0]
  BY DEF ReplyFor
<1>4. places \subseteq Int /\ IsFiniteSet(places)
  <2>1. places = 1..Len(ranges) /\ Len(ranges) \in Nat
    OBVIOUS
  <2> QED BY <2>1, FS_Interval
<1>5. \A p, q \in places : <<p, q>> \in less <=> az(p) < az(q) \/ (az(p) = az(q) /\ p < q)
  BY DEF ByAz
<1> HIDE DEF azs, places, less, order, az
<1>6. \A j \in places : az(j) \in Nat
  BY <1>1, <1>2
<1>7. IsOrder(places, less)
  <2>1. ASSUME NEW p \in places PROVE <<p, p>> \notin less
    BY <1>4, <1>5, <1>6
  <2>2. ASSUME NEW p \in places, NEW q \in places, p # q
        PROVE  <<p, q>> \in less \/ <<q, p>> \in less
    BY <1>4, <1>5, <1>6, <2>2
  <2>3. ASSUME NEW p \in places, NEW q \in places, NEW r \in places,
               <<p, q>> \in less, <<q, r>> \in less
        PROVE  <<p, r>> \in less
    BY <1>4, <1>5, <1>6, <2>3
  <2> QED BY <2>1, <2>2, <2>3 DEF IsOrder
<1>8. all \in Seq(RangesIn(st))
  <2>1. IsFiniteSet(places)
    BY <1>4
  <2> DEFINE m == Cardinality(places)
  <2>2. order \in [1..m -> places] /\ m \in Nat
    BY <1>7, <2>1, Sorted, FS_CardinalityType DEF order
  <2> HIDE DEF m
  <2>3. \A p \in places : ranges[p] \in RangesIn(st)
    BY DEF places
  <2>4. all \in [1..m -> RangesIn(st)]
    BY <2>2, <2>3
  <2> QED BY <2>2, <2>4
<1>9. \A i \in 1..Len(azs) : Cardinality(PlacesOf(st, ranges, azs[i])) \in Nat
  <2> SUFFICES ASSUME NEW i \in 1..Len(azs)
               PROVE  Cardinality(PlacesOf(st, ranges, azs[i])) \in Nat
    OBVIOUS
  <2>1. azs[i] \in Nat
    BY <1>1, <1>2
  <2> QED BY <2>1, EarlierAndHere
<1>10. list \in Seq([az : AzsIn(st), count : Nat]) /\ Len(list) = Len(azs)
  <2> DEFINE n == Len(azs)
  <2>1. n \in Nat /\ azs \in [1..n -> AzsIn(st)]
    BY <1>1
  <2>2. \A i \in 1..n : Cardinality(PlacesOf(st, ranges, azs[i])) \in Nat
    BY <1>9
  <2> HIDE DEF n
  <2> DEFINE T == [az : AzsIn(st), count : Nat]
  <2>3. list \in [1..n -> T]
    BY <2>1, <2>2
  <2>4. list \in Seq(T) /\ Len(list) = n
    <3> HIDE DEF list, T
    <3> QED BY <2>1, <2>3
  <2> QED BY <2>4 DEF n
<1> HIDE DEF list, all
<1> QED BY <1>3, <1>8, <1>10 DEF RepliesIn, azs

LEMMA NoticesTyped ==
  ASSUME NEW st \in Sites, NEW s \in DOMAIN st.at, NEW ranges \in Seq(RangesIn(st)),
         NEW c \in AzsIn(st) \cup {-1}
  PROVE  NoticesFor(st, s, ranges, c) \in NoticesIn(st)
<1> DEFINE azs == AzsOf(st, ranges)
           nodes(rs) == [j \in DOMAIN rs |-> st.at[s][rs[j].block]]
           of(i) == OfAz(st, ranges, azs[i])
           locals(i) == ParitiesIn(st, s, Locals(st.sch), azs[i])
           data == [i \in DOMAIN azs |->
                      [az |-> azs[i], nodes |-> nodes(of(i)), parities |-> locals(i)]]
           parities == IF st.sch.code = "Azure_LRC_1"
                       THEN ParitiesIn(st, s, Locals(st.sch) \cup Globals(st.sch), c)
                       ELSE {}
<1>1. NoticesFor(st, s, ranges, c) = [data |-> data, collector |-> c, parities |-> parities]
  BY DEF NoticesFor
<1>2. Locals(st.sch) \subseteq Blocks(st.sch)
  <2>1. IsScheme(st.sch)
    BY AzsAreNumbers
  <2>2. \A i \in 0..(st.sch.l - 1) :
          st.sch.code # "RS" => LocalOf(st.sch, i) \in Blocks(st.sch)
    <3>1. /\ st.sch.k \in Nat /\ st.sch.g \in Nat /\ st.sch.l \in Nat
          /\ st.sch.code \in {"RS", "OPPO_LRC", "Azure_LRC_1"}
      BY <2>1 DEF IsScheme
    <3>2. st.sch.code # "RS" => Size(st.sch) \in {st.sch.k + st.sch.g + st.sch.l,
                                                  st.sch.k + st.sch.g + st.sch.l + 1}
      BY <3>1 DEF Size
    <3>3. ASSUME NEW i \in 0..(st.sch.l - 1), st.sch.code # "RS"
          PROVE  LocalOf(st.sch, i) \in Blocks(st.sch)
      <4> DEFINE k == st.sch.k
                 g == st.sch.g
                 l == st.sch.l
                 z == Size(st.sch)
      <4>1. /\ k \in Nat /\ g \in Nat /\ l \in Nat /\ i \in 0..(l - 1)
            /\ z = k + g + l \/ z = k + g + l + 1
        BY <3>1, <3>2, <3>3
      <4> HIDE DEF k, g, l, z
      <4>2. k + g + i \in 0..(z - 1)
        BY <4>1
      <4> QED BY <4>2 DEF LocalOf, Blocks, k, g, z
    <3> QED BY <3>3
  <2> QED BY <2>2 DEF Locals
<1>3. Globals(st.sch) \subseteq Blocks(st.sch)
  BY GlobalsInAzs
<1>4. parities \in SUBSET Blocks(st.sch) /\ \A i : locals(i) \in SUBSET Blocks(st.sch)
  BY <1>2, <1>3 DEF ParitiesIn
<1>5. \A x \in Blocks(st.sch) : st.at[s][x] \in AzsIn(st) \X Nat
  <2>1. st.at \in Seq([Blocks(st.sch) -> (0..(st.azs - 1)) \X Nat])
    BY SitesAssumption
  <2>2. st.at[s] \in [Blocks(st.sch) -> (0..(st.azs - 1)) \X Nat]
    BY <2>1
  <2> QED BY <2>2 DEF AzsIn
<1>6. \A i : of(i) \in Seq(RangesIn(st))
  <2> SUFFICES ASSUME NEW i PROVE of(i) \in Seq(RangesIn(st))
    OBVIOUS
  <2>1. PlacesOf(st, ranges, azs[i]) \in SUBSET (DOMAIN ranges)
    BY DEF PlacesOf
  <2> QED BY <2>1, Picked DEF OfAz
<1>7. \A rs \in Seq(RangesIn(st)) : nodes(rs) \in Seq(AzsIn(st) \X Nat)
  <2> SUFFICES ASSUME NEW rs \in Seq(RangesIn(st)) PROVE nodes(rs) \in Seq(AzsIn(st) \X Nat)
    OBVIOUS
  <2>1. Len(rs) \in Nat /\ DOMAIN rs = 1..Len(rs) /\ \A j \in 1..Len(rs) : rs[j] \in RangesIn(st)
    OBVIOUS
  <2>2. \A r \in RangesIn(st) : r.block \in Blocks(st.sch)
    BY DEF RangesIn
  <2>3. nodes(rs) \in [1..Len(rs) -> AzsIn(st) \X Nat]
    BY <1>5, <2>1, <2>2
  <2> HIDE DEF nodes
  <2> QED BY <2>1, <2>3
<1>8. \A i : nodes(of(i)) \in Seq(AzsIn(st) \X Nat)
  <2> HIDE DEF nodes, of
  <2> QED BY <1>6, <1>7
<1>9. azs \in [1..Len(azs) -> AzsIn(st)] /\ Len(azs) \in Nat
  BY AzsListed
<1> DEFINE n == Len(azs)
<1>10. n \in Nat /\ azs \in [1..n -> AzsIn(st)]
  BY <1>9
<1> HIDE DEF azs, nodes, of, locals, parities, n
<1> DEFINE T == [az : AzsIn(st), nodes : Seq(AzsIn(st) \X Nat),
                 parities : SUBSET Blocks(st.sch)]
<1>11. data \in [1..n -> T]
  BY <1>4, <1>8, <1>10
<1> HIDE DEF data, T
<1>12. data \in Seq(T)
  BY <1>10, <1>11
<1> QED BY <1>1, <1>4, <1>12 DEF NoticesIn, T

-----------------------------------------------------------------------------
(* The invariant                                                           *)

Pcs == {"none", "asked", "split", "taken", "filled", "notices", "replied", "returned"}
KeysIn(st) == DOMAIN st.objects \cup {NoKey}
CallsIn(st) ==
  [pc : Pcs, key : KeysIn(st), offset : Nat, length : Nat,
   request : [key : KeysIn(st), offset : Nat, length : Nat],
   split : Seq(RangesIn(st)), ranges : Seq(RangesIn(st)), reply : RepliesIn(st),
   notices : NoticesIn(st), asked : Nat, next : Nat,
   slices : SUBSET [az : AzsIn(st), range : RangesIn(st)]]

(* A call that has come to one of pcs, or has gone through all of them: one*)
(* that returns because the coordinator has stopped may have left any out. *)
Reached(u, pcs) == upd[u].pc \in pcs \/ (At(u, "returned") /\ up)

RequestMade(u) ==
  IF At(u, "none")
  THEN upd[u] = Unused
  ELSE /\ u <= site.calls
       /\ upd[u].key \in DOMAIN site.objects
       /\ upd[u].offset < site.objects[upd[u].key].size
       /\ upd[u].length # 0
       /\ ~Missing(u) => upd[u].request = [key |-> upd[u].key, offset |-> upd[u].offset,
                                           length |-> upd[u].length]

SplitMade(u) ==
  Reached(u, {"split", "taken", "filled", "notices", "replied"})
    => /\ ~Missing(u)
       /\ upd[u].split = SplitOf(site, site.objects[upd[u].key], upd[u].offset, upd[u].length)

RangesTaken(u) ==
  Reached(u, {"taken", "filled", "notices", "replied"})
    => upd[u].ranges = InFirst(upd[u].split)

ReplyFilled(u) ==
  Reached(u, {"filled", "notices", "replied"})
    => /\ upd[u].reply.azs = ReplyFor(site, upd[u].ranges).azs
       /\ upd[u].reply.ranges = ReplyFor(site, upd[u].ranges).ranges

NoticesMade(u) ==
  At(u, "notices")
    => LET s == FirstStripe(upd[u].split)
       IN \E c \in Collectors(site, s, upd[u].ranges) :
            upd[u].notices = NoticesFor(site, s, upd[u].ranges, c)

(* The client is through with the first AZs of the reply and has read what *)
(* is in them; j is where those of the next AZ begin.                      *)
Passed(u) ==
  {j \in DOMAIN upd[u].ranges :
     \E i \in 1..upd[u].asked :
       AzsOf(site, upd[u].ranges)[i] = AzOf(site, upd[u].ranges[j])}
SlicedInTurn(u) ==
  /\ upd[u].pc \notin {"replied", "returned"}
       => upd[u].asked = 0 /\ upd[u].next = 0 /\ upd[u].slices = {}
  /\ Reached(u, {"replied"})
       => /\ upd[u].asked <= Len(upd[u].reply.azs)
          /\ upd[u].next = Cardinality(Passed(u))
          /\ upd[u].slices = {[az |-> AzOf(site, upd[u].ranges[j]),
                              range |-> upd[u].ranges[j]] : j \in Passed(u)}
  /\ At(u, "returned") /\ up => upd[u].asked = Len(upd[u].reply.azs)

CallInv(u) ==
  /\ RequestMade(u) /\ SplitMade(u) /\ RangesTaken(u)
  /\ ReplyFilled(u) /\ NoticesMade(u) /\ SlicedInTurn(u)

(* Ids are given to calls that are then replied to.                        *)
Answered == {u \in Updates : upd[u].pc \in {"replied", "returned"}}

IInv ==
  /\ site \in Sites /\ up \in BOOLEAN
  /\ upd \in [Updates -> CallsIn(site)]
  /\ nextId \in 0..Cardinality(Answered)
  /\ azTable \subseteq AzsIn(site) \cup {-1}
  /\ LeavesTables
  /\ \A u \in Updates : CallInv(u)

LEMMA UnusedTyped ==
  ASSUME NEW st \in Sites
  PROVE  Unused \in CallsIn(st)
<1>1. NoReply \in RepliesIn(st)
  <2> DEFINE T == [az : AzsIn(st), count : Nat]
  <2>1. <<>> \in Seq(T) /\ <<>> \in Seq(RangesIn(st))
    OBVIOUS
  <2> QED BY <2>1 DEF NoReply, RepliesIn
<1>2. NoNotices \in NoticesIn(st)
  <2> DEFINE T == [az : AzsIn(st), nodes : Seq(AzsIn(st) \X Nat),
                   parities : SUBSET Blocks(st.sch)]
  <2>1. <<>> \in Seq(T)
    OBVIOUS
  <2> QED BY <2>1 DEF NoNotices, NoticesIn
<1>3. <<>> \in Seq(RangesIn(st))
  OBVIOUS
<1>4. NoKey \in KeysIn(st) /\ "none" \in Pcs
  BY DEF KeysIn, Pcs
<1> HIDE DEF NoReply, NoNotices
<1> QED BY <1>1, <1>2, <1>3, <1>4 DEF Unused, CallsIn

LEMMA Initially == Init => IInv
<1> SUFFICES ASSUME Init PROVE IInv
  OBVIOUS
<1>1. /\ site \in Sites /\ up = TRUE /\ azTable = AzIds /\ nextId = 0
      /\ upd = [u \in Updates |-> Unused]
  BY DEF Init
<1>2. upd \in [Updates -> CallsIn(site)]
  BY <1>1, UnusedTyped
<1>3. \A u \in Updates : upd[u] = Unused /\ upd[u].pc = "none"
  BY <1>1 DEF Unused
<1>4. Answered = {}
  BY <1>3 DEF Answered
<1>5. nextId \in 0..Cardinality(Answered)
  BY <1>1, <1>4, FS_EmptySet
<1>6. azTable \subseteq AzsIn(site) \cup {-1}
  BY <1>1 DEF AzIds, AzsIn
<1>7. LeavesTables
  BY <1>1 DEF LeavesTables
<1>8. ASSUME NEW u \in Updates PROVE CallInv(u)
  <2>1. /\ \A pcs : "none" \notin pcs => ~Reached(u, pcs)
        /\ At(u, "none") /\ ~At(u, "notices")
    BY <1>3 DEF Reached, At
  <2>2. RequestMade(u)
    BY <1>3 DEF RequestMade, At
  <2>3. SplitMade(u) /\ RangesTaken(u) /\ ReplyFilled(u) /\ NoticesMade(u)
    BY <2>1 DEF SplitMade, RangesTaken, ReplyFilled, NoticesMade
  <2>4. SlicedInTurn(u)
    <3>1. upd[u].asked = 0 /\ upd[u].next = 0 /\ upd[u].slices = {}
      BY <1>3 DEF Unused
    <3>2. ~Reached(u, {"replied"}) /\ ~At(u, "returned")
      BY <1>3 DEF Reached, At
    <3> QED BY <3>1, <3>2 DEF SlicedInTurn
  <2> QED BY <2>2, <2>3, <2>4 DEF CallInv
<1> QED BY <1>1, <1>2, <1>5, <1>6, <1>7, <1>8 DEF IInv

(* A call keeps its part of the invariant while nothing happens to it; the *)
(* coordinator may stop.                                                   *)
LEMMA Unaffected ==
  ASSUME NEW v \in Updates, CallInv(v),
         upd'[v] = upd[v], site' = site, up' => up
  PROVE  CallInv(v)'
<1>1. /\ \A pc : At(v, pc)' <=> At(v, pc)
      /\ \A pcs : Reached(v, pcs)' => Reached(v, pcs)
      /\ Missing(v)' <=> Missing(v)
  BY DEF At, Reached, Missing
<1>2. RequestMade(v)'
  BY <1>1 DEF CallInv, RequestMade
<1>3. SplitMade(v)'
  BY <1>1 DEF CallInv, SplitMade
<1>4. RangesTaken(v)'
  BY <1>1 DEF CallInv, RangesTaken
<1>5. ReplyFilled(v)'
  BY <1>1 DEF CallInv, ReplyFilled
<1>6. NoticesMade(v)'
  BY <1>1 DEF CallInv, NoticesMade
<1>7. SlicedInTurn(v)'
  <2>1. Passed(v)' = Passed(v)
    BY DEF Passed
  <2> QED BY <1>1, <2>1 DEF CallInv, SlicedInTurn
<1> QED BY <1>2, <1>3, <1>4, <1>5, <1>6, <1>7 DEF CallInv

LEMMA AnsweredAreCalls ==
  ASSUME IInv
  PROVE  /\ IsFiniteSet(Answered) /\ Cardinality(Answered) \in Nat
         /\ Answered \subseteq 1..site.calls /\ site.calls \in Nat
         /\ Cardinality(Answered) <= site.calls
<1>1. site.calls \in 0..MaxUpdates /\ MaxUpdates \in Nat
  BY SitesAssumption, BoundAssumption DEF IInv
<1>2. ASSUME NEW u \in Answered PROVE u \in 1..site.calls
  <2>1. u \in Updates /\ ~At(u, "none")
    BY DEF Answered, At
  <2>2. u <= site.calls
    BY <2>1 DEF IInv, CallInv, RequestMade
  <2> QED BY <1>1, <2>1, <2>2 DEF Updates
<1>3. IsFiniteSet(1..site.calls) /\ Cardinality(1..site.calls) = site.calls
  <2>1. site.calls \in Int
    BY <1>1
  <2>2. IsFiniteSet(1..site.calls)
    BY <2>1, FS_Interval
  <2>3. Cardinality(1..site.calls) = IF 1 > site.calls THEN 0 ELSE site.calls - 1 + 1
    BY <2>1, FS_Interval
  <2> QED BY <1>1, <2>2, <2>3
<1>4. Answered \subseteq 1..site.calls
  BY <1>2
<1>5. IsFiniteSet(Answered) /\ Cardinality(Answered) <= Cardinality(1..site.calls)
  BY <1>3, <1>4, FS_Subset
<1>6. Cardinality(Answered) \in Nat
  BY <1>5, FS_CardinalityType
<1> QED BY <1>1, <1>3, <1>4, <1>5, <1>6

(* A step of one call under a coordinator that goes on.                    *)
LEMMA OneCall ==
  ASSUME IInv, NEW u \in Updates,
         site' = site, up' = up,
         \A v \in Updates \ {u} : upd'[v] = upd[v],
         upd' \in [Updates -> CallsIn(site)],
         ~At(u, "none")', At(u, "none") \/ upd'[u].request = upd[u].request,
         u \in Answered => u \in Answered',
         \/ nextId' = nextId
         \/ nextId' = nextId + 1 /\ u \in Answered' \ Answered,
         azTable' \subseteq AzsIn(site) \cup {-1}, Sch.code # "RS" => azTable' = AzIds,
         CallInv(u)'
  PROVE  IInv'
<1>1. \A v \in Updates : CallInv(v)'
  <2>1. ASSUME NEW v \in Updates \ {u} PROVE CallInv(v)'
    BY Unaffected DEF IInv
  <2> QED BY <2>1
<1>2. LeavesTables'
  <2>1. AzIds' = AzIds /\ Sch' = Sch
    BY DEF AzIds, Sch
  <2>2. ASSUME ~up' PROVE \E v \in Updates : ~At(v, "none")' /\ Missing(v)'
    <3>1. PICK v \in Updates : ~At(v, "none") /\ Missing(v)
      BY <2>2 DEF IInv, LeavesTables
    <3>2. upd'[v].request = upd[v].request /\ ~At(v, "none")'
      BY <3>1 DEF At
    <3> QED BY <3>1, <3>2 DEF Missing
  <2> QED BY <2>1, <2>2 DEF LeavesTables
<1>3. nextId' \in 0..Cardinality(Answered')
  <2>1. IsFiniteSet(Answered) /\ Cardinality(Answered) \in Nat /\ nextId \in 0..Cardinality(Answered)
    BY AnsweredAreCalls DEF IInv
  <2>2. \A v \in Updates \ {u} : v \in Answered' <=> v \in Answered
    BY DEF Answered
  <2>3. Answered' \subseteq Updates /\ Answered \subseteq Updates
    BY DEF Answered
  <2>4. CASE u \in Answered' \ Answered
    <3>1. Answered' = Answered \cup {u}
      BY <2>2, <2>3, <2>4
    <3>2. Cardinality(Answered') = Cardinality(Answered) + 1
      BY <2>1, <2>4, <3>1, FS_AddElement
    <3> QED BY <2>1, <3>2
  <2>5. CASE ~(u \in Answered' \ Answered)
    <3>1. Answered' = Answered
      BY <2>2, <2>3, <2>5
    <3> QED BY <2>1, <2>5, <3>1
  <2> QED BY <2>4, <2>5
<1>4. site' \in Sites /\ up' \in BOOLEAN
  BY DEF IInv
<1> QED BY <1>1, <1>2, <1>3, <1>4 DEF IInv

(* What is known of a call and its object.                                 *)
LEMMA CallFacts ==
  ASSUME IInv, NEW u \in Updates
  PROVE  /\ site \in Sites /\ upd \in [Updates -> CallsIn(site)]
         /\ upd[u] \in CallsIn(site) /\ CallInv(u)
         /\ azTable \subseteq AzsIn(site) \cup {-1}
         /\ Sch.code # "RS" => azTable = AzIds
BY DEF IInv, LeavesTables

LEMMA CallObject ==
  ASSUME IInv, NEW u \in Updates, ~At(u, "none")
  PROVE  LET obj == site.objects[upd[u].key]
         IN /\ IsObject(site, obj)
            /\ upd[u].offset \in Nat /\ upd[u].offset < obj.size
            /\ upd[u].length \in Nat \ {0}
<1>1. upd[u].key \in DOMAIN site.objects
  BY DEF IInv, CallInv, RequestMade
<1>2. IsObject(site, site.objects[upd[u].key])
  BY <1>1, SitesAssumption DEF IInv
<1>3. upd[u].offset \in Nat /\ upd[u].length \in Nat
  BY CallFacts DEF CallsIn
<1>4. upd[u].offset < site.objects[upd[u].key].size /\ upd[u].length # 0
  BY DEF IInv, CallInv, RequestMade
<1> QED BY <1>2, <1>3, <1>4

LEMMA AskStep ==
  ASSUME IInv, NEW u \in Updates, NEW key \in DOMAIN site.objects,
         NEW offset \in 0..(site.objects[key].size - 1), NEW length \in Nat \ {0},
         Call(u, key, offset, length) \/ CallFilled(u, key, offset, length)
  PROVE  IInv'
<1> DEFINE call == upd[u]
           own == [key |-> key, offset |-> offset, length |-> length]
           obj == site.objects[key]
<1>1. PICK request \in {call.request, own} : Ask(u, key, offset, length, request)
  BY DEF Call, CallFilled
<1>2. /\ At(u, "none") /\ u <= site.calls
      /\ upd' = [upd EXCEPT ![u] = [@ EXCEPT !.pc = "asked", !.key = key, !.offset = offset,
                                             !.length = length, !.request = request]]
      /\ site' = site /\ up' = up /\ azTable' = azTable /\ nextId' = nextId
  BY <1>1 DEF Ask
<1>3. call \in CallsIn(site) /\ call = Unused /\ upd \in [Updates -> CallsIn(site)]
  BY <1>2, CallFacts DEF CallInv, RequestMade
<1>4. offset \in Nat /\ offset < obj.size
  <2>1. obj.size \in Nat
    BY SitesAssumption DEF IInv, IsObject
  <2> QED BY <2>1
<1>5. key \in KeysIn(site)
  BY DEF KeysIn
<1>6. upd'[u] = [call EXCEPT !.pc = "asked", !.key = key, !.offset = offset,
                             !.length = length, !.request = request]
  BY <1>2, <1>3
<1>7. request \in [key : KeysIn(site), offset : Nat, length : Nat]
  BY <1>3, <1>4, <1>5 DEF CallsIn
<1>8. upd'[u] \in CallsIn(site)
  <2> DEFINE Requests == [key : KeysIn(site), offset : Nat, length : Nat]
  <2>1. /\ call \in CallsIn(site) /\ "asked" \in Pcs /\ key \in KeysIn(site)
        /\ offset \in Nat /\ length \in Nat /\ request \in Requests
    BY <1>3, <1>4, <1>5, <1>7 DEF Pcs
  <2> HIDE DEF call, Requests
  <2>2. [call EXCEPT !.pc = "asked", !.key = key, !.offset = offset,
                     !.length = length, !.request = request] \in CallsIn(site)
    BY <2>1 DEF CallsIn, Requests
  <2> QED BY <1>6, <2>2
<1>9. upd' \in [Updates -> CallsIn(site)] /\ \A v \in Updates \ {u} : upd'[v] = upd[v]
  <2>1. \A v \in Updates \ {u} : upd'[v] = upd[v]
    BY <1>2, <1>3
  <2>2. upd' = [upd EXCEPT ![u] = upd'[u]]
    BY <1>2, <1>3
  <2>3. upd' \in [Updates -> CallsIn(site)]
    BY <1>3, <1>8, <2>2
  <2> QED BY <2>1, <2>3
<1>10. /\ upd'[u].pc = "asked" /\ upd'[u].key = key /\ upd'[u].offset = offset
       /\ upd'[u].length = length /\ upd'[u].request = request
       /\ upd'[u].asked = 0 /\ upd'[u].next = 0 /\ upd'[u].slices = {}
  BY <1>3, <1>6 DEF Unused, CallsIn
<1>11. ~At(u, "none")' /\ ~At(u, "notices")' /\ ~At(u, "returned")'
       /\ \A pcs : Reached(u, pcs)' => "asked" \in pcs
  BY <1>10 DEF At, Reached
<1>12. RequestMade(u)'
  <2>1. CASE request = own
    BY <1>2, <1>4, <1>10, <1>11, <2>1 DEF RequestMade
  <2>2. CASE request = call.request
    <3>1. request.key = NoKey
      BY <1>3, <2>2 DEF Unused
    <3>2. NoKey \notin DOMAIN site.objects
      BY SitesAssumption DEF IInv
    <3>3. Missing(u)'
      BY <1>2, <1>10, <3>1, <3>2 DEF Missing
    <3> QED BY <1>2, <1>4, <1>10, <1>11, <3>3 DEF RequestMade
  <2> QED BY <2>1, <2>2
<1>13. SplitMade(u)' /\ RangesTaken(u)' /\ ReplyFilled(u)' /\ NoticesMade(u)'
  BY <1>11 DEF SplitMade, RangesTaken, ReplyFilled, NoticesMade
<1>14. SlicedInTurn(u)'
  BY <1>10, <1>11 DEF SlicedInTurn
<1>15. CallInv(u)'
  BY <1>12, <1>13, <1>14 DEF CallInv
<1>16. u \notin Answered
  BY <1>2 DEF Answered, At
<1> QED BY <1>2, <1>9, <1>11, <1>15, <1>16, OneCall, CallFacts

LEMMA SplitStep ==
  ASSUME IInv, NEW u \in Updates, Split(u)
  PROVE  IInv'
<1> DEFINE call == upd[u]
           split == SplitOf(site, site.objects[call.key], call.offset, call.length)
<1>1. At(u, "asked") /\ ~At(u, "none") /\ ~Missing(u)
  BY DEF Split, At, Missing
<1>2. call.request = [key |-> call.key, offset |-> call.offset, length |-> call.length]
  BY <1>1 DEF IInv, CallInv, RequestMade
<1>3. /\ upd' = [upd EXCEPT ![u].pc = "split", ![u].split = split]
      /\ site' = site /\ up' = up /\ azTable' = azTable /\ nextId' = nextId
  BY <1>2 DEF Split
<1>4. call \in CallsIn(site) /\ CallInv(u) /\ upd \in [Updates -> CallsIn(site)]
  BY CallFacts
<1>5. split \in Seq(RangesIn(site))
  BY <1>1, CallObject, CallFacts, SplitTyped
<1> HIDE DEF split
<1>6. upd'[u] = [call EXCEPT !.pc = "split", !.split = split]
  BY <1>3, <1>4
<1>7. upd'[u] \in CallsIn(site)
  BY <1>4, <1>5, <1>6 DEF CallsIn, Pcs
<1>8. upd' \in [Updates -> CallsIn(site)] /\ \A v \in Updates \ {u} : upd'[v] = upd[v]
  BY <1>3, <1>4, <1>7
<1>9. /\ upd'[u].pc = "split" /\ upd'[u].split = split
      /\ upd'[u].key = call.key /\ upd'[u].offset = call.offset
      /\ upd'[u].length = call.length /\ upd'[u].request = call.request
      /\ upd'[u].asked = call.asked /\ upd'[u].next = call.next /\ upd'[u].slices = call.slices
  BY <1>4, <1>6 DEF CallsIn
<1>10. /\ ~At(u, "none")' /\ ~At(u, "notices")' /\ ~At(u, "returned")'
       /\ \A pcs : Reached(u, pcs)' => "split" \in pcs
       /\ ~Missing(u)'
  BY <1>1, <1>3, <1>9 DEF At, Reached, Missing
<1>11. RequestMade(u)'
  BY <1>1, <1>2, <1>3, <1>4, <1>9, <1>10 DEF RequestMade, CallInv
<1>12. SplitMade(u)'
  BY <1>3, <1>9, <1>10 DEF SplitMade, split
<1>13. RangesTaken(u)' /\ ReplyFilled(u)' /\ NoticesMade(u)'
  BY <1>10 DEF RangesTaken, ReplyFilled, NoticesMade
<1>14. SlicedInTurn(u)'
  <2>1. call.asked = 0 /\ call.next = 0 /\ call.slices = {}
    BY <1>1, <1>4 DEF CallInv, SlicedInTurn, At
  <2> QED BY <1>9, <1>10, <2>1 DEF SlicedInTurn
<1>15. CallInv(u)'
  BY <1>11, <1>12, <1>13, <1>14 DEF CallInv
<1>16. u \notin Answered
  BY <1>1 DEF Answered, At
<1> QED BY <1>3, <1>8, <1>9, <1>10, <1>15, <1>16, OneCall, CallFacts

LEMMA CallSplit ==
  ASSUME IInv, NEW u \in Updates,
         Reached(u, {"split", "taken", "filled", "notices", "replied"})
  PROVE  LET split == upd[u].split
         IN /\ split \in Seq(RangesIn(site)) /\ split # <<>>
            /\ FirstStripe(split) \in DOMAIN site.at
            /\ InFirst(split) \in Seq(RangesIn(site))
<1> DEFINE split == upd[u].split
<1>1. ~At(u, "none")
  BY DEF Reached, At
<1>2. split = SplitOf(site, site.objects[upd[u].key], upd[u].offset, upd[u].length)
  BY CallFacts DEF CallInv, SplitMade
<1>3. split \in Seq(RangesIn(site)) /\ Len(split) # 0
  BY <1>1, <1>2, CallFacts, CallObject, SplitTyped
<1>4. split # <<>>
  BY <1>3
<1> HIDE DEF split
<1>5. FirstStripe(split) \in DOMAIN site.at /\ InFirst(split) \in Seq(RangesIn(site))
  BY <1>3, <1>4, CallFacts, RangesOfFirst
<1> QED BY <1>3, <1>4, <1>5 DEF split

LEMMA TakeFirstStep ==
  ASSUME IInv, NEW u \in Updates, TakeFirst(u)
  PROVE  IInv'
<1> DEFINE call == upd[u]
           ranges == InFirst(call.split)
<1>1. At(u, "split")
  BY DEF TakeFirst
<1>2. /\ upd' = [upd EXCEPT ![u].pc = "taken", ![u].ranges = ranges]
      /\ site' = site /\ up' = up /\ azTable' = azTable /\ nextId' = nextId
  BY DEF TakeFirst
<1>3. call \in CallsIn(site) /\ CallInv(u) /\ upd \in [Updates -> CallsIn(site)]
  BY CallFacts
<1>4. Reached(u, {"split", "taken", "filled", "notices", "replied"})
  BY <1>1 DEF Reached, At
<1>5. ranges \in Seq(RangesIn(site))
  BY <1>4, CallSplit
<1> HIDE DEF ranges
<1>6. upd'[u] = [call EXCEPT !.pc = "taken", !.ranges = ranges]
  BY <1>2, <1>3
<1>7. upd'[u] \in CallsIn(site)
  BY <1>3, <1>5, <1>6 DEF CallsIn, Pcs
<1>8. upd' \in [Updates -> CallsIn(site)] /\ \A v \in Updates \ {u} : upd'[v] = upd[v]
  BY <1>2, <1>3, <1>7
<1>9. /\ upd'[u].pc = "taken" /\ upd'[u].ranges = ranges /\ upd'[u].split = call.split
      /\ upd'[u].key = call.key /\ upd'[u].offset = call.offset
      /\ upd'[u].length = call.length /\ upd'[u].request = call.request
      /\ upd'[u].asked = call.asked /\ upd'[u].next = call.next /\ upd'[u].slices = call.slices
  BY <1>3, <1>6 DEF CallsIn
<1>10. /\ ~At(u, "none") /\ ~At(u, "none")' /\ ~At(u, "notices")' /\ ~At(u, "returned")'
       /\ \A pcs : Reached(u, pcs)' => "taken" \in pcs
       /\ Missing(u)' <=> Missing(u)
  BY <1>1, <1>2, <1>9 DEF At, Reached, Missing
<1>11. RequestMade(u)'
  BY <1>2, <1>3, <1>9, <1>10 DEF RequestMade, CallInv
<1>12. SplitMade(u)'
  BY <1>2, <1>3, <1>4, <1>9, <1>10 DEF SplitMade, CallInv
<1>13. RangesTaken(u)'
  BY <1>9 DEF RangesTaken, ranges
<1>14. ReplyFilled(u)' /\ NoticesMade(u)'
  BY <1>10 DEF ReplyFilled, NoticesMade
<1>15. SlicedInTurn(u)'
  <2>1. call.asked = 0 /\ call.next = 0 /\ call.slices = {}
    BY <1>1, <1>3 DEF CallInv, SlicedInTurn, At
  <2> QED BY <1>9, <1>10, <2>1 DEF SlicedInTurn
<1>16. CallInv(u)'
  BY <1>11, <1>12, <1>13, <1>14, <1>15 DEF CallInv
<1>17. u \notin Answered
  BY <1>1 DEF Answered, At
<1> QED BY <1>2, <1>8, <1>9, <1>10, <1>16, <1>17, OneCall, CallFacts

LEMMA FillReplyStep ==
  ASSUME IInv, NEW u \in Updates, FillReply(u)
  PROVE  IInv'
<1> DEFINE call == upd[u]
           reply == ReplyFor(site, call.ranges)
<1>1. At(u, "taken")
  BY DEF FillReply
<1>2. /\ upd' = [upd EXCEPT ![u].pc = "filled", ![u].reply = reply]
      /\ site' = site /\ up' = up /\ azTable' = azTable /\ nextId' = nextId
  BY DEF FillReply
<1>3. call \in CallsIn(site) /\ CallInv(u) /\ upd \in [Updates -> CallsIn(site)]
  BY CallFacts
<1>4. /\ Reached(u, {"split", "taken", "filled", "notices", "replied"})
      /\ Reached(u, {"taken", "filled", "notices", "replied"})
  BY <1>1 DEF Reached, At
<1>5. reply \in RepliesIn(site)
  <2>1. call.ranges \in Seq(RangesIn(site))
    BY <1>3 DEF CallsIn
  <2> QED BY <2>1, ReplyTyped, CallFacts
<1> HIDE DEF reply
<1>6. upd'[u] = [call EXCEPT !.pc = "filled", !.reply = reply]
  BY <1>2, <1>3
<1>7. upd'[u] \in CallsIn(site)
  BY <1>3, <1>5, <1>6 DEF CallsIn, Pcs
<1>8. upd' \in [Updates -> CallsIn(site)] /\ \A v \in Updates \ {u} : upd'[v] = upd[v]
  BY <1>2, <1>3, <1>7
<1>9. /\ upd'[u].pc = "filled" /\ upd'[u].reply = reply
      /\ upd'[u].ranges = call.ranges /\ upd'[u].split = call.split
      /\ upd'[u].key = call.key /\ upd'[u].offset = call.offset
      /\ upd'[u].length = call.length /\ upd'[u].request = call.request
      /\ upd'[u].asked = call.asked /\ upd'[u].next = call.next /\ upd'[u].slices = call.slices
  BY <1>3, <1>6 DEF CallsIn
<1>10. /\ ~At(u, "none") /\ ~At(u, "none")' /\ ~At(u, "notices")' /\ ~At(u, "returned")'
       /\ \A pcs : Reached(u, pcs)' => "filled" \in pcs
       /\ Missing(u)' <=> Missing(u)
  BY <1>1, <1>2, <1>9 DEF At, Reached, Missing
<1>11. RequestMade(u)'
  BY <1>2, <1>3, <1>9, <1>10 DEF RequestMade, CallInv
<1>12. SplitMade(u)'
  BY <1>2, <1>3, <1>4, <1>9, <1>10 DEF SplitMade, CallInv
<1>13. RangesTaken(u)'
  BY <1>3, <1>4, <1>9 DEF RangesTaken, CallInv
<1>14. ReplyFilled(u)' /\ NoticesMade(u)'
  BY <1>2, <1>9, <1>10 DEF ReplyFilled, NoticesMade, reply
<1>15. SlicedInTurn(u)'
  <2>1. call.asked = 0 /\ call.next = 0 /\ call.slices = {}
    BY <1>1, <1>3 DEF CallInv, SlicedInTurn, At
  <2> QED BY <1>9, <1>10, <2>1 DEF SlicedInTurn
<1>16. CallInv(u)'
  BY <1>11, <1>12, <1>13, <1>14, <1>15 DEF CallInv
<1>17. u \notin Answered
  BY <1>1 DEF Answered, At
<1> QED BY <1>2, <1>8, <1>9, <1>10, <1>16, <1>17, OneCall, CallFacts

LEMMA MakeNoticesStep ==
  ASSUME IInv, NEW u \in Updates, MakeNotices(u)
  PROVE  IInv'
<1> DEFINE call == upd[u]
           s == FirstStripe(call.split)
<1>1. At(u, "filled")
  BY DEF MakeNotices
<1>2. PICK c \in Collectors(site, s, call.ranges) :
        /\ azTable' = azTable \cup {c}
        /\ upd' = [upd EXCEPT ![u].pc = "notices",
                              ![u].notices = NoticesFor(site, s, call.ranges, c)]
  BY DEF MakeNotices
<1>3. site' = site /\ up' = up /\ nextId' = nextId
  BY DEF MakeNotices
<1>4. call \in CallsIn(site) /\ CallInv(u) /\ upd \in [Updates -> CallsIn(site)]
  BY CallFacts
<1>5. /\ Reached(u, {"split", "taken", "filled", "notices", "replied"})
      /\ Reached(u, {"taken", "filled", "notices", "replied"})
      /\ Reached(u, {"filled", "notices", "replied"})
  BY <1>1 DEF Reached, At
<1>6. s \in DOMAIN site.at /\ call.ranges \in Seq(RangesIn(site))
  BY <1>4, <1>5, CallSplit DEF CallsIn
<1>7. c \in AzsIn(site) \cup {-1} /\ (Sch.code # "RS" => c \in AzIds)
  BY <1>6, CollectorIsAz, CallFacts DEF Sch, AzIds, AzsIn
<1> DEFINE notices == NoticesFor(site, s, call.ranges, c)
<1>8. notices \in NoticesIn(site)
  BY <1>6, <1>7, NoticesTyped, CallFacts
<1>9. azTable' \subseteq AzsIn(site) \cup {-1} /\ (Sch.code # "RS" => azTable' = AzIds)
  BY <1>2, <1>7, CallFacts
<1> HIDE DEF notices
<1>10. upd'[u] = [call EXCEPT !.pc = "notices", !.notices = notices]
  BY <1>2, <1>4 DEF notices
<1>11. upd'[u] \in CallsIn(site)
  BY <1>4, <1>8, <1>10 DEF CallsIn, Pcs
<1>12. upd' \in [Updates -> CallsIn(site)] /\ \A v \in Updates \ {u} : upd'[v] = upd[v]
  BY <1>2, <1>4, <1>11
<1>13. /\ upd'[u].pc = "notices" /\ upd'[u].notices = notices /\ upd'[u].reply = call.reply
       /\ upd'[u].ranges = call.ranges /\ upd'[u].split = call.split
       /\ upd'[u].key = call.key /\ upd'[u].offset = call.offset
       /\ upd'[u].length = call.length /\ upd'[u].request = call.request
       /\ upd'[u].asked = call.asked /\ upd'[u].next = call.next /\ upd'[u].slices = call.slices
  BY <1>4, <1>10 DEF CallsIn
<1>14. /\ ~At(u, "none") /\ ~At(u, "none")' /\ ~At(u, "returned")'
       /\ \A pcs : Reached(u, pcs)' => "notices" \in pcs
       /\ Missing(u)' <=> Missing(u)
  BY <1>1, <1>3, <1>13 DEF At, Reached, Missing
<1>15. RequestMade(u)'
  BY <1>3, <1>4, <1>13, <1>14 DEF RequestMade, CallInv
<1>16. SplitMade(u)'
  BY <1>3, <1>4, <1>5, <1>13, <1>14 DEF SplitMade, CallInv
<1>17. RangesTaken(u)' /\ ReplyFilled(u)'
  BY <1>3, <1>4, <1>5, <1>13 DEF RangesTaken, ReplyFilled, CallInv
<1>18. NoticesMade(u)'
  BY <1>2, <1>3, <1>13 DEF NoticesMade, notices
<1>19. SlicedInTurn(u)'
  <2>1. call.asked = 0 /\ call.next = 0 /\ call.slices = {}
    BY <1>1, <1>4 DEF CallInv, SlicedInTurn, At
  <2> QED BY <1>13, <1>14, <2>1 DEF SlicedInTurn
<1>20. CallInv(u)'
  BY <1>15, <1>16, <1>17, <1>18, <1>19 DEF CallInv
<1>21. u \notin Answered
  BY <1>1 DEF Answered, At
<1> QED BY <1>3, <1>9, <1>12, <1>13, <1>14, <1>20, <1>21, OneCall

(* A call is replied to: no slice has been read yet.                       *)
LEMMA Replied ==
  ASSUME IInv, NEW u \in Updates, upd[u].pc \in {"filled", "notices"},
         upd' = [upd EXCEPT ![u].pc = "replied", ![u].reply.id = upd'[u].reply.id],
         upd'[u].reply.id \in Nat, site' = site
  PROVE  /\ upd' \in [Updates -> CallsIn(site)] /\ \A v \in Updates \ {u} : upd'[v] = upd[v]
         /\ ~At(u, "none")' /\ upd'[u].request = upd[u].request
         /\ u \in Answered' /\ u \notin Answered
         /\ CallInv(u)'
<1> DEFINE call == upd[u]
           id == upd'[u].reply.id
           reply == [call.reply EXCEPT !.id = id]
<1>1. call \in CallsIn(site) /\ CallInv(u) /\ upd \in [Updates -> CallsIn(site)]
  BY CallFacts
<1>2. /\ Reached(u, {"split", "taken", "filled", "notices", "replied"})
      /\ Reached(u, {"taken", "filled", "notices", "replied"})
      /\ Reached(u, {"filled", "notices", "replied"})
  BY DEF Reached
<1>3. call.reply \in RepliesIn(site)
  BY <1>1 DEF CallsIn
<1>4. /\ reply \in RepliesIn(site)
      /\ reply.azs = call.reply.azs /\ reply.ranges = call.reply.ranges
  BY <1>3 DEF RepliesIn
<1>5. upd' = [upd EXCEPT ![u] = [@ EXCEPT !.pc = "replied", !.reply = reply]]
  <2> HIDE DEF id
  <2>1. upd' = [upd EXCEPT ![u].pc = "replied", ![u].reply.id = id]
    BY DEF id
  <2> QED BY <1>1, <2>1 DEF CallsIn
<1> HIDE DEF reply
<1>6. upd'[u] = [call EXCEPT !.pc = "replied", !.reply = reply]
  BY <1>1, <1>5
<1>7. upd'[u] \in CallsIn(site)
  BY <1>1, <1>4, <1>6 DEF CallsIn, Pcs
<1>8. upd' \in [Updates -> CallsIn(site)] /\ \A v \in Updates \ {u} : upd'[v] = upd[v]
  BY <1>1, <1>5, <1>7
<1>9. /\ upd'[u].pc = "replied" /\ upd'[u].reply = reply
      /\ upd'[u].ranges = call.ranges /\ upd'[u].split = call.split
      /\ upd'[u].key = call.key /\ upd'[u].offset = call.offset
      /\ upd'[u].length = call.length /\ upd'[u].request = call.request
      /\ upd'[u].asked = call.asked /\ upd'[u].next = call.next /\ upd'[u].slices = call.slices
  BY <1>1, <1>6 DEF CallsIn
<1>10. /\ ~At(u, "none") /\ ~At(u, "none")' /\ ~At(u, "returned")' /\ ~At(u, "notices")'
       /\ Missing(u)' <=> Missing(u)
  BY <1>9 DEF At, Missing
<1>11. RequestMade(u)'
  BY <1>1, <1>9, <1>10 DEF RequestMade, CallInv
<1>12. SplitMade(u)'
  BY <1>1, <1>2, <1>9, <1>10 DEF SplitMade, CallInv
<1>13. RangesTaken(u)' /\ ReplyFilled(u)' /\ NoticesMade(u)'
  BY <1>1, <1>2, <1>4, <1>9, <1>10 DEF RangesTaken, ReplyFilled, NoticesMade, CallInv
<1>14. SlicedInTurn(u)'
  <2>1. call.asked = 0 /\ call.next = 0 /\ call.slices = {}
    BY <1>1 DEF CallInv, SlicedInTurn
  <2>2. Passed(u)' = {}
    BY <1>9, <2>1 DEF Passed
  <2>3. Cardinality(Passed(u)') = 0
    BY <2>2, FS_EmptySet
  <2>4. 0 <= Len(reply.azs)
    <3> DEFINE T == [az : AzsIn(site), count : Nat]
    <3>1. reply.azs \in Seq(T)
      BY <1>4 DEF RepliesIn
    <3> QED BY <3>1
  <2>5. upd'[u].slices = {[az |-> AzOf(site, upd[u].ranges[j]),
                          range |-> upd[u].ranges[j]] : j \in Passed(u)'}
    BY <1>9, <2>1, <2>2
  <2> QED BY <1>9, <1>10, <2>1, <2>3, <2>4, <2>5 DEF SlicedInTurn
<1>15. CallInv(u)'
  BY <1>11, <1>12, <1>13, <1>14 DEF CallInv
<1>16. u \in Answered' /\ u \notin Answered
  BY <1>9 DEF Answered
<1> QED BY <1>8, <1>9, <1>10, <1>15, <1>16

LEMMA NoticesThrowStep ==
  ASSUME IInv, NEW u \in Updates, NoticesThrow(u)
  PROVE  IInv'
<1>1. /\ upd[u].pc = "filled" /\ site' = site /\ up' = up /\ azTable' = azTable
      /\ nextId' = nextId /\ upd' = [upd EXCEPT ![u].pc = "replied"]
  BY DEF NoticesThrow, At
<1>2. upd \in [Updates -> CallsIn(site)] /\ upd[u].reply \in RepliesIn(site)
  BY CallFacts DEF CallsIn
<1>3. upd'[u].reply.id = upd[u].reply.id /\ upd[u].reply.id \in Nat
  BY <1>1, <1>2 DEF CallsIn, RepliesIn
<1>4. upd' = [upd EXCEPT ![u].pc = "replied", ![u].reply.id = upd[u].reply.id]
  <2> DEFINE call == upd[u]
             reply == call.reply
  <2>1. call \in CallsIn(site) /\ reply \in RepliesIn(site)
    BY <1>2
  <2>2. reply = [reply EXCEPT !.id = reply.id]
    BY <2>1 DEF RepliesIn
  <2>3. [call EXCEPT !.pc = "replied"] = [call EXCEPT !.pc = "replied", !.reply = reply]
    BY <2>1 DEF CallsIn
  <2>4. upd' = [upd EXCEPT ![u] = [call EXCEPT !.pc = "replied"]]
    BY <1>1
  <2> HIDE DEF call, reply
  <2>5. upd' = [upd EXCEPT ![u] = [call EXCEPT !.pc = "replied",
                                               !.reply = [reply EXCEPT !.id = reply.id]]]
    BY <2>2, <2>3, <2>4
  <2> QED BY <2>5 DEF call, reply
<1>5. upd' = [upd EXCEPT ![u].pc = "replied", ![u].reply.id = upd'[u].reply.id]
  BY <1>3, <1>4
<1> QED BY <1>1, <1>3, <1>5, Replied, OneCall, CallFacts

LEMMA NumberStep ==
  ASSUME IInv, NEW u \in Updates, Number(u)
  PROVE  IInv'
<1>1. /\ upd[u].pc = "notices" /\ site' = site /\ up' = up /\ azTable' = azTable
      /\ nextId' = nextId + 1
      /\ upd' = [upd EXCEPT ![u].pc = "replied", ![u].reply.id = nextId]
  BY DEF Number, At
<1>2. upd \in [Updates -> CallsIn(site)] /\ upd[u].reply \in RepliesIn(site)
  BY CallFacts DEF CallsIn
<1>3. upd'[u].reply.id = nextId
  BY <1>1, <1>2 DEF CallsIn, RepliesIn
<1>4. nextId \in Nat
  <2>1. nextId \in 0..Cardinality(Answered) /\ Cardinality(Answered) \in Nat
    BY AnsweredAreCalls DEF IInv
  <2> QED BY <2>1
<1> QED BY <1>1, <1>3, <1>4, Replied, OneCall, CallFacts

(* The client goes on to the i-th AZ of the reply: what it has read so far *)
(* is what lies in the AZs before it, what it reads now lies in it.        *)
LEMMA PassedInTurn ==
  ASSUME IInv, NEW u \in Updates, At(u, "replied"),
         NEW i \in 1..Len(upd[u].reply.azs), upd[u].asked = i - 1
  PROVE  LET ranges == upd[u].ranges
             reply == upd[u].reply
             a == AzsOf(site, ranges)[i]
             here == PlacesOf(site, ranges, a)
             first == upd[u].next
             slice(j) == [az |-> AzOf(site, ranges[j]), range |-> ranges[j]]
         IN /\ i \in 1..Len(AzsOf(site, ranges))
            /\ reply.azs[i] = [az |-> a, count |-> Cardinality(here)]
            /\ {[az |-> a, range |-> reply.ranges[first + t]] : t \in 1..Cardinality(here)}
                 = {slice(j) : j \in here}
            /\ first + Cardinality(here) = Cardinality(Passed(u) \cup here)
            /\ {j \in DOMAIN ranges : \E m \in 1..i : AzsOf(site, ranges)[m] = AzOf(site, ranges[j])}
                 = Passed(u) \cup here
<1> DEFINE call == upd[u]
           ranges == call.ranges
           reply == call.reply
           full == ReplyFor(site, ranges)
           azs == AzsOf(site, ranges)
           n == Len(azs)
           a == azs[i]
           here == PlacesOf(site, ranges, a)
           earlier == Earlier(site, ranges, a)
           places == DOMAIN ranges
           az(j) == AzOf(site, ranges[j])
           slice(j) == [az |-> az(j), range |-> ranges[j]]
           upTo(m) == {j \in places : \E l \in 1..m : azs[l] = az(j)}
<1>1. call \in CallsIn(site) /\ CallInv(u) /\ site \in Sites
  BY CallFacts
<1>2. Reached(u, {"filled", "notices", "replied"}) /\ Reached(u, {"replied"})
  BY DEF Reached, At
<1>3. ranges \in Seq(RangesIn(site))
  BY <1>1 DEF CallsIn
<1>4. reply.azs = full.azs /\ reply.ranges = full.ranges
  BY <1>1, <1>2 DEF CallInv, ReplyFilled
<1>5. /\ n \in Nat /\ azs \in [1..n -> AzsIn(site)]
      /\ \A j \in places : az(j) \in AzsIn(site)
      /\ \A j \in places : \E l \in 1..n : azs[l] = az(j)
      /\ \A l, m \in 1..n : l < m <=> azs[l] < azs[m]
  BY <1>1, <1>3, AzsListed
<1>6. Len(full.azs) = n
  BY <1>1, <1>3, ReplyTyped
<1>7. i \in 1..n
  BY <1>4, <1>6
<1>8. /\ full.azs[i] = [az |-> a, count |-> Cardinality(here)]
      /\ \A t \in 1..Cardinality(here) : \E j \in here :
           full.ranges[Cardinality(earlier) + t] = ranges[j]
      /\ \A j \in here : \E t \in 1..Cardinality(here) :
           full.ranges[Cardinality(earlier) + t] = ranges[j]
  BY <1>1, <1>3, <1>7, ReplyInTurn
<1>9. AzsIn(site) \subseteq Nat
  BY <1>1, AzsAreNumbers DEF AzsIn
<1>10. a \in Nat
  BY <1>5, <1>7, <1>9
<1>11. Passed(u) = upTo(i - 1)
  BY DEF Passed
<1>12. here = {j \in places : az(j) = a} /\ earlier = {j \in places : az(j) < a}
  BY DEF PlacesOf, Earlier
<1>13. call.next = Cardinality(Passed(u))
  BY <1>1, <1>2 DEF CallInv, SlicedInTurn
<1>14. Cardinality(earlier \cup here) = Cardinality(earlier) + Cardinality(here)
  BY <1>1, <1>3, <1>10, EarlierAndHere
<1>15. reply.azs[i] = [az |-> a, count |-> Cardinality(here)]
  BY <1>4, <1>8
<1>16. \A j \in here : slice(j) = [az |-> a, range |-> ranges[j]]
  BY <1>12
<1> HIDE DEF ranges, full, azs, n, a, here, earlier, places, az, reply
<1>17. upTo(i - 1) = earlier
  <2>1. ASSUME NEW j \in upTo(i - 1) PROVE j \in earlier
    <3>1. PICK l \in 1..(i - 1) : azs[l] = az(j)
      OBVIOUS
    <3>2. l \in 1..n /\ l < i
      BY <1>5, <1>7
    <3>3. azs[l] < azs[i]
      BY <1>5, <1>7, <3>2
    <3> QED BY <1>12, <3>1, <3>3 DEF a
  <2>2. ASSUME NEW j \in earlier PROVE j \in upTo(i - 1)
    <3>1. j \in places /\ az(j) < a
      BY <1>12
    <3>2. PICK l \in 1..n : azs[l] = az(j)
      BY <1>5, <3>1
    <3>3. l < i
      BY <1>5, <1>7, <3>1, <3>2 DEF a
    <3>4. l \in 1..(i - 1)
      BY <1>7, <3>3
    <3> QED BY <3>1, <3>2, <3>4
  <2> QED BY <2>1, <2>2
<1>18. upTo(i) = upTo(i - 1) \cup here
  <2>1. \A l : l \in 1..i <=> l \in 1..(i - 1) \/ l = i
    BY <1>5, <1>7
  <2>2. \A j \in places : (\E l \in 1..i : azs[l] = az(j))
                            <=> (\E l \in 1..(i - 1) : azs[l] = az(j)) \/ az(j) = a
    BY <2>1 DEF a
  <2> QED BY <1>12, <2>2
<1>19. call.next = Cardinality(earlier) /\ Passed(u) = earlier
  BY <1>11, <1>13, <1>17
<1>20. {[az |-> a, range |-> reply.ranges[call.next + t]] : t \in 1..Cardinality(here)}
          = {slice(j) : j \in here}
  <2> DEFINE c == Cardinality(here)
             first == call.next
             list == reply.ranges
  <2>1. /\ \A t \in 1..c : \E j \in here : list[first + t] = ranges[j]
        /\ \A j \in here : \E t \in 1..c : list[first + t] = ranges[j]
    BY <1>4, <1>8, <1>19
  <2> HIDE DEF c, first, list, slice
  <2>2. {[az |-> a, range |-> list[first + t]] : t \in 1..c} = {slice(j) : j \in here}
    <3>1. ASSUME NEW t \in 1..c PROVE [az |-> a, range |-> list[first + t]] \in {slice(j) : j \in here}
      BY <1>16, <2>1
    <3>2. ASSUME NEW j \in here
          PROVE  slice(j) \in {[az |-> a, range |-> list[first + t]] : t \in 1..c}
      BY <1>16, <2>1
    <3> QED BY <3>1, <3>2
  <2> QED BY <2>2 DEF c, first, list
<1>21. {j \in places : \E m \in 1..i : azs[m] = az(j)} = Passed(u) \cup here
  BY <1>17, <1>18, <1>19
<1>22. call.next + Cardinality(here) = Cardinality(Passed(u) \cup here)
  BY <1>14, <1>19
<1>23. i \in 1..Len(azs)
  BY <1>7 DEF n
<1> HIDE DEF slice
<1> QED BY <1>15, <1>20, <1>21, <1>22, <1>23
        DEF ranges, azs, a, here, places, az, reply, slice

LEMMA ConnectProxyStep ==
  ASSUME IInv, NEW u \in Updates, ConnectProxy(u)
  PROVE  IInv'
<1> DEFINE call == upd[u]
           reply == call.reply
           i == call.asked + 1
           ranges == call.ranges
           azs == AzsOf(site, ranges)
           a == azs[i]
           here == PlacesOf(site, ranges, a)
           count == Cardinality(here)
           slice(j) == [az |-> AzOf(site, ranges[j]), range |-> ranges[j]]
           slices == {slice(j) : j \in Passed(u) \cup here}
<1>1. /\ At(u, "replied") /\ i <= Len(reply.azs)
      /\ upd' = [upd EXCEPT ![u].asked = i, ![u].next = call.next + reply.azs[i].count,
           ![u].slices = @ \cup {[az |-> reply.azs[i].az, range |-> reply.ranges[call.next + t]] :
                                  t \in 1..reply.azs[i].count}]
      /\ site' = site /\ up' = up /\ azTable' = azTable /\ nextId' = nextId
  BY DEF ConnectProxy, RunsOn
<1>frame. /\ call.pc = "replied" /\ i <= Len(reply.azs)
      /\ site' = site /\ up' = up /\ azTable' = azTable /\ nextId' = nextId
  BY <1>1 DEF At
<1>2. call \in CallsIn(site) /\ CallInv(u) /\ upd \in [Updates -> CallsIn(site)]
      /\ site \in Sites
  BY CallFacts
<1>3. Reached(u, {"replied"}) /\ \A pcs : "replied" \in pcs => Reached(u, pcs)
  BY <1>1 DEF Reached, At
<1>4. i \in 1..Len(reply.azs) /\ call.asked = i - 1 /\ i \in Nat
  <2> DEFINE T == [az : AzsIn(site), count : Nat]
  <2>1. reply.azs \in Seq(T) /\ call.asked \in Nat
    BY <1>2 DEF CallsIn, RepliesIn
  <2> HIDE DEF T
  <2>2. Len(reply.azs) \in Nat
    BY <2>1
  <2> QED BY <1>1, <2>1, <2>2
<1> HIDE DEF i
<1>5. /\ i \in 1..Len(azs)
      /\ reply.azs[i] = [az |-> a, count |-> count]
      /\ {[az |-> a, range |-> reply.ranges[call.next + t]] : t \in 1..count}
           = {slice(j) : j \in here}
      /\ call.next + count = Cardinality(Passed(u) \cup here)
      /\ {j \in DOMAIN ranges : \E m \in 1..i : azs[m] = AzOf(site, ranges[j])}
           = Passed(u) \cup here
  BY <1>1, <1>4, PassedInTurn
<1>6. /\ ranges \in Seq(RangesIn(site))
      /\ call.slices = {slice(j) : j \in Passed(u)}
  BY <1>2, <1>3 DEF CallsIn, CallInv, SlicedInTurn
<1>7. call.slices \cup {slice(j) : j \in here} = slices
  <2> HIDE DEF slice, here
  <2> QED BY <1>6 DEF slices
<1>8. reply.azs[i].az = a /\ reply.azs[i].count = count
  BY <1>5
<1>9. upd' = [upd EXCEPT ![u].asked = i, ![u].next = call.next + count, ![u].slices = slices]
  <2>1. call.slices \cup {[az |-> a, range |-> reply.ranges[call.next + t]] : t \in 1..count}
          = slices
    BY <1>5, <1>7
  <2> HIDE DEF slices, a, count
  <2>2. upd' = [upd EXCEPT ![u].asked = i, ![u].next = call.next + count,
           ![u].slices = upd[u].slices \cup {[az |-> a, range |-> reply.ranges[call.next + t]] :
                                             t \in 1..count}]
    BY <1>1, <1>2, <1>8 DEF CallsIn
  <2> QED BY <2>1, <2>2
<1>10. count \in Nat /\ call.next \in Nat
  <2>1. a \in Nat
    <3>1. azs \in [1..Len(azs) -> AzsIn(site)] /\ AzsIn(site) \subseteq Nat
      BY <1>2, <1>6, AzsListed, AzsAreNumbers DEF AzsIn
    <3> QED BY <1>5, <3>1
  <2>2. count \in Nat
    BY <1>2, <1>6, <2>1, EarlierAndHere
  <2> QED BY <1>2, <2>2 DEF CallsIn
<1>11. slices \in SUBSET [az : AzsIn(site), range : RangesIn(site)]
  <2>1. Passed(u) \cup here \subseteq DOMAIN ranges
    BY DEF Passed, PlacesOf
  <2>2. \A j \in DOMAIN ranges : slice(j) \in [az : AzsIn(site), range : RangesIn(site)]
    <3>1. \A j \in DOMAIN ranges : AzOf(site, ranges[j]) \in AzsIn(site)
                                   /\ ranges[j] \in RangesIn(site)
      BY <1>2, <1>6, AzsListed
    <3> QED BY <3>1
  <2> HIDE DEF slice, here
  <2> QED BY <2>1, <2>2 DEF slices
<1> HIDE DEF slices, count
<1>12. upd'[u] = [call EXCEPT !.asked = i, !.next = call.next + count, !.slices = slices]
  BY <1>2, <1>9
<1>13. upd'[u] \in CallsIn(site)
  <2>1. i \in Nat /\ call.next + count \in Nat /\ call \in CallsIn(site)
    BY <1>2, <1>4, <1>10
  <2> DEFINE next == call.next + count
             Slices == SUBSET [az : AzsIn(site), range : RangesIn(site)]
  <2>2. slices \in Slices
    BY <1>11
  <2>3. upd'[u] = [call EXCEPT !.asked = i, !.next = next, !.slices = slices] /\ next \in Nat
    BY <1>12, <2>1
  <2> HIDE DEF next, call
  <2>4. [call EXCEPT !.asked = i, !.next = next, !.slices = slices] \in CallsIn(site)
    BY <2>1, <2>2, <2>3 DEF CallsIn
  <2> QED BY <2>3, <2>4
<1>14. upd' \in [Updates -> CallsIn(site)] /\ \A v \in Updates \ {u} : upd'[v] = upd[v]
  <2>1. \A v \in Updates \ {u} : upd'[v] = upd[v]
    BY <1>2, <1>9
  <2>2. upd' = [upd EXCEPT ![u] = upd'[u]]
    BY <1>2, <1>9
  <2>3. upd' \in [Updates -> CallsIn(site)]
    BY <1>2, <1>13, <2>2
  <2> QED BY <2>1, <2>3
<1>15. /\ upd'[u].pc = call.pc /\ upd'[u].reply = reply
       /\ upd'[u].ranges = ranges /\ upd'[u].split = call.split
       /\ upd'[u].key = call.key /\ upd'[u].offset = call.offset
       /\ upd'[u].length = call.length /\ upd'[u].request = call.request
       /\ upd'[u].asked = i /\ upd'[u].next = call.next + count /\ upd'[u].slices = slices
  BY <1>2, <1>12 DEF CallsIn
<1>16. /\ ~At(u, "none") /\ ~At(u, "none")' /\ ~At(u, "notices")' /\ ~At(u, "returned")'
       /\ At(u, "replied")' /\ (Missing(u)' <=> Missing(u))
  BY <1>frame, <1>15 DEF At, Missing
<1>17. RequestMade(u)'
  BY <1>frame, <1>2, <1>15, <1>16 DEF RequestMade, CallInv
<1>18. SplitMade(u)'
  BY <1>frame, <1>2, <1>3, <1>15, <1>16 DEF SplitMade, CallInv
<1>19. RangesTaken(u)' /\ ReplyFilled(u)' /\ NoticesMade(u)'
  <2>1. RangesTaken(u)'
    BY <1>frame, <1>2, <1>3, <1>15, <1>16 DEF RangesTaken, CallInv
  <2>2. ReplyFilled(u)'
    BY <1>frame, <1>2, <1>3, <1>15, <1>16 DEF ReplyFilled, CallInv
  <2>3. NoticesMade(u)'
    BY <1>frame, <1>2, <1>3, <1>15, <1>16 DEF NoticesMade, CallInv
  <2> QED BY <2>1, <2>2, <2>3
<1>20. SlicedInTurn(u)'
  <2>1. Passed(u)' = Passed(u) \cup here
    <3> HIDE DEF call
    <3>1. site' = site /\ upd'[u].ranges = ranges /\ upd'[u].asked = i
      BY <1>frame, <1>15
    <3>2. Passed(u)' = {j \in DOMAIN ranges : \E m \in 1..i : azs[m] = AzOf(site, ranges[j])}
      BY <3>1 DEF Passed
    <3> QED BY <1>5, <3>2
  <2>2. /\ upd'[u].pc = "replied" /\ upd'[u].asked <= Len(upd'[u].reply.azs)
        /\ upd'[u].next = Cardinality(Passed(u)')
    BY <1>frame, <1>5, <1>15, <2>1 DEF At, count, i
  <2>3. upd'[u].slices = {[az |-> AzOf(site, ranges[j]), range |-> ranges[j]] :
                           j \in Passed(u)'}
    BY <1>15, <2>1 DEF slices
  <2>4. site' = site /\ upd'[u].ranges = ranges
    BY <1>frame, <1>15
  <2> HIDE DEF call
  <2> QED BY <1>16, <2>2, <2>3, <2>4 DEF SlicedInTurn
<1>21. CallInv(u)'
  BY <1>17, <1>18, <1>19, <1>20 DEF CallInv
<1>22. u \in Answered'
  BY <1>16 DEF Answered, At
<1>23. upd'[u].request = upd[u].request
  BY <1>15
<1> HIDE DEF call
<1> QED BY <1>frame, <1>14, <1>16, <1>21, <1>22, <1>23, OneCall, CallFacts, SMTT(30)

LEMMA ReturnStep ==
  ASSUME IInv, NEW u \in Updates, Return(u)
  PROVE  IInv'
<1> DEFINE call == upd[u]
<1>1. /\ \/ At(u, "replied") /\ call.asked = Len(call.reply.azs)
         \/ ~up /\ call.pc \in {"asked", "split", "taken", "filled", "notices"}
      /\ upd' = [upd EXCEPT ![u].pc = "returned"]
      /\ site' = site /\ up' = up /\ azTable' = azTable /\ nextId' = nextId
  BY DEF Return
<1>2. call \in CallsIn(site) /\ CallInv(u) /\ upd \in [Updates -> CallsIn(site)]
  BY CallFacts
<1>3. upd'[u] = [call EXCEPT !.pc = "returned"]
  BY <1>1, <1>2
<1>4. upd'[u] \in CallsIn(site)
  BY <1>2, <1>3 DEF CallsIn, Pcs
<1>5. upd' \in [Updates -> CallsIn(site)] /\ \A v \in Updates \ {u} : upd'[v] = upd[v]
  BY <1>1, <1>2, <1>4
<1>6. /\ upd'[u].pc = "returned" /\ upd'[u].reply = call.reply
      /\ upd'[u].ranges = call.ranges /\ upd'[u].split = call.split
      /\ upd'[u].key = call.key /\ upd'[u].offset = call.offset
      /\ upd'[u].length = call.length /\ upd'[u].request = call.request
      /\ upd'[u].asked = call.asked /\ upd'[u].next = call.next /\ upd'[u].slices = call.slices
  BY <1>2, <1>3 DEF CallsIn
<1>7. /\ ~At(u, "none") /\ ~At(u, "none")' /\ ~At(u, "notices")'
      /\ (Missing(u)' <=> Missing(u)) /\ (Passed(u)' = Passed(u))
  BY <1>1, <1>6 DEF At, Missing, Passed
<1>8. \A pcs : "returned" \notin pcs /\ "replied" \in pcs /\ Reached(u, pcs)' => Reached(u, pcs)
  BY <1>1, <1>6 DEF At, Reached
<1>9. RequestMade(u)'
  BY <1>1, <1>2, <1>6, <1>7 DEF RequestMade, CallInv
<1>10. SplitMade(u)'
  BY <1>1, <1>2, <1>6, <1>7, <1>8 DEF SplitMade, CallInv
<1>11. RangesTaken(u)'
  BY <1>2, <1>6, <1>8 DEF RangesTaken, CallInv
<1>12. ReplyFilled(u)' /\ NoticesMade(u)'
  BY <1>1, <1>2, <1>6, <1>7, <1>8 DEF ReplyFilled, NoticesMade, CallInv
<1>13. SlicedInTurn(u)'
  <2>1. SlicedInTurn(u)
    BY <1>2 DEF CallInv
  <2>2. At(u, "returned")' /\ up' => call.asked = Len(call.reply.azs)
    BY <1>1
  <2>3. Reached(u, {"replied"})' => Reached(u, {"replied"})
    BY <1>8
  <2> QED BY <1>1, <1>6, <1>7, <2>1, <2>2, <2>3 DEF SlicedInTurn
<1>14. CallInv(u)'
  BY <1>9, <1>10, <1>11, <1>12, <1>13 DEF CallInv
<1>15. u \in Answered'
  BY <1>6 DEF Answered
<1> QED BY <1>1, <1>5, <1>6, <1>7, <1>14, <1>15, OneCall, CallFacts

LEMMA SplitMissingStep ==
  ASSUME IInv, NEW u \in Updates, SplitMissing(u)
  PROVE  IInv'
<1>1. /\ At(u, "asked") /\ Missing(u) /\ up' = FALSE
      /\ site' = site /\ azTable' = azTable /\ nextId' = nextId /\ upd' = upd
  BY DEF SplitMissing
<1>2. \A v \in Updates : CallInv(v)'
  BY <1>1, Unaffected DEF IInv
<1>3. LeavesTables'
  <2>1. ~At(u, "none")' /\ Missing(u)'
    BY <1>1 DEF At, Missing
  <2>2. AzIds' = AzIds /\ Sch' = Sch
    BY <1>1 DEF AzIds, Sch
  <2> QED BY <1>1, <2>1, <2>2 DEF LeavesTables, IInv
<1>4. Answered' = Answered
  BY <1>1 DEF Answered
<1> QED BY <1>1, <1>2, <1>3, <1>4 DEF IInv

LEMMA Inductive == IInv /\ [Next]_vars => IInv'
<1> SUFFICES ASSUME IInv, [Next]_vars PROVE IInv'
  OBVIOUS
<1>1. CASE UNCHANGED vars
  <2>1. /\ site' = site /\ up' = up /\ azTable' = azTable /\ nextId' = nextId /\ upd' = upd
    BY <1>1 DEF vars
  <2>2. \A v \in Updates : CallInv(v)'
    BY <2>1, Unaffected DEF IInv
  <2>3. LeavesTables' /\ Answered' = Answered
    BY <2>1 DEF LeavesTables, Answered, At, Missing, AzIds, Sch, IInv
  <2> QED BY <2>1, <2>2, <2>3 DEF IInv
<1>2. ASSUME NEW u \in Updates, NEW key \in DOMAIN site.objects,
             NEW offset \in 0..(site.objects[key].size - 1),
             NEW length \in 1..(site.objects[key].size + Excess - offset),
             Call(u, key, offset, length) \/ CallFilled(u, key, offset, length)
      PROVE  IInv'
  <2>1. length \in Nat \ {0}
    <3>1. site.objects[key].size \in Nat /\ Excess \in Nat
      BY SitesAssumption, BoundAssumption DEF IInv, IsObject
    <3> QED BY <3>1
  <2> QED BY <1>2, <2>1, AskStep
<1>3. ASSUME NEW u \in Updates, Go(u) PROVE IInv'
  BY <1>3, SplitStep, SplitMissingStep, TakeFirstStep, FillReplyStep, MakeNoticesStep,
     NoticesThrowStep, NumberStep, ConnectProxyStep, ReturnStep DEF Go
<1> QED BY <1>1, <1>2, <1>3 DEF Next

LEMMA Invariance == Spec => []IInv
<1>1. Init => IInv
  BY Initially
<1>2. IInv /\ [Next]_vars => IInv'
  BY Inductive
<1> QED BY <1>1, <1>2, PTL DEF Spec

-----------------------------------------------------------------------------
(* What follows from the invariant                                         *)

(* Every variable has its type.                                            *)
THEOREM TypeCorrect == Spec => []TypeOK
<1>1. IInv => TypeOK
  <2> SUFFICES ASSUME IInv PROVE TypeOK
    OBVIOUS
  <2>1. site \in Sites /\ up \in BOOLEAN /\ azTable \subseteq AzIds \cup {-1}
    BY DEF IInv, AzsIn, AzIds
  <2>2. nextId \in 0..site.calls
    <3>1. /\ nextId \in 0..Cardinality(Answered) /\ Cardinality(Answered) \in Nat
          /\ Cardinality(Answered) <= site.calls /\ site.calls \in Nat
      BY AnsweredAreCalls DEF IInv
    <3> QED BY <3>1
  <2>3. \A r \in RangesIn(site) : IsRange(r)
    BY DEF RangesIn, IsRange, Sch
  <2>4. ASSUME NEW u \in Updates
        PROVE  /\ upd[u].pc \in Pcs
               /\ \A i \in DOMAIN upd[u].split : IsRange(upd[u].split[i])
               /\ \A m \in upd[u].slices :
                    m.az \in AzIds /\ IsRange(m.range)
    <3>1. /\ upd[u].pc \in Pcs /\ upd[u].split \in Seq(RangesIn(site))
          /\ upd[u].slices \in SUBSET [az : AzsIn(site), range : RangesIn(site)]
      BY CallFacts DEF CallsIn
    <3>2. \A i \in DOMAIN upd[u].split : upd[u].split[i] \in RangesIn(site)
      BY <3>1
    <3>3. \A m \in upd[u].slices : m.az \in AzIds /\ m.range \in RangesIn(site)
      BY <3>1 DEF AzsIn, AzIds
    <3> QED BY <2>3, <3>1, <3>2, <3>3
  <2> QED BY <2>1, <2>2, <2>4 DEF TypeOK, Pcs
<1> QED BY <1>1, Invariance, PTL

(* What a call has been split into is exact if the update is regular.      *)
LEMMA CallExact ==
  ASSUME IInv, NEW u \in Updates, Regular(u),
         Reached(u, {"split", "taken", "filled", "notices", "replied"})
  PROVE  IsExact(upd[u].split, Updated(u))
<1>1. ~At(u, "none")
  BY DEF Reached, At
<1>2. upd[u].split = SplitOf(site, site.objects[upd[u].key], upd[u].offset, upd[u].length)
  BY CallFacts DEF CallInv, SplitMade
<1> QED BY <1>1, <1>2, CallFacts, CallObject, SplitCovers DEF Regular, Updated

(* split_update_length: the ranges of an update of bytes the object has    *)
(* cover these bytes, each once, and no others.                            *)
THEOREM SplitIsExact == Spec => []SplitExact
<1>1. IInv => SplitExact
  <2> SUFFICES ASSUME IInv, NEW u \in Updates, At(u, "split"), Regular(u)
               PROVE  IsExact(upd[u].split, Updated(u))
    BY DEF SplitExact
  <2>1. Reached(u, {"split", "taken", "filled", "notices", "replied"})
    BY DEF Reached, At
  <2> QED BY <2>1, CallExact
<1> QED BY <1>1, Invariance, PTL

(* When Client::update has gone through its reply, each byte of the first  *)
(* stripe is in one of the slices it has read, that of the AZ its block    *)
(* lies in.                                                                *)
THEOREM Sliced == Spec => []SlicesMatchAzs
<1>1. IInv => SlicesMatchAzs
  <2> SUFFICES ASSUME IInv, NEW u \in Updates, At(u, "returned"), up, Regular(u),
                      NEW b \in Updated(u), b.stripe = FirstStripe(upd[u].split)
               PROVE  /\ Cardinality({m \in upd[u].slices : b \in BytesOf(m.range)}) = 1
                      /\ \A m \in upd[u].slices :
                           b \in BytesOf(m.range) => m.az = site.at[b.stripe][b.block][1]
    BY DEF SlicesMatchAzs
  <2> DEFINE split == upd[u].split
             ranges == upd[u].ranges
             azs == AzsOf(site, ranges)
             slice(r) == [az |-> AzOf(site, r), range |-> r]
             slices == upd[u].slices
  <2>1. \A pcs : Reached(u, pcs)
    BY DEF Reached
  <2>2. IsExact(split, Updated(u))
    BY <2>1, CallExact
  <2>3. site \in Sites /\ split \in Seq(RangesIn(site)) /\ split # <<>>
    BY <2>1, CallSplit, CallFacts
  <2>4. ranges = InFirst(split)
    BY <2>1, CallFacts DEF CallInv, RangesTaken
  <2>5. /\ ranges \in Seq(RangesIn(site))
        /\ \A m \in DOMAIN ranges : \E i \in DOMAIN split : ranges[m] = split[i]
        /\ \A i \in DOMAIN split :
             split[i].stripe = b.stripe => \E m \in DOMAIN ranges : ranges[m] = split[i]
    BY <2>3, <2>4, RangesOfFirst
  <2>6. Passed(u) = DOMAIN ranges
    <3>1. upd[u].asked = Len(upd[u].reply.azs)
      BY CallFacts DEF CallInv, SlicedInTurn
    <3>2. upd[u].reply.azs = ReplyFor(site, ranges).azs
      BY <2>1, CallFacts DEF CallInv, ReplyFilled
    <3>3. upd[u].asked = Len(azs)
      BY <2>3, <2>5, <3>1, <3>2, ReplyTyped
    <3>4. \A j \in DOMAIN ranges : \E i \in 1..upd[u].asked : azs[i] = AzOf(site, ranges[j])
      <4>1. \A j \in DOMAIN ranges : \E i \in 1..Len(azs) : azs[i] = AzOf(site, ranges[j])
        <5>1. ranges \in Seq(RangesIn(site)) /\ site \in Sites
          BY <2>3, <2>5
        <5> HIDE DEF ranges
        <5> QED BY <5>1, AzsListed
      <4> QED BY <3>3, <4>1
    <3> QED BY <3>4 DEF Passed
  <2>7. slices = {slice(ranges[j]) : j \in DOMAIN ranges}
    BY <2>1, <2>6, CallFacts DEF CallInv, SlicedInTurn
  <2>8. \A r : b \in BytesOf(r) => r.stripe = b.stripe /\ r.block = b.block
    BY DEF BytesOf
  <2>9. PICK i \in DOMAIN split : b \in BytesOf(split[i])
    BY <2>2 DEF IsExact
  <2>10. \A j \in DOMAIN split : b \in BytesOf(split[j]) => j = i
    BY <2>2, <2>9 DEF IsExact
  <2> HIDE DEF split, ranges, slices
  <2>11. PICK n \in DOMAIN ranges : ranges[n] = split[i]
    BY <2>5, <2>8, <2>9
  <2>12. \A m \in slices : b \in BytesOf(m.range) => m = slice(split[i])
    <3> SUFFICES ASSUME NEW j \in DOMAIN ranges, b \in BytesOf(ranges[j])
                 PROVE  ranges[j] = split[i]
      BY <2>7
    <3>1. PICK k \in DOMAIN split : ranges[j] = split[k]
      BY <2>5
    <3> QED BY <2>10, <3>1
  <2>13. slice(split[i]) \in slices
    BY <2>7, <2>11
  <2>14. {m \in slices : b \in BytesOf(m.range)} = {slice(split[i])}
    BY <2>9, <2>12, <2>13
  <2>15. Cardinality({m \in slices : b \in BytesOf(m.range)}) = 1
    BY <2>14, FS_Singleton
  <2>16. AzOf(site, split[i]) = site.at[b.stripe][b.block][1]
    BY <2>8, <2>9 DEF AzOf
  <2> QED BY <2>12, <2>15, <2>16 DEF slices
<1> QED BY <1>1, Invariance, PTL

(* updateGetLocation names the parities of the blocks updated: a local one *)
(* in the notice of its AZ, the global ones in that of the collector.      *)
THEOREM Named == Spec => []ParitiesNamed
<1>1. IInv => ParitiesNamed
  <2> SUFFICES ASSUME IInv, NEW u \in Updates, At(u, "notices"), Sch.code # "RS"
               PROVE  LET ranges == upd[u].ranges
                          s == FirstStripe(upd[u].split)
                          data == upd[u].notices.data
                          blocks == {ranges[i].block : i \in DOMAIN ranges}
                          named == UNION {data[i].parities : i \in DOMAIN data}
                      IN /\ \A i \in 0..(Sch.l - 1) :
                              Together(s, i) /\ DataOf(Sch, i) \cap blocks # {}
                                => LocalOf(Sch, i) \in named
                         /\ Sch.code = "Azure_LRC_1" /\ OneAz(s, Globals(Sch))
                              => Globals(Sch) \subseteq upd[u].notices.parities
    BY DEF ParitiesNamed
  <2> DEFINE ranges == upd[u].ranges
             s == FirstStripe(upd[u].split)
             notices == upd[u].notices
             az(x) == site.at[s][x][1]
  <2>1. /\ Reached(u, {"split", "taken", "filled", "notices", "replied"})
        /\ Reached(u, {"taken", "filled", "notices", "replied"})
    BY DEF Reached, At
  <2>2. /\ site \in Sites /\ s \in DOMAIN site.at
        /\ upd[u].split \in Seq(RangesIn(site)) /\ upd[u].split # <<>>
    BY <2>1, CallSplit, CallFacts
  <2>3. ranges = InFirst(upd[u].split)
    BY <2>1, CallFacts DEF CallInv, RangesTaken
  <2>4. ranges \in Seq(RangesIn(site)) /\ \A m \in DOMAIN ranges : ranges[m].stripe = s
    BY <2>2, <2>3, RangesOfFirst
  <2>5. PICK c \in Collectors(site, s, ranges) : notices = NoticesFor(site, s, ranges, c)
    BY CallFacts DEF CallInv, NoticesMade
  <2>6. /\ \A m \in DOMAIN ranges : \A i \in 0..(Sch.l - 1) :
             az(LocalOf(Sch, i)) = az(ranges[m].block)
               => \E n \in DOMAIN notices.data : LocalOf(Sch, i) \in notices.data[n].parities
        /\ Sch.code = "Azure_LRC_1" /\ (\A x, y \in Globals(Sch) : az(x) = az(y))
             => Globals(Sch) \subseteq notices.parities
    <3> HIDE DEF ranges, s, notices
    <3> DEFINE made == NoticesFor(site, s, ranges, c)
    <3>1. /\ \A m \in DOMAIN ranges : \A i \in 0..(site.sch.l - 1) :
               az(LocalOf(site.sch, i)) = az(ranges[m].block)
                 => \E n \in DOMAIN made.data : LocalOf(site.sch, i) \in made.data[n].parities
          /\ site.sch.code = "Azure_LRC_1"
               /\ (\A x, y \in Globals(site.sch) : az(x) = az(y))
               => Globals(site.sch) \subseteq made.parities
      <4>1. site.sch.code # "RS"
        BY DEF Sch
      <4> QED BY <2>2, <2>4, <4>1, NamedParities
    <3>2. notices = made
      BY <2>5
    <3> HIDE DEF made
    <3> QED BY <3>1, <3>2 DEF Sch
  <2> HIDE DEF ranges, s, notices
  <2>7. ASSUME NEW i \in 0..(Sch.l - 1), Together(s, i),
               NEW m \in DOMAIN ranges, ranges[m].block \in DataOf(Sch, i)
        PROVE  LocalOf(Sch, i) \in UNION {notices.data[n].parities : n \in DOMAIN notices.data}
    <3>1. az(LocalOf(Sch, i)) = az(ranges[m].block)
      BY <2>7 DEF Together, OneAz
    <3>2. PICK n \in DOMAIN notices.data : LocalOf(Sch, i) \in notices.data[n].parities
      BY <2>6, <3>1
    <3> QED BY <3>2
  <2>8. Sch.code = "Azure_LRC_1" /\ OneAz(s, Globals(Sch)) => Globals(Sch) \subseteq notices.parities
    BY <2>6 DEF OneAz
  <2> QED BY <2>7, <2>8 DEF ranges, s, notices
<1> QED BY <1>1, Invariance, PTL

(* The coordinator stops only of a key it does not have, and updates leave *)
(* m_AZ_info as it was where there are local groups.                       *)
THEOREM TablesLeft == Spec => []LeavesTables
<1>1. IInv => LeavesTables
  BY DEF IInv
<1> QED BY <1>1, Invariance, PTL
=============================================================================
