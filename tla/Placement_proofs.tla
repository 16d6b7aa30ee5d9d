-------------------------- MODULE Placement_proofs --------------------------
(* Proofs about Placement for every scheme and every sequence of calls in   *)
(* every deployment.                                                        *)
EXTENDS Placement, StripeFacts

-----------------------------------------------------------------------------
(* Random draws (Drawn), and the rounds of the other branches.             *)
Drawn(sch) == sch.code \in {"RS", "Azure_LRC_1"} /\ sch.place = "Random"
Rounded(sch) == \/ sch.code = "Azure_LRC_1" /\ sch.place = "Best_Placement"
                \/ sch.code = "OPPO_LRC"

(* There is an AZ for each turn of a call, with a datanode for each block. *)
Wide ==
  \A d \in Deployments : \A c \in 1..Len(d.calls) :
    Rounded(d.calls[c]) =>
      \A x \in Blocks(d.calls[c]) :
        /\ TurnOf(d.calls[c], x) \in 0..(d.azs - 1)
        /\ Cardinality(BlocksAt(d.calls[c], TurnOf(d.calls[c], x))) <= d.nodes

(* The call being made has placed the first blocks (Random), or those of   *)
(* the turns it has made.                                                  *)
PlacedSoFar ==
  /\ DOMAIN nodes = 1..Len(site.calls)
  /\ \A c \in 1..Len(site.calls) : c > call => Placed(c) = {}
  /\ call <= Len(site.calls) /\ Drawn(Scheme)
       => \E m \in 0..Size(Scheme) : Placed(call) = 0..(m - 1)
  /\ call <= Len(site.calls) /\ Rounded(Scheme)
       => \A x \in Placed(call) : TurnOf(Scheme, x) \in 0..(turn - 1)

(* The round of the AZs began this call at some AZ, and has not met it     *)
(* again.                                                                  *)
RoundFrom(start) ==
  /\ curAz = (start + turn) % site.azs
  /\ \A x \in Placed(call) :
       nodes[call][x][1] = (start + TurnOf(Scheme, x)) % site.azs

RoundInv ==
  call <= Len(site.calls) /\ Rounded(Scheme)
    => /\ turn <= site.azs
       /\ \E start \in AZs : RoundFrom(start)

Shape == TypeOK /\ PlacedSoFar
Inv == Shape /\ RoundInv /\ DistinctNodes

-----------------------------------------------------------------------------
LEMMA SiteFacts ==
  ASSUME site \in Deployments
  PROVE  /\ site.azs \in Nat \ {0} /\ site.nodes \in Nat \ {0}
         /\ Len(site.calls) \in Nat
         /\ \A c \in 1..Len(site.calls) : IsScheme(site.calls[c])
BY DeploymentAssumption

LEMMA SizeIsNat ==
  ASSUME NEW sch, IsScheme(sch)
  PROVE  Size(sch) \in Nat
BY DEF IsScheme, Size

LEMMA BlocksFinite ==
  ASSUME NEW sch, IsScheme(sch)
  PROVE  IsFiniteSet(Blocks(sch)) /\ Blocks(sch) \subseteq Nat
BY SizeIsNat, FS_Interval DEF Blocks

LEMMA Remainder ==
  ASSUME NEW n \in Nat \ {0}, NEW a \in 0..(2 * n - 1)
  PROVE  a % n = IF a < n THEN a ELSE a - n
OBVIOUS

LEMMA RemainderType ==
  ASSUME NEW n \in Nat \ {0}, NEW a \in Int
  PROVE  a % n \in 0..(n - 1)
OBVIOUS

(* Going round n places, two offsets below n end at different places.      *)
LEMMA OffsetsDiffer ==
  ASSUME NEW n \in Nat \ {0}, NEW s \in 0..(n - 1),
         NEW i \in 0..(n - 1), NEW j \in 0..(n - 1), i # j
  PROVE  (s + i) % n # (s + j) % n
<1> DEFINE a == s + i
           b == s + j
<1>1. a \in 0..(2 * n - 1) /\ b \in 0..(2 * n - 1) /\ a # b /\ a - b \in (1 - n)..(n - 1)
  OBVIOUS
<1> HIDE DEF a, b
<1>2. a % n = IF a < n THEN a ELSE a - n
  BY <1>1, Remainder
<1>3. b % n = IF b < n THEN b ELSE b - n
  BY <1>1, Remainder
<1>4. a % n # b % n
  BY <1>1, <1>2, <1>3
<1> QED BY <1>4 DEF a, b

LEMMA NextPlace ==
  ASSUME NEW n \in Nat \ {0}, NEW a \in 0..(2 * n - 2)
  PROVE  ((a % n) + 1) % n = (a + 1) % n
<1> DEFINE here == a % n
           next == here + 1
           b == a + 1
<1>0. a \in 0..(2 * n - 1)
  OBVIOUS
<1>1. here = IF a < n THEN a ELSE a - n
  BY <1>0, Remainder
<1> HIDE DEF here
<1>2. next \in 0..(2 * n - 1) /\ b \in 0..(2 * n - 1)
      /\ (next = b \/ (next = b - n /\ b > n))
  BY <1>0, <1>1
<1> HIDE DEF next, b
<1>3. next % n = IF next < n THEN next ELSE next - n
  BY <1>2, Remainder
<1>4. b % n = IF b < n THEN b ELSE b - n
  BY <1>2, Remainder
<1>5. next % n = b % n
  BY <1>2, <1>3, <1>4
<1> QED BY <1>5 DEF here, next, b

(* The blocks of a turn take one datanode after the other.                 *)
LEMMA RankDiffers ==
  ASSUME NEW sch, IsScheme(sch), NEW x \in Blocks(sch), NEW y \in Blocks(sch),
         Rank(sch, x) = Rank(sch, y)
  PROVE  x = y
BY SizeIsNat DEF Rank, Blocks

LEMMA RankIsInt ==
  ASSUME NEW sch, IsScheme(sch), NEW x \in Blocks(sch)
  PROVE  Rank(sch, x) \in Int
BY SizeIsNat DEF Rank, Blocks

LEMMA EarlierCount ==
  ASSUME NEW sch, IsScheme(sch), NEW x \in Blocks(sch)
  PROVE  /\ IsFiniteSet(EarlierInTurn(sch, x))
         /\ Cardinality(EarlierInTurn(sch, x))
              \in 0..(Cardinality(BlocksAt(sch, TurnOf(sch, x))) - 1)
<1> DEFINE all == BlocksAt(sch, TurnOf(sch, x))
           some == EarlierInTurn(sch, x)
<1>1. all \in SUBSET Blocks(sch) /\ some \in SUBSET all /\ x \in all
  BY DEF BlocksAt, EarlierInTurn
<1>2. x \notin some
  BY RankIsInt DEF EarlierInTurn
<1>3. IsFiniteSet(all)
  BY <1>1, BlocksFinite, FS_Subset
<1> HIDE DEF all, some
<1>4. IsFiniteSet(some) /\ Cardinality(some) <= Cardinality(all)
      /\ (Cardinality(some) = Cardinality(all) => all = some)
  BY <1>1, <1>3, FS_Subset
<1>5. Cardinality(all) \in Nat /\ Cardinality(some) \in Nat
  BY <1>3, <1>4, FS_CardinalityType
<1> QED BY <1>1, <1>2, <1>4, <1>5 DEF all, some

LEMMA EarlierDiffers ==
  ASSUME NEW sch, IsScheme(sch), NEW x \in Blocks(sch), NEW y \in Blocks(sch),
         x # y, TurnOf(sch, x) = TurnOf(sch, y)
  PROVE  Cardinality(EarlierInTurn(sch, x)) # Cardinality(EarlierInTurn(sch, y))
<1>1. ASSUME NEW u \in Blocks(sch), NEW v \in Blocks(sch),
             TurnOf(sch, u) = TurnOf(sch, v), Rank(sch, u) < Rank(sch, v)
      PROVE  Cardinality(EarlierInTurn(sch, u)) # Cardinality(EarlierInTurn(sch, v))
  <2>1. Rank(sch, u) \in Int /\ Rank(sch, v) \in Int
        /\ \A z \in Blocks(sch) : Rank(sch, z) \in Int
    BY RankIsInt
  <2>2. u \in EarlierInTurn(sch, v) /\ u \notin EarlierInTurn(sch, u)
    BY <1>1, <2>1 DEF EarlierInTurn, BlocksAt
  <2>3. EarlierInTurn(sch, u) \in SUBSET EarlierInTurn(sch, v)
    BY <1>1, <2>1 DEF EarlierInTurn, BlocksAt
  <2>4. IsFiniteSet(EarlierInTurn(sch, v))
    BY EarlierCount
  <2> QED BY <2>2, <2>3, <2>4, FS_Subset
<1>2. Rank(sch, x) # Rank(sch, y)
  BY RankDiffers
<1>3. Rank(sch, x) \in Int /\ Rank(sch, y) \in Int
  BY RankIsInt
<1> QED BY <1>1, <1>2, <1>3

-----------------------------------------------------------------------------
LEMMA InitInv == Init => Inv
<1> SUFFICES ASSUME Init PROVE Inv
  OBVIOUS
<1>1. /\ site \in Deployments /\ site.azs \in Nat \ {0} /\ site.nodes \in Nat \ {0}
      /\ Len(site.calls) \in Nat
  BY SiteFacts DEF Init
<1>2. \A c \in 1..Len(site.calls) : Placed(c) = {}
  BY DEF Init, Placed
<1>3. TypeOK
  BY <1>1, <1>2 DEF Init, TypeOK, AZs
<1>4. PlacedSoFar
  <2>1. call <= Len(site.calls) => IsScheme(Scheme) /\ Placed(call) = {}
    BY <1>1, <1>2, SiteFacts DEF Init, Scheme
  <2>2. call <= Len(site.calls) => 0 \in 0..Size(Scheme) /\ Placed(call) = 0..(0 - 1)
    BY <2>1, SizeIsNat
  <2> QED BY <1>1, <1>2, <2>1, <2>2 DEF Init, PlacedSoFar
<1>5. RoundInv
  <2>1. call <= Len(site.calls) => Placed(call) = {}
    BY <1>1, <1>2 DEF Init
  <2>2. call <= Len(site.calls) => RoundFrom(0)
    BY <1>1, <2>1, Remainder DEF Init, RoundFrom
  <2> QED BY <1>1, <2>2 DEF Init, RoundInv, AZs
<1>6. DistinctNodes
  BY <1>2 DEF DistinctNodes
<1> QED BY <1>3, <1>4, <1>5, <1>6 DEF Inv, Shape

(* What a call that places the blocks of new leaves behind.                *)
LEMMA Added ==
  ASSUME Shape, call <= Len(site.calls), NEW new,
         nodes' = [nodes EXCEPT ![call] = With(new)], UNCHANGED <<site, call>>
  PROVE  /\ DOMAIN nodes' = 1..Len(site.calls)
         /\ \A c \in 1..Len(site.calls) : c # call => nodes'[c] = nodes[c]
         /\ DOMAIN nodes'[call] = DOMAIN nodes[call] \cup DOMAIN new
         /\ \A x \in DOMAIN nodes'[call] :
              nodes'[call][x] = IF x \in DOMAIN new THEN new[x] ELSE nodes[call][x]
<1>1. DOMAIN nodes = 1..Len(site.calls) /\ call \in DOMAIN nodes
  BY DEF Shape, PlacedSoFar, TypeOK
<1>2. nodes'[call] = With(new)
  BY <1>1
<1> QED BY <1>1, <1>2 DEF With, Placed

LEMMA CallFacts ==
  ASSUME Shape, call <= Len(site.calls)
  PROVE  /\ call \in 1..Len(site.calls)
         /\ IsScheme(Scheme) /\ Size(Scheme) \in Nat
         /\ Placed(call) \subseteq Blocks(Scheme)
         /\ \A x \in Placed(call) : nodes[call][x] \in AZs \X (0..(site.nodes - 1))
<1>1. site \in Deployments /\ call \in 1..Len(site.calls)
  BY SiteFacts DEF Shape, TypeOK
<1>2. IsScheme(Scheme)
  BY <1>1, SiteFacts DEF Scheme
<1> QED BY <1>1, <1>2, SizeIsNat DEF Shape, TypeOK, Scheme

(* A draw that is accepted: the next block m goes on the datanode n.       *)
LEMMA DrawFacts ==
  ASSUME Shape, PlaceRandom
  PROVE  /\ call \in 1..Len(site.calls) /\ IsScheme(Scheme)
         /\ Drawn(Scheme) /\ ~Rounded(Scheme)
         /\ UNCHANGED <<site, call, turn, curAz, curNode>>
         /\ \E m \in Nat, n \in Free :
              /\ ~Full(n[1])
              /\ m < Size(Scheme) /\ Placed(call) = 0..(m - 1)
              /\ DOMAIN nodes' = 1..Len(site.calls)
              /\ \A c \in 1..Len(site.calls) : c # call => nodes'[c] = nodes[c]
              /\ DOMAIN nodes'[call] = DOMAIN nodes[call] \cup {m}
              /\ nodes'[call][m] = n
              /\ \A x \in DOMAIN nodes[call] : nodes'[call][x] = nodes[call][x]
<1>1. call <= Len(site.calls) /\ Drawn(Scheme) /\ ~Rounded(Scheme)
      /\ Placed(call) # Blocks(Scheme)
  BY DEF PlaceRandom, Drawing, Making, Drawn, Rounded
<1>2. PICK m \in 0..Size(Scheme) : Placed(call) = 0..(m - 1)
  BY <1>1 DEF Shape, PlacedSoFar
<1>3. Size(Scheme) \in Nat /\ call \in 1..Len(site.calls) /\ IsScheme(Scheme)
  BY <1>1, CallFacts
<1>4. m < Size(Scheme) /\ Cardinality(Placed(call)) = m
  <2>1. Cardinality(0..(m - 1)) = m
    BY <1>3, FS_Interval
  <2> QED BY <1>1, <1>2, <1>3, <2>1 DEF Blocks
<1>5. PICK n \in Free :
        /\ ~Full(n[1])
        /\ nodes' = [nodes EXCEPT ![call] = With([x \in {Cardinality(Placed(call))} |-> n])]
  BY DEF PlaceRandom
<1>6. PICK new : new = [x \in {m} |-> n]
  OBVIOUS
<1>7. /\ nodes' = [nodes EXCEPT ![call] = With(new)]
      /\ UNCHANGED <<site, call, turn, curAz, curNode>>
  BY <1>4, <1>5, <1>6 DEF PlaceRandom
<1>8. /\ DOMAIN nodes' = 1..Len(site.calls)
      /\ \A c \in 1..Len(site.calls) : c # call => nodes'[c] = nodes[c]
      /\ DOMAIN nodes'[call] = DOMAIN nodes[call] \cup {m}
      /\ nodes'[call][m] = n
      /\ \A x \in DOMAIN nodes[call] : nodes'[call][x] = nodes[call][x]
  <2>1. DOMAIN new = {m} /\ new[m] = n
    BY <1>6
  <2>2. m \notin DOMAIN nodes[call]
    BY <1>2, <1>3 DEF Placed
  <2>3. /\ DOMAIN nodes' = 1..Len(site.calls)
        /\ \A c \in 1..Len(site.calls) : c # call => nodes'[c] = nodes[c]
        /\ DOMAIN nodes'[call] = DOMAIN nodes[call] \cup DOMAIN new
        /\ \A x \in DOMAIN nodes'[call] :
             nodes'[call][x] = IF x \in DOMAIN new THEN new[x] ELSE nodes[call][x]
    BY <1>1, <1>7, Added
  <2> QED BY <2>1, <2>2, <2>3
<1>9. m \in Nat
  BY <1>3
<1> QED BY <1>1, <1>2, <1>3, <1>4, <1>5, <1>7, <1>8, <1>9

LEMMA Drawing1 ==
  ASSUME Shape, PlaceRandom
  PROVE  Shape' /\ (RoundInv => RoundInv') /\ (DistinctNodes => DistinctNodes')
<1>1. call <= Len(site.calls) /\ Drawn(Scheme) /\ ~Rounded(Scheme)
  BY DrawFacts, SiteFacts DEF Shape, TypeOK
<1>2. PICK m \in Nat, n \in Free :
        /\ m < Size(Scheme) /\ Placed(call) = 0..(m - 1)
        /\ DOMAIN nodes' = 1..Len(site.calls)
        /\ \A c \in 1..Len(site.calls) : c # call => nodes'[c] = nodes[c]
        /\ DOMAIN nodes'[call] = DOMAIN nodes[call] \cup {m}
        /\ nodes'[call][m] = n
        /\ \A x \in DOMAIN nodes[call] : nodes'[call][x] = nodes[call][x]
  BY DrawFacts
<1>3. Size(Scheme) \in Nat /\ call \in 1..Len(site.calls)
  BY <1>1, CallFacts
<1>4. UNCHANGED <<site, call, turn, curAz, curNode>>
  BY DrawFacts
<1>5. m \in Blocks(Scheme) /\ n \in AZs \X (0..(site.nodes - 1))
  BY <1>2, <1>3 DEF Blocks, Free, Anywhere, InAz
<1>6. n \notin {nodes[call][y] : y \in DOMAIN nodes[call]}
  BY DEF Free, Placed
<1>7. TypeOK'
  <2>1. ASSUME NEW c \in 1..Len(site.calls)
        PROVE  /\ DOMAIN nodes'[c] \subseteq Blocks(site.calls[c])
               /\ \A x \in DOMAIN nodes'[c] : nodes'[c][x] \in AZs \X (0..(site.nodes - 1))
    <3>1. CASE c = call
      BY <1>2, <1>5, <3>1, CallFacts, <1>1 DEF Placed, Scheme
    <3>2. CASE c # call
      BY <1>2, <3>2 DEF Shape, TypeOK, Placed
    <3> QED BY <3>1, <3>2
  <2> QED BY <1>4, <2>1 DEF Shape, TypeOK, Placed, AZs
<1>8. PlacedSoFar'
  <2>1. DOMAIN nodes'[call] = 0..((m + 1) - 1) /\ m + 1 \in 0..Size(Scheme)
    BY <1>2, <1>3 DEF Placed
  <2> QED BY <1>1, <1>2, <1>4, <2>1 DEF Shape, PlacedSoFar, Placed, Scheme, Drawn, Rounded
<1>9. RoundInv => RoundInv'
  BY <1>1, <1>4 DEF RoundInv, Rounded, Scheme
<1>10. DistinctNodes => DistinctNodes'
  BY <1>2, <1>3, <1>4, <1>6 DEF DistinctNodes, Placed
<1> QED BY <1>7, <1>8, <1>9, <1>10 DEF Shape

(* A turn: the blocks it places, and where.                                *)
LEMMA TurnFacts ==
  ASSUME Shape, PlaceTurn
  PROVE  /\ call \in 1..Len(site.calls) /\ IsScheme(Scheme)
         /\ Rounded(Scheme) /\ ~Drawn(Scheme)
         /\ \E x \in Blocks(Scheme) : TurnOf(Scheme, x) = turn
         /\ DOMAIN nodes' = 1..Len(site.calls)
         /\ \A c \in 1..Len(site.calls) : c # call => nodes'[c] = nodes[c]
         /\ DOMAIN nodes'[call] = Placed(call) \cup BlocksAt(Scheme, turn)
         /\ \A x \in BlocksAt(Scheme, turn) :
              nodes'[call][x] =
                <<curAz, (curNode[curAz] + Cardinality(EarlierInTurn(Scheme, x)))
                           % site.nodes>>
         /\ Rounded(Scheme) =>
              \A x \in Placed(call) : /\ x \notin BlocksAt(Scheme, turn)
                                      /\ nodes'[call][x] = nodes[call][x]
<1>1. call <= Len(site.calls) /\ Rounded(Scheme) /\ ~Drawn(Scheme)
  BY DEF PlaceTurn, Making, Rounded, Drawn
<1>2. call \in 1..Len(site.calls) /\ IsScheme(Scheme)
  BY <1>1, CallFacts
<1>3. PICK new : new = [x \in BlocksAt(Scheme, turn) |->
                          <<curAz, (curNode[curAz] + Cardinality(EarlierInTurn(Scheme, x)))
                                     % site.nodes>>]
  OBVIOUS
<1>4. nodes' = [nodes EXCEPT ![call] = With(new)] /\ UNCHANGED <<site, call>>
  BY <1>3 DEF PlaceTurn
<1>5. /\ DOMAIN nodes' = 1..Len(site.calls)
      /\ \A c \in 1..Len(site.calls) : c # call => nodes'[c] = nodes[c]
      /\ DOMAIN nodes'[call] = DOMAIN nodes[call] \cup DOMAIN new
      /\ \A x \in DOMAIN nodes'[call] :
           nodes'[call][x] = IF x \in DOMAIN new THEN new[x] ELSE nodes[call][x]
  BY <1>1, <1>4, Added
<1>6. \A x \in Placed(call) : TurnOf(Scheme, x) \in 0..(turn - 1)
  BY <1>1 DEF Shape, PlacedSoFar
<1>7. turn \in Nat
  BY DEF Shape, TypeOK
<1>8. \A x \in Placed(call) : x \notin BlocksAt(Scheme, turn)
  BY <1>6, <1>7 DEF BlocksAt
<1>9. \E x \in Blocks(Scheme) : TurnOf(Scheme, x) = turn
  BY DEF PlaceTurn, BlocksAt
<1>10. DOMAIN new = BlocksAt(Scheme, turn)
  BY <1>3
<1>11. \A x \in BlocksAt(Scheme, turn) : nodes'[call][x] = new[x]
  BY <1>5, <1>10
<1> QED BY <1>1, <1>2, <1>3, <1>5, <1>8, <1>9, <1>10, <1>11 DEF Placed

LEMMA TurnShape ==
  ASSUME Shape, PlaceTurn
  PROVE  Shape'
<1> DEFINE new == BlocksAt(Scheme, turn)
<1>1. /\ site \in Deployments /\ site.azs \in Nat \ {0} /\ site.nodes \in Nat \ {0}
      /\ turn \in Nat /\ curAz \in AZs /\ curNode \in [AZs -> 0..(site.nodes - 1)]
      /\ curAz \in 0..(site.azs - 1) /\ curNode[curAz] \in 0..(site.nodes - 1)
  BY SiteFacts DEF Shape, TypeOK, AZs
<1>2. /\ curNode' = [curNode EXCEPT ![curAz] = Advance(Cardinality(new))]
      /\ curAz' = (curAz + 1) % site.azs
      /\ turn' = turn + 1
      /\ UNCHANGED <<site, call>>
  BY DEF PlaceTurn
<1>3. new \in SUBSET Blocks(Scheme) /\ IsFiniteSet(new) /\ Cardinality(new) \in Nat
  BY TurnFacts, BlocksFinite, FS_Subset, FS_CardinalityType DEF BlocksAt
<1>4. /\ Advance(Cardinality(new)) \in 0..(site.nodes - 1)
      /\ curAz' \in AZs
  <2>1. curAz + 1 \in Int /\ curNode[curAz] + Cardinality(new) \in Int
    BY <1>1, <1>3
  <2> QED BY <1>1, <1>2, <2>1, RemainderType DEF Advance, AZs
<1>5. \A x \in new : nodes'[call][x] \in AZs \X (0..(site.nodes - 1))
  <2> SUFFICES ASSUME NEW x \in new
               PROVE  nodes'[call][x] \in AZs \X (0..(site.nodes - 1))
    OBVIOUS
  <2>1. Cardinality(EarlierInTurn(Scheme, x)) \in Nat
    BY <1>3, TurnFacts, EarlierCount, FS_CardinalityType
  <2> DEFINE at == curNode[curAz] + Cardinality(EarlierInTurn(Scheme, x))
  <2>2. nodes'[call][x] = <<curAz, at % site.nodes>>
    BY TurnFacts
  <2>3. at \in Int
    BY <1>1, <2>1
  <2> HIDE DEF at
  <2>4. at % site.nodes \in 0..(site.nodes - 1)
    BY <1>1, <2>3, RemainderType
  <2> QED BY <1>1, <2>2, <2>4
<1>6. \A x \in Placed(call) : /\ x \in Blocks(Scheme)
                              /\ nodes'[call][x] \in AZs \X (0..(site.nodes - 1))
  BY TurnFacts, CallFacts
<1>7. \A c \in 1..Len(site.calls) :
        /\ DOMAIN nodes'[c] \subseteq Blocks(site.calls[c])
        /\ \A x \in DOMAIN nodes'[c] : nodes'[c][x] \in AZs \X (0..(site.nodes - 1))
  <2> SUFFICES ASSUME NEW c \in 1..Len(site.calls)
               PROVE  /\ DOMAIN nodes'[c] \subseteq Blocks(site.calls[c])
                      /\ \A x \in DOMAIN nodes'[c] :
                           nodes'[c][x] \in AZs \X (0..(site.nodes - 1))
    OBVIOUS
  <2>1. CASE c = call
    BY <1>3, <1>5, <1>6, <2>1, TurnFacts DEF Scheme
  <2>2. CASE c # call
    BY <2>2, TurnFacts DEF Shape, TypeOK, Placed
  <2> QED BY <2>1, <2>2
<1>8. TypeOK'
  <2>1. curNode' \in [AZs -> 0..(site.nodes - 1)]
    BY <1>1, <1>2, <1>4
  <2>2. AZs' = AZs /\ turn' \in Nat
    BY <1>1, <1>2 DEF AZs
  <2>3. call \in 1..(Len(site.calls) + 1)
    BY DEF Shape, TypeOK
  <2>4. \A c \in 1..Len(site.calls) : Placed(c)' = DOMAIN nodes'[c]
    BY DEF Placed
  <2> QED BY <1>1, <1>2, <1>4, <1>7, <2>1, <2>2, <2>3, <2>4 DEF TypeOK
<1>9. PlacedSoFar'
  <2>1. \A x \in DOMAIN nodes'[call] : TurnOf(Scheme, x) \in 0..(turn' - 1)
    <3>1. \A x \in Placed(call) : TurnOf(Scheme, x) \in 0..(turn - 1)
      BY TurnFacts DEF Shape, PlacedSoFar
    <3>2. ASSUME NEW x \in Placed(call) PROVE TurnOf(Scheme, x) \in 0..(turn' - 1)
      BY <1>1, <1>2, <3>1
    <3>3. ASSUME NEW x \in new PROVE TurnOf(Scheme, x) \in 0..(turn' - 1)
      BY <1>1, <1>2 DEF BlocksAt
    <3> QED BY <3>2, <3>3, TurnFacts
  <2> QED BY <1>2, <2>1, TurnFacts DEF Shape, PlacedSoFar, Placed, Scheme, Drawn, Rounded
<1> QED BY <1>8, <1>9 DEF Shape

(* The round of a call does not come to an AZ twice, nor, within an AZ, to  *)
(* a datanode twice.                                                        *)
LEMMA TurnDistinct ==
  ASSUME Wide, Shape, RoundInv, DistinctNodes, PlaceTurn
  PROVE  RoundInv' /\ DistinctNodes'
<1> DEFINE new == BlocksAt(Scheme, turn)
           offset(x) == Cardinality(EarlierInTurn(Scheme, x))
<1>1. /\ site \in Deployments /\ site.azs \in Nat \ {0} /\ site.nodes \in Nat \ {0}
      /\ turn \in Nat /\ curAz \in 0..(site.azs - 1)
      /\ curNode[curAz] \in 0..(site.nodes - 1)
      /\ call \in 1..Len(site.calls) /\ Len(site.calls) \in Nat
      /\ IsScheme(Scheme) /\ Rounded(Scheme)
  BY SiteFacts, TurnFacts DEF Shape, TypeOK, AZs
<1>2. /\ curAz' = (curAz + 1) % site.azs
      /\ turn' = turn + 1
      /\ UNCHANGED <<site, call>>
  BY DEF PlaceTurn
<1>3. /\ turn \in 0..(site.azs - 1)
      /\ \A x \in new : x \in Blocks(Scheme) /\ TurnOf(Scheme, x) = turn
      /\ Cardinality(new) <= site.nodes
  <2>1. PICK x \in Blocks(Scheme) : TurnOf(Scheme, x) = turn
    BY TurnFacts
  <2>2. /\ TurnOf(Scheme, x) \in 0..(site.azs - 1)
        /\ Cardinality(BlocksAt(Scheme, TurnOf(Scheme, x))) <= site.nodes
    BY <1>1, <2>1 DEF Wide, Scheme
  <2> QED BY <2>1, <2>2 DEF BlocksAt
<1>4. PICK start \in 0..(site.azs - 1) : RoundFrom(start)
  BY <1>1 DEF RoundInv, AZs
<1>5. \A x \in Placed(call) : TurnOf(Scheme, x) \in 0..(turn - 1)
  BY <1>1 DEF Shape, PlacedSoFar
<1>6. \A x \in Placed(call) :
        /\ x \notin new
        /\ nodes'[call][x] = nodes[call][x]
        /\ nodes'[call][x][1] = (start + TurnOf(Scheme, x)) % site.azs
  BY <1>4, TurnFacts DEF RoundFrom
<1>7. \A x \in new :
        /\ nodes'[call][x][1] = (start + turn) % site.azs
        /\ nodes'[call][x][2] = (curNode[curAz] + offset(x)) % site.nodes
  BY <1>4, TurnFacts DEF RoundFrom
<1>8. DOMAIN nodes'[call] = Placed(call) \cup new
  BY TurnFacts
<1>9. RoundInv'
  <2>1. curAz' = (start + turn') % site.azs
    <3>1. curAz = (start + turn) % site.azs
      BY <1>4 DEF RoundFrom
    <3>2. start + turn \in 0..(2 * site.azs - 2)
      BY <1>1, <1>3
    <3>3. (((start + turn) % site.azs) + 1) % site.azs = (start + turn + 1) % site.azs
      BY <1>1, <3>2, NextPlace
    <3>4. (curAz + 1) % site.azs = (start + turn + 1) % site.azs
      BY <3>1, <3>3
    <3>5. start + turn + 1 = start + turn'
      BY <1>1, <1>2
    <3> QED BY <1>2, <3>4, <3>5
  <2>2. turn' <= site.azs
    BY <1>1, <1>2, <1>3
  <2>3. \A x \in DOMAIN nodes'[call] :
          nodes'[call][x][1] = (start + TurnOf(Scheme, x)) % site.azs
    BY <1>3, <1>6, <1>7, <1>8
  <2> QED BY <1>2, <2>1, <2>2, <2>3 DEF RoundInv, RoundFrom, Placed, Scheme, AZs
<1>10. ASSUME NEW x \in DOMAIN nodes'[call], NEW y \in DOMAIN nodes'[call], x # y
       PROVE  nodes'[call][x] # nodes'[call][y]
  <2>1. ASSUME NEW u \in Placed(call), NEW v \in new
        PROVE  nodes'[call][u][1] # nodes'[call][v][1]
    <3>1. TurnOf(Scheme, u) \in 0..(site.azs - 1) /\ TurnOf(Scheme, u) # turn
      BY <1>1, <1>3, <1>5
    <3>2. (start + TurnOf(Scheme, u)) % site.azs # (start + turn) % site.azs
      BY <1>1, <1>3, <3>1, OffsetsDiffer
    <3> QED BY <1>6, <1>7, <3>2
  <2>2. CASE x \in Placed(call) /\ y \in Placed(call)
    BY <1>1, <1>6, <2>2, <1>10 DEF DistinctNodes
  <2>3. CASE x \in new /\ y \in new
    <3>1. offset(x) # offset(y)
      BY <1>1, <1>3, <1>10, <2>3, EarlierDiffers
    <3>2. /\ offset(x) \in 0..(Cardinality(new) - 1)
          /\ offset(y) \in 0..(Cardinality(new) - 1)
      BY <1>1, <1>3, <2>3, EarlierCount
    <3>3. Cardinality(new) \in Nat
      BY <1>1, BlocksFinite, FS_Subset, FS_CardinalityType DEF BlocksAt
    <3>4. offset(x) \in 0..(site.nodes - 1) /\ offset(y) \in 0..(site.nodes - 1)
      BY <1>1, <1>3, <3>2, <3>3
    <3>5. (curNode[curAz] + offset(x)) % site.nodes
            # (curNode[curAz] + offset(y)) % site.nodes
      BY <1>1, <3>1, <3>4, OffsetsDiffer
    <3> QED BY <1>7, <2>3, <3>5
  <2> QED BY <1>8, <2>1, <2>2, <2>3
<1>11. DistinctNodes'
  <2>1. \A c \in 1..Len(site.calls) : c # call => nodes'[c] = nodes[c]
    BY TurnFacts
  <2> QED BY <1>2, <1>10, <2>1 DEF DistinctNodes, Placed
<1> QED BY <1>9, <1>11

(* The call that returns leaves the next one a round of its own.            *)
LEMMA Returning ==
  ASSUME Shape, Return
  PROVE  Shape' /\ RoundInv' /\ (DistinctNodes => DistinctNodes')
<1>1. /\ site \in Deployments /\ site.azs \in Nat \ {0} /\ Len(site.calls) \in Nat
      /\ call \in 1..Len(site.calls)
      /\ call' = call + 1 /\ turn' = 0
      /\ UNCHANGED <<site, curAz, curNode, nodes>>
  BY SiteFacts, CallFacts DEF Shape, TypeOK, Return
<1>2. call' <= Len(site.calls) =>
        /\ call' \in 1..Len(site.calls) /\ IsScheme(Scheme') /\ Placed(call)' = {}
  BY <1>1, SiteFacts DEF Shape, PlacedSoFar, Placed, Scheme
<1>3. TypeOK'
  BY <1>1 DEF Shape, TypeOK, Placed, AZs
<1>4. PlacedSoFar'
  <2>1. \A c \in 1..Len(site.calls) : c > call' => Placed(c)' = {}
    BY <1>1 DEF Shape, PlacedSoFar, Placed
  <2>2. call' <= Len(site.calls) => 0 \in 0..Size(Scheme)' /\ Placed(call)' = 0..(0 - 1)
    BY <1>2, SizeIsNat
  <2> QED BY <1>1, <1>2, <2>1, <2>2 DEF Shape, PlacedSoFar
<1>5. RoundInv'
  <2>1. curAz \in 0..(site.azs - 1)
    BY DEF Shape, TypeOK, AZs
  <2>2. curAz' = (curAz + turn') % site.azs
    BY <1>1, <2>1, Remainder
  <2>3. call' <= Len(site.calls) => RoundFrom(curAz)'
    BY <1>1, <1>2, <2>2 DEF RoundFrom
  <2> QED BY <1>1, <2>1, <2>3 DEF RoundInv, RoundFrom, AZs
<1>6. DistinctNodes => DistinctNodes'
  BY <1>1 DEF DistinctNodes, Placed
<1> QED BY <1>3, <1>4, <1>5, <1>6 DEF Shape

LEMMA Unchanged ==
  ASSUME UNCHANGED vars
  PROVE  /\ (Shape => Shape') /\ (RoundInv => RoundInv')
         /\ (DistinctNodes => DistinctNodes')
<1>1. UNCHANGED <<site, call, turn, curAz, curNode, nodes>>
  BY DEF vars
<1>2. TypeOK => TypeOK'
  BY <1>1 DEF TypeOK, AZs, Placed
<1>3. PlacedSoFar => PlacedSoFar'
  BY <1>1 DEF PlacedSoFar, Placed, Scheme
<1>4. RoundInv => RoundInv'
  BY <1>1 DEF RoundInv, RoundFrom, Placed, Scheme, AZs
<1>5. DistinctNodes => DistinctNodes'
  BY <1>1 DEF DistinctNodes, Placed
<1> QED BY <1>2, <1>3, <1>4, <1>5 DEF Shape

LEMMA ShapeStep == Shape /\ [Next]_vars => Shape'
<1> SUFFICES ASSUME Shape, [Next]_vars PROVE Shape'
  OBVIOUS
<1>1. CASE PlaceRandom
  BY <1>1, Drawing1
<1>2. CASE PlaceTurn
  BY <1>2, TurnShape
<1>3. CASE Return
  BY <1>3, Returning
<1>4. CASE DrawAgain \/ Finished \/ UNCHANGED vars
  BY <1>4, Unchanged DEF DrawAgain, Finished
<1> QED BY <1>1, <1>2, <1>3, <1>4 DEF Next

LEMMA InvStep ==
  ASSUME Wide
  PROVE  Inv /\ [Next]_vars => Inv'
<1> SUFFICES ASSUME Inv, [Next]_vars PROVE Inv'
  OBVIOUS
<1>1. Shape /\ RoundInv /\ DistinctNodes
  BY DEF Inv
<1>2. Shape'
  BY <1>1, ShapeStep
<1>3. RoundInv' /\ DistinctNodes'
  <2>1. CASE PlaceRandom
    BY <1>1, <2>1, Drawing1
  <2>2. CASE PlaceTurn
    BY <1>1, <2>2, TurnDistinct
  <2>3. CASE Return
    BY <1>1, <2>3, Returning
  <2>4. CASE DrawAgain \/ Finished \/ UNCHANGED vars
    BY <1>1, <2>4, Unchanged DEF DrawAgain, Finished
  <2> QED BY <2>1, <2>2, <2>3, <2>4 DEF Next
<1> QED BY <1>2, <1>3 DEF Inv

-----------------------------------------------------------------------------
(* cur_az and cur_node stay on an AZ and a datanode that exist, and every   *)
(* block generate_placement places is put on one, however wide the stripe.  *)
THEOREM TypeCorrect == Spec => []TypeOK
<1>1. Init => Shape
  BY InitInv DEF Inv
<1>2. Shape => TypeOK
  BY DEF Shape
<1> QED BY <1>1, <1>2, ShapeStep, PTL DEF Spec

(* No two blocks of a stripe share a datanode, whichever schemes follow one *)
(* another and wherever cur_az and cur_node stood, when the AZs and their   *)
(* datanodes are enough for the turns of each scheme.                       *)
THEOREM NodesDistinct ==
  ASSUME Wide
  PROVE  Spec => []DistinctNodes
<1>1. Init => Inv
  BY InitInv
<1>2. Inv => DistinctNodes
  BY DEF Inv
<1>3. Inv /\ [Next]_vars => Inv'
  BY InvStep
<1> QED BY <1>1, <1>2, <1>3, PTL DEF Spec
-----------------------------------------------------------------------------
(* The blocks of a turn                                                    *)

LEMMA AzureFacts ==
  ASSUME NEW sch, IsScheme(sch), sch.code = "Azure_LRC_1"
  PROVE  /\ sch.k \in Nat \ {0} /\ sch.l \in Nat \ {0} /\ sch.g \in Nat \ {0}
         /\ sch.b \in Nat \ {0}
         /\ Groups(sch) = 0..sch.l
         /\ Blocks(sch) = 0..(sch.k + sch.g + sch.l)
         /\ \A i \in 0..(sch.l - 1) : Members(sch, i) = DataOf(sch, i) \cup {LocalOf(sch, i)}
         /\ Members(sch, sch.l) = Globals(sch) \cup {LocalOf(sch, sch.l)}
         /\ \A i \in Groups(sch) : LocalOf(sch, i) = sch.k + sch.g + i
<1>1. /\ sch.k \in Nat \ {0} /\ sch.l \in Nat \ {0} /\ sch.g \in Nat \ {0}
      /\ sch.b \in Nat \ {0}
  BY DEF IsScheme
<1>2. Groups(sch) = 0..sch.l /\ Blocks(sch) = 0..(sch.k + sch.g + sch.l)
  BY <1>1 DEF Groups, Blocks, Size
<1>3. \A i \in 0..(sch.l - 1) : Members(sch, i) = DataOf(sch, i) \cup {LocalOf(sch, i)}
  BY <1>1 DEF Members
<1>4. Members(sch, sch.l) = Globals(sch) \cup {LocalOf(sch, sch.l)}
  BY <1>1 DEF Members
<1>5. \A i \in Groups(sch) : LocalOf(sch, i) = sch.k + sch.g + i
  BY DEF LocalOf
<1> QED BY <1>1, <1>2, <1>3, <1>4, <1>5

(* A block of Azure_LRC_1 is of the group of the global parities, or is    *)
(* data or the local parity of the group GroupOf names.                    *)
LEMMA AzureGroups ==
  ASSUME NEW sch, IsScheme(sch), sch.code = "Azure_LRC_1", NEW x \in Blocks(sch),
         x \notin Members(sch, sch.l)
  PROVE  /\ GroupOf(sch, x) \in 0..(sch.l - 1)
         /\ \/ x \in 0..(sch.k - 1) /\ x \in DataOf(sch, GroupOf(sch, x))
            \/ x = LocalOf(sch, GroupOf(sch, x)) /\ x >= sch.k
<1>1. x \in Nat /\ x <= sch.k + sch.g + sch.l /\ x \notin Globals(sch)
      /\ x # sch.k + sch.g + sch.l
  <2>1. x \in 0..(sch.k + sch.g + sch.l)
    BY AzureFacts
  <2>2. Members(sch, sch.l) = Globals(sch) \cup {LocalOf(sch, sch.l)}
    BY AzureFacts
  <2>3. LocalOf(sch, sch.l) = sch.k + sch.g + sch.l
    BY DEF LocalOf
  <2>4. sch.k + sch.g + sch.l \in Nat
    BY AzureFacts
  <2> QED BY <2>1, <2>2, <2>3, <2>4
<1>2. CASE x < sch.k
  <2>1. GroupOf(sch, x) = x \div sch.b
    BY <1>2 DEF GroupOf
  <2>2. x \in 0..(sch.k - 1)
    BY <1>1, <1>2, AzureFacts
  <2>3. x \div sch.b \in 0..(sch.l - 1)
    BY <2>2, GroupOfData
  <2> QED BY <2>1, <2>2, <2>3 DEF DataOf
<1>3. CASE x >= sch.k
  <2>1. x >= sch.k + sch.g
    BY <1>1, <1>3, AzureFacts DEF Globals
  <2> QED BY <1>1, <1>3, <2>1, AzureFacts DEF GroupOf, LocalOf
<1> QED BY <1>1, <1>2, <1>3, AzureFacts

LEMMA GroupOfMember ==
  ASSUME NEW sch, IsScheme(sch), sch.code = "Azure_LRC_1", NEW i \in 0..(sch.l - 1),
         NEW x \in Members(sch, i)
  PROVE  x \notin Members(sch, sch.l) /\ GroupOf(sch, x) = i
<1>1. i \in Groups(sch) /\ sch.l \in Groups(sch) /\ i # sch.l
  BY AzureFacts
<1>2. x \notin Members(sch, sch.l)
  BY <1>1, OneGroup
<1>3. CASE x \in DataOf(sch, i)
  <2>1. x \div sch.b = i /\ x < sch.k
    BY <1>3, AzureFacts DEF DataOf
  <2> QED BY <1>2, <2>1 DEF GroupOf
<1>4. CASE x = LocalOf(sch, i)
  BY <1>1, <1>2, <1>4, AzureFacts DEF GroupOf
<1> QED BY <1>2, <1>3, <1>4, AzureFacts

LEMMA TurnOfAzure ==
  ASSUME NEW sch, IsScheme(sch), sch.code = "Azure_LRC_1", NEW x \in Blocks(sch)
  PROVE  TurnOf(sch, x) = IF x \in Members(sch, sch.l)
                          THEN TurnOfGroup(sch, sch.k + sch.g + sch.l - 1) + 1
                          ELSE TurnOfGroup(sch, x)
BY DEF TurnOf

(* A group goes in one turn: always with OPPO_LRC, and with Azure_LRC_1    *)
(* that of the global parities, and every group no larger than g.          *)
LEMMA SameTurn ==
  ASSUME NEW sch, IsScheme(sch), sch.code # "RS", NEW i \in Groups(sch),
         sch.code = "OPPO_LRC" \/ i = sch.l \/ sch.b <= sch.g,
         NEW x \in Members(sch, i), NEW y \in Members(sch, i)
  PROVE  TurnOf(sch, x) = TurnOf(sch, y)
<1>1. CASE sch.code = "OPPO_LRC"
  <2>1. \A z \in Members(sch, i) : (CHOOSE m \in Groups(sch) : z \in Members(sch, m)) = i
    BY OneGroup
  <2> QED BY <1>1, <2>1 DEF TurnOf
<1>2. CASE sch.code = "Azure_LRC_1"
  <2>1. x \in Blocks(sch) /\ y \in Blocks(sch)
    BY MembersAreBlocks
  <2>2. CASE i = sch.l
    BY <1>2, <2>1, <2>2, TurnOfAzure
  <2>3. CASE i # sch.l
    <3>1. i \in 0..(sch.l - 1) /\ sch.b <= sch.g
      BY <1>2, <2>3, AzureFacts
    <3>2. Sita(sch) # 0
      <4>1. sch.g \in Nat /\ sch.b \in Nat \ {0}
        BY <1>2, AzureFacts
      <4> QED BY <3>1, <4>1 DEF Sita
    <3> QED BY <1>2, <2>1, <3>1, <3>2, GroupOfMember, TurnOfAzure DEF TurnOfGroup
  <2> QED BY <2>2, <2>3
<1> QED BY <1>1, <1>2 DEF IsScheme

(* The data blocks of a group are b consecutive ones, or what is left.     *)
LEMMA DataOfGroup ==
  ASSUME NEW sch, IsScheme(sch), NEW i \in Nat
  PROVE  /\ Cardinality(DataOf(sch, i)) \in 0..sch.b
         /\ \A x \in DataOf(sch, i) : x - i * sch.b \in 0..(Cardinality(DataOf(sch, i)) - 1)
<1> DEFINE lo == sch.b * i
           hi == IF lo + sch.b <= sch.k THEN lo + sch.b - 1 ELSE sch.k - 1
<1>1. sch.k \in Nat /\ sch.b \in Nat \ {0}
  BY DEF IsScheme
<1>2. lo \in Nat /\ i * sch.b = lo
  BY <1>1
<1>3. ASSUME NEW x \in 0..(sch.k - 1)
      PROVE  x \div sch.b = i <=> (lo <= x /\ x < lo + sch.b)
  <2>1. x \in Nat
    BY <1>1
  <2>2. x \div sch.b = i => lo <= x /\ x < lo + sch.b
    BY <1>1, <2>1, Quotient
  <2>3. lo <= x /\ x < lo + sch.b => x \div sch.b = i
    BY <1>1, <2>1, QuotientIs
  <2> QED BY <2>2, <2>3
<1> HIDE DEF lo
<1>4. DataOf(sch, i) = lo..hi
  <2>1. \A x : x \in DataOf(sch, i) <=> x \in 0..(sch.k - 1) /\ lo <= x /\ x < lo + sch.b
    BY <1>3 DEF DataOf
  <2>2. \A x : x \in lo..hi <=> x \in 0..(sch.k - 1) /\ lo <= x /\ x < lo + sch.b
    BY <1>1, <1>2
  <2> QED BY <2>1, <2>2
<1>5. lo \in Int /\ hi \in Int /\ hi - lo + 1 <= sch.b
  BY <1>1, <1>2
<1> HIDE DEF hi
<1>6. Cardinality(DataOf(sch, i)) = IF lo > hi THEN 0 ELSE hi - lo + 1
  BY <1>4, <1>5, FS_Interval
<1>7. \A x \in DataOf(sch, i) : x - lo \in 0..(hi - lo) /\ lo <= hi
  BY <1>4, <1>5
<1> QED BY <1>1, <1>2, <1>5, <1>6, <1>7

(* Where in its group a data block or a local parity comes.                *)
PlaceOf(sch, x) ==
  IF x < sch.k THEN x - GroupOf(sch, x) * sch.b ELSE Cardinality(DataOf(sch, GroupOf(sch, x)))

PerGroup(sch) == sch.b \div Piece(sch) + 1

LEMMA PieceFacts ==
  ASSUME NEW sch, IsScheme(sch), sch.code = "Azure_LRC_1", NEW x \in Blocks(sch),
         x \notin Members(sch, sch.l)
  PROVE  /\ Piece(sch) = sch.g + 1 /\ PerGroup(sch) \in Nat \ {0}
         /\ PlaceOf(sch, x) \in 0..Cardinality(DataOf(sch, GroupOf(sch, x)))
         /\ x < sch.k => PlaceOf(sch, x) < Cardinality(DataOf(sch, GroupOf(sch, x)))
         /\ PlaceOf(sch, x) \div Piece(sch) \in 0..(PerGroup(sch) - 1)
         /\ TurnOfPiece(sch, x)
              = PerGroup(sch) * GroupOf(sch, x) + PlaceOf(sch, x) \div Piece(sch)
<1> DEFINE i == GroupOf(sch, x)
           size == Cardinality(DataOf(sch, i))
           p == PlaceOf(sch, x)
           n == Piece(sch)
           per == PerGroup(sch)
<1>1. sch.g \in Nat \ {0} /\ sch.b \in Nat \ {0} /\ sch.k \in Nat
      /\ i \in Nat /\ x \in Nat
  BY AzureFacts, AzureGroups
<1>2. n = sch.g + 1 /\ n \in Nat \ {0}
  BY <1>1 DEF Piece
<1>3. per \in Nat \ {0}
  BY <1>1, <1>2, Quotient DEF PerGroup
<1>4. size \in 0..sch.b
  BY <1>1, DataOfGroup
<1>5. p \in 0..size /\ (x < sch.k => p < size)
  <2>1. CASE x < sch.k
    <3>1. x \in DataOf(sch, i)
      <4>1. x \in 0..(sch.k - 1)
        BY <1>1, <2>1
      <4>2. x \div sch.b = i
        BY <2>1 DEF GroupOf
      <4> QED BY <4>1, <4>2 DEF DataOf
    <3>2. x - i * sch.b \in 0..(size - 1)
      BY <1>1, <3>1, DataOfGroup
    <3> QED BY <1>4, <2>1, <3>2 DEF PlaceOf
  <2>2. CASE ~(x < sch.k)
    BY <1>4, <2>2 DEF PlaceOf
  <2> QED BY <2>1, <2>2
<1>6. p \div n \in 0..(per - 1)
  <2>1. p \in Nat /\ sch.b \in Nat /\ p <= sch.b
    BY <1>1, <1>4, <1>5
  <2>2. p \div n \in Nat /\ sch.b \div n \in Nat /\ p \div n <= sch.b \div n
    <3> HIDE DEF p, n
    <3> QED BY <1>2, <2>1, Quotient, QuotientGrows
  <2>3. per = (sch.b \div n) + 1
    BY DEF PerGroup
  <2> QED BY <1>3, <2>2, <2>3
<1>7. TurnOfPiece(sch, x) = per * i + (p \div n)
  <2>1. TurnOfPiece(sch, x) = i * per + (p \div n)
    BY DEF TurnOfPiece, PerGroup, PlaceOf
  <2> HIDE DEF p, n
  <2>2. i * per = per * i
    BY <1>1, <1>3
  <2> QED BY <2>1, <2>2
<1> QED BY <1>2, <1>3, <1>5, <1>6, <1>7

(* A turn places at most g + 1 blocks of a group larger than g.            *)
LEMMA PieceTurn ==
  ASSUME NEW sch, IsScheme(sch), sch.code = "Azure_LRC_1", NEW t,
         NEW lost \in SUBSET (Blocks(sch) \ Members(sch, sch.l)),
         \A x \in lost : TurnOfPiece(sch, x) = t
  PROVE  Cardinality(lost) <= sch.g + 1
<1> DEFINE n == Piece(sch)
           per == PerGroup(sch)
           i == t \div per
           q == t - per * i
           lo == n * q
           hi == lo + sch.g
           p(x) == PlaceOf(sch, x)
           f == [x \in lost |-> p(x)]
<1>1. CASE lost = {}
  BY <1>1, FS_EmptySet, AzureFacts
<1>2. CASE lost # {}
  <2>1. /\ sch.g \in Nat /\ sch.b \in Nat /\ sch.k \in Nat
        /\ n = sch.g + 1 /\ per \in Nat \ {0}
    BY <1>2, AzureFacts, PieceFacts
  <2>2. ASSUME NEW x \in lost
        PROVE  /\ t \in Nat /\ GroupOf(sch, x) = i /\ i \in Nat
               /\ p(x) \in Nat /\ (p(x) \div n) = q /\ q \in Nat
               /\ x < sch.k => p(x) = x - i * sch.b /\ p(x) < Cardinality(DataOf(sch, i))
               /\ ~(x < sch.k) => p(x) = Cardinality(DataOf(sch, i)) /\ x = LocalOf(sch, i)
    <3> DEFINE m == GroupOf(sch, x)
               r == p(x) \div n
    <3>1. x \in Blocks(sch) /\ x \notin Members(sch, sch.l)
      BY <2>2
    <3>2. m \in Nat /\ (~(x < sch.k) => x = LocalOf(sch, m)) /\ x \in Nat
      BY <2>1, <3>1, AzureFacts, AzureGroups
    <3>3. /\ p(x) \in Nat /\ r \in 0..(per - 1)
          /\ x < sch.k => p(x) < Cardinality(DataOf(sch, m))
          /\ t = per * m + r
      <4>1. Cardinality(DataOf(sch, m)) \in Nat
        BY <2>1, <3>2, DataOfGroup
      <4> QED BY <2>2, <3>1, <4>1, PieceFacts
    <3>4. /\ x < sch.k => p(x) = x - m * sch.b
          /\ ~(x < sch.k) => p(x) = Cardinality(DataOf(sch, m))
      BY DEF PlaceOf
    <3> HIDE DEF m, r, p
    <3>5. t \in Nat /\ per * m <= t /\ t < per * m + per
      <4>1. per * m \in Nat
        BY <2>1, <3>2
      <4> QED BY <2>1, <3>3, <4>1
    <3>6. i = m
      <4> HIDE DEF per
      <4> QED BY <2>1, <3>2, <3>5, QuotientIs
    <3>7. q = r
      <4>1. per * m \in Nat
        BY <2>1, <3>2
      <4> HIDE DEF i, per
      <4> QED BY <2>1, <3>3, <3>6, <4>1
    <3> HIDE DEF i, q
    <3> QED BY <2>1, <3>2, <3>3, <3>4, <3>5, <3>6, <3>7 DEF m, r
  <2>3. lo \in Int /\ hi \in Int /\ hi - lo + 1 = sch.g + 1 /\ lo <= hi
    <3>1. q \in Nat
      BY <1>2, <2>2
    <3> HIDE DEF q
    <3> QED BY <2>1, <3>1
  <2>4. ASSUME NEW x \in lost PROVE p(x) \in lo..hi
    <3>1. p(x) \in Nat /\ (p(x) \div n) = q
      BY <2>2
    <3> HIDE DEF p, q
    <3>2. n * (p(x) \div n) <= p(x) /\ p(x) < n * (p(x) \div n) + n
      BY <2>1, <3>1, Quotient
    <3>3. lo <= p(x) /\ p(x) < lo + n
      BY <3>1, <3>2
    <3> HIDE DEF lo
    <3> QED BY <2>1, <2>3, <3>1, <3>3
  <2>5. ASSUME NEW x \in lost, NEW y \in lost, p(x) = p(y) PROVE x = y
    <3>1. x \in Nat /\ y \in Nat
      BY AzureFacts
    <3>2. i \in Nat /\ i * sch.b \in Int
      BY <2>1, <2>2
    <3>3. Cardinality(DataOf(sch, i)) \in Nat
      BY <3>2, <2>1, DataOfGroup
    <3> HIDE DEF p, i
    <3> QED BY <2>1, <2>2, <2>5, <3>1, <3>2, <3>3
  <2>6. f \in Injection(lost, lo..hi)
    <3>1. f \in [lost -> lo..hi]
      BY <2>4
    <3>2. \A x, y \in lost : f[x] = f[y] => x = y
      BY <2>5
    <3> QED BY <3>1, <3>2 DEF Injection, IsInjective
  <2> HIDE DEF lo, hi, f
  <2>7. IsFiniteSet(lo..hi) /\ Cardinality(lo..hi) = sch.g + 1
    BY <2>3, FS_Interval
  <2>8. Cardinality(lost) <= Cardinality(lo..hi)
    BY <2>6, <2>7, FS_Injection
  <2> QED BY <2>7, <2>8
<1> QED BY <1>1, <1>2

(* A turn of whole groups places at most g data blocks.                    *)
LEMMA GroupTurn ==
  ASSUME NEW sch, IsScheme(sch), sch.code = "Azure_LRC_1", Sita(sch) # 0, NEW t,
         NEW lost \in SUBSET (Blocks(sch) \ Members(sch, sch.l)),
         \A x \in lost : TurnOfGroup(sch, x) = t
  PROVE  Recoverable(sch, lost)
<1> DEFINE c == Sita(sch)
           b == sch.b
           lo == b * (c * t)
           width == b * c
           hi == lo + width - 1
           few == lo..hi
<1>1. CASE lost = {}
  <2>1. Cardinality(lost) = 0 /\ sch.g \in Nat
    BY <1>1, FS_EmptySet, AzureFacts
  <2> QED BY <1>1, <2>1, OneOver
<1>2. CASE lost # {}
  <2>1. sch.g \in Nat /\ b \in Nat \ {0} /\ c \in Nat \ {0} /\ width \in Nat /\ width <= sch.g
    <3>1. sch.g \in Nat /\ b \in Nat \ {0}
      BY AzureFacts
    <3>2. c = sch.g \div b
      BY DEF Sita
    <3> QED BY <3>1, <3>2, Quotient
  <2>2. ASSUME NEW x \in lost
        PROVE  /\ t \in Nat
               /\ x \in few \/ \E i \in Groups(sch) : x = LocalOf(sch, i)
    <3> DEFINE i == GroupOf(sch, x)
    <3>1. /\ i \in Nat /\ i \in Groups(sch) /\ t = i \div c /\ x \in Nat
          /\ \/ x = LocalOf(sch, i)
             \/ x \in DataOf(sch, i)
      <4>1. x \in Blocks(sch) /\ x \notin Members(sch, sch.l)
        BY <2>2
      <4>2. i \in 0..(sch.l - 1) /\ x \in Nat
        BY <4>1, AzureFacts, AzureGroups
      <4>3. i \in Nat /\ i \in Groups(sch)
        BY <4>2, AzureFacts
      <4>4. TurnOfGroup(sch, x) = i \div c
        BY DEF TurnOfGroup
      <4> QED BY <2>2, <4>1, <4>2, <4>3, <4>4, AzureGroups
    <3> HIDE DEF i
    <3>2. t \in Nat /\ c * t <= i /\ i + 1 <= c * t + c /\ c * t \in Nat
      <4> HIDE DEF c
      <4> QED BY <2>1, <3>1, Quotient
    <3>3. CASE x \in DataOf(sch, i)
      <4>1. b * i <= x /\ x < b * i + b
        <5>1. x \div b = i
          BY <3>3 DEF DataOf
        <5> QED BY <2>1, <3>1, <5>1, Quotient
      <4>2. lo \in Nat /\ lo <= b * i
        BY <2>1, <3>1, <3>2, Products
      <4>3. b * (i + 1) <= b * (c * t + c) /\ b * (i + 1) = b * i + b
        BY <2>1, <3>1, <3>2, Products
      <4>4. b * (c * t + c) = lo + width
        <5> DEFINE ct == c * t
        <5> HIDE DEF ct, c
        <5>1. b * (ct + c) = b * ct + b * c
          BY <2>1, <3>2 DEF ct
        <5> QED BY <5>1 DEF ct
      <4>5. b * i \in Nat
        BY <2>1, <3>1
      <4> HIDE DEF lo, width, b, c
      <4>6. x \in few
        BY <2>1, <3>1, <4>1, <4>2, <4>3, <4>4, <4>5
      <4> QED BY <3>2, <4>6
    <3> QED BY <3>1, <3>2, <3>3
  <2>3. lo \in Nat
    <3>1. t \in Nat
      BY <1>2, <2>2
    <3> HIDE DEF c
    <3>2. c * t \in Nat
      BY <2>1, <3>1
    <3> QED BY <2>1, <3>2
  <2>4. IsFiniteSet(few) /\ Cardinality(few) <= sch.g
    <3> HIDE DEF lo, width
    <3>1. hi \in Int /\ hi - lo + 1 = width
      BY <2>1, <2>3
    <3> HIDE DEF hi
    <3>2. IsFiniteSet(few) /\ Cardinality(few) = IF lo > hi THEN 0 ELSE hi - lo + 1
      BY <2>3, <3>1, FS_Interval
    <3> QED BY <2>1, <2>3, <3>1, <3>2
  <2>5. lost \subseteq few \cup {LocalOf(sch, i) : i \in Groups(sch)}
    BY <2>2
  <2> HIDE DEF few
  <2> QED BY <2>4, <2>5, FewAndLocals
<1> QED BY <1>1, <1>2

(* No turn of another group is later than that of the last local parity.   *)
LEMMA TurnsBefore ==
  ASSUME NEW sch, IsScheme(sch), sch.code = "Azure_LRC_1", NEW x \in Blocks(sch),
         x \notin Members(sch, sch.l)
  PROVE  /\ TurnOfGroup(sch, x) \in Nat
         /\ TurnOfGroup(sch, sch.k + sch.g + sch.l - 1) \in Nat
         /\ TurnOfGroup(sch, x) <= TurnOfGroup(sch, sch.k + sch.g + sch.l - 1)
<1> DEFINE y == sch.k + sch.g + sch.l - 1
           i == GroupOf(sch, x)
           m == sch.l - 1
<1>1. /\ sch.k \in Nat \ {0} /\ sch.l \in Nat \ {0} /\ sch.g \in Nat \ {0} /\ sch.b \in Nat \ {0}
      /\ i \in Nat /\ m \in Nat /\ i <= m
  BY AzureFacts, AzureGroups
<1>2. /\ y \in Blocks(sch) /\ y \notin Members(sch, sch.l) /\ ~(y < sch.k)
      /\ GroupOf(sch, y) = m
  <2>1. m \in 0..(sch.l - 1) /\ m \in Groups(sch)
    BY <1>1, AzureFacts
  <2>2. LocalOf(sch, m) = y /\ LocalOf(sch, m) \in Members(sch, m)
    <3>1. LocalOf(sch, m) \in Members(sch, m)
      BY <2>1, AzureFacts
    <3> QED BY <1>1, <3>1 DEF LocalOf
  <2>3. y \notin Members(sch, sch.l) /\ GroupOf(sch, y) = m
    BY <2>1, <2>2, GroupOfMember
  <2>4. y \in Blocks(sch) /\ ~(y < sch.k)
    BY <1>1, AzureFacts
  <2> QED BY <2>3, <2>4
<1> HIDE DEF y, i, m
<1>3. CASE Sita(sch) = 0
  <2> DEFINE per == PerGroup(sch)
             n == Piece(sch)
             r == PlaceOf(sch, x) \div n
             s == PlaceOf(sch, y) \div n
  <2>1. /\ per \in Nat \ {0} /\ n \in Nat \ {0}
        /\ r \in 0..(per - 1) /\ s \in 0..(per - 1)
        /\ TurnOfGroup(sch, x) = per * i + r
        /\ TurnOfGroup(sch, y) = per * m + s
        /\ PlaceOf(sch, x) \in 0..Cardinality(DataOf(sch, i))
        /\ PlaceOf(sch, y) = Cardinality(DataOf(sch, m))
    <3>1. PlaceOf(sch, y) = Cardinality(DataOf(sch, m))
      BY <1>2 DEF PlaceOf
    <3>2. n \in Nat \ {0}
      BY <1>1 DEF Piece
    <3>3. /\ per \in Nat \ {0} /\ r \in 0..(per - 1) /\ TurnOfPiece(sch, x) = per * i + r
          /\ PlaceOf(sch, x) \in 0..Cardinality(DataOf(sch, i))
      BY PieceFacts DEF i
    <3>4. s \in 0..(per - 1) /\ TurnOfPiece(sch, y) = per * m + s
      BY <1>2, PieceFacts
    <3> QED BY <1>3, <3>1, <3>2, <3>3, <3>4 DEF TurnOfGroup
  <2>2. per * i \in Nat /\ per * m \in Nat
    BY <1>1, <2>1
  <2>3. CASE i = m
    <3>1. PlaceOf(sch, x) \in Nat /\ PlaceOf(sch, y) \in Nat /\ PlaceOf(sch, x) <= PlaceOf(sch, y)
      <4>1. Cardinality(DataOf(sch, m)) \in Nat
        BY <1>1, DataOfGroup
      <4> QED BY <2>1, <2>3, <4>1
    <3>2. r <= s
      BY <2>1, <3>1, QuotientGrows
    <3> HIDE DEF r, s, per
    <3> QED BY <2>1, <2>2, <2>3, <3>2 DEF y
  <2>4. CASE i # m
    <3>1. per * (i + 1) <= per * m /\ per * (i + 1) = per * i + per
      BY <1>1, <2>1, <2>4, Products
    <3> HIDE DEF r, s, per
    <3> QED BY <2>1, <2>2, <3>1 DEF y
  <2> QED BY <2>3, <2>4
<1>4. CASE Sita(sch) # 0
  <2>1. Sita(sch) \in Nat \ {0}
    BY <1>1, <1>4, Quotient DEF Sita
  <2>2. TurnOfGroup(sch, x) = i \div Sita(sch) /\ TurnOfGroup(sch, y) = m \div Sita(sch)
    BY <1>2, <1>4 DEF TurnOfGroup, i
  <2>3. i \div Sita(sch) \in Nat /\ m \div Sita(sch) \in Nat
        /\ i \div Sita(sch) <= m \div Sita(sch)
    BY <1>1, <2>1, Quotient, QuotientGrows
  <2> QED BY <2>2, <2>3 DEF y
<1> QED BY <1>3, <1>4

(* The blocks of any one turn may be lost.                                 *)
LEMMA TurnTolerant ==
  ASSUME NEW sch, IsScheme(sch), sch.code = "Azure_LRC_1", NEW t,
         NEW lost \in SUBSET BlocksAt(sch, t)
  PROVE  Recoverable(sch, lost)
<1> DEFINE last == TurnOfGroup(sch, sch.k + sch.g + sch.l - 1) + 1
           lastGroup == Members(sch, sch.l)
<1>1. \A x \in lost : /\ x \in Blocks(sch)
                      /\ t = IF x \in lastGroup THEN last ELSE TurnOfGroup(sch, x)
  BY TurnOfAzure DEF BlocksAt
<1>2. CASE lost \cap lastGroup = {}
  <2>1. /\ lost \in SUBSET (Blocks(sch) \ lastGroup)
        /\ \A x \in lost : TurnOfGroup(sch, x) = t
    BY <1>1, <1>2
  <2>2. CASE Sita(sch) = 0
    <3>1. \A x \in lost : TurnOfPiece(sch, x) = t
      BY <2>1, <2>2 DEF TurnOfGroup
    <3>2. Cardinality(lost) <= sch.g + 1
      BY <2>1, <3>1, PieceTurn
    <3>3. lost \in SUBSET Blocks(sch)
      BY <1>1
    <3> QED BY <3>2, <3>3, OneOver
  <2>3. CASE Sita(sch) # 0
    BY <2>1, <2>3, GroupTurn
  <2> QED BY <2>2, <2>3
<1>3. CASE lost \cap lastGroup # {}
  <2>1. t = last
    BY <1>1, <1>3
  <2>2. \A x \in lost : x \in lastGroup
    <3> SUFFICES ASSUME NEW x \in lost, x \notin lastGroup PROVE FALSE
      OBVIOUS
    <3>1. /\ TurnOfGroup(sch, x) \in Nat /\ last - 1 \in Nat
          /\ TurnOfGroup(sch, x) <= last - 1 /\ TurnOfGroup(sch, x) = last
      BY <1>1, <2>1, TurnsBefore
    <3> HIDE DEF last
    <3> QED BY <3>1
  <2>3. sch.l \in Groups(sch) /\ sch.g \in Nat /\ sch.k \in Nat
    BY AzureFacts
  <2>4. lost \subseteq Globals(sch) \cup {LocalOf(sch, i) : i \in Groups(sch)}
    BY <2>2, <2>3, AzureFacts
  <2>5. IsFiniteSet(Globals(sch)) /\ Cardinality(Globals(sch)) <= sch.g
    <3> DEFINE lo == sch.k
               hi == sch.k + sch.g - 1
    <3>1. lo \in Int /\ hi \in Int /\ hi - lo + 1 = sch.g /\ Globals(sch) = lo..hi
      <4>1. sch.k \in Nat
        BY AzureFacts
      <4> QED BY <2>3, <4>1 DEF Globals
    <3> HIDE DEF lo, hi
    <3>2. IsFiniteSet(lo..hi) /\ Cardinality(lo..hi) = IF lo > hi THEN 0 ELSE hi - lo + 1
      BY <3>1, FS_Interval
    <3> QED BY <2>3, <3>1, <3>2
  <2> QED BY <2>4, <2>5, FewAndLocals
<1> QED BY <1>2, <1>3

(* So may one block more, when groups are no larger than g: it is of the    *)
(* same turn or of a group none of whose blocks is lost.                    *)
LEMMA TurnAndBlock ==
  ASSUME NEW sch, IsScheme(sch), sch.code = "Azure_LRC_1", sch.b <= sch.g, NEW t,
         NEW lost \in SUBSET BlocksAt(sch, t), NEW x \in Blocks(sch)
  PROVE  Recoverable(sch, lost \cup {x})
<1>1. CASE TurnOf(sch, x) = t
  <2>1. lost \cup {x} \in SUBSET BlocksAt(sch, t)
    BY <1>1 DEF BlocksAt
  <2> QED BY <2>1, TurnTolerant
<1>2. CASE TurnOf(sch, x) # t
  <2>1. PICK i \in Groups(sch) : x \in Members(sch, i)
    BY BlockInGroup
  <2>2. i \notin Touched(sch, lost)
    <3> SUFFICES ASSUME NEW y \in lost, y \in Members(sch, i) PROVE FALSE
      BY DEF Touched
    <3>1. TurnOf(sch, x) = TurnOf(sch, y)
      BY <2>1, SameTurn
    <3> QED BY <1>2, <3>1 DEF BlocksAt
  <2>3. Recoverable(sch, lost) /\ lost \in SUBSET Blocks(sch)
    BY TurnTolerant DEF BlocksAt
  <2> QED BY <2>1, <2>2, <2>3, AnotherGroup
<1> QED BY <1>1, <1>2

-----------------------------------------------------------------------------
(* What the calls leave in each AZ                                         *)

(* The most blocks a Random call puts in AZ a, with those it has put there.*)
AreaOf(c, a) ==
  LET sch == site.calls[c] IN
  IF sch.code = "RS" THEN sch.k
  ELSE sch.g + Cardinality({i \in 0..(sch.l - 1) : Members(sch, i) \cap BlocksIn(c, a) # {}})

AreaKept ==
  \A c \in 1..Len(site.calls) : Drawn(site.calls[c]) =>
    \A a \in AZs : Cardinality(BlocksIn(c, a)) <= AreaOf(c, a)

(* The calls that returned placed every block, and a call of none of the   *)
(* branches places none.                                                   *)
Settled ==
  \A c \in 1..Len(site.calls) :
    /\ c < call => Placed(c) = Blocks(site.calls[c])
    /\ ~Drawn(site.calls[c]) /\ ~Rounded(site.calls[c]) => Placed(c) = {}

(* The blocks of a turn share an AZ ...                                    *)
TurnsTogether ==
  \A c \in 1..Len(site.calls) : Rounded(site.calls[c]) =>
    \A x, y \in Placed(c) :
      TurnOf(site.calls[c], x) = TurnOf(site.calls[c], y) => nodes[c][x][1] = nodes[c][y][1]

(* ... which is that of no other turn.                                     *)
TurnsApart ==
  \A c \in 1..Len(site.calls) : Rounded(site.calls[c]) =>
    \A x, y \in Placed(c) :
      TurnOf(site.calls[c], x) # TurnOf(site.calls[c], y) => nodes[c][x][1] # nodes[c][y][1]

Outcome == Settled /\ AreaKept /\ TurnsTogether

LEMMA InitOutcome == Init => Outcome /\ TurnsApart
<1> SUFFICES ASSUME Init PROVE Outcome /\ TurnsApart
  OBVIOUS
<1>1. site \in Deployments /\ call = 1
      /\ \A c \in 1..Len(site.calls) : Placed(c) = {} /\ IsScheme(site.calls[c])
  BY SiteFacts DEF Init, Placed
<1>2. Settled
  BY <1>1 DEF Settled
<1>3. AreaKept
  <2> SUFFICES ASSUME NEW c \in 1..Len(site.calls), NEW a \in AZs
               PROVE  Cardinality(BlocksIn(c, a)) <= AreaOf(c, a)
    BY DEF AreaKept
  <2> DEFINE sch == site.calls[c]
             gs == {i \in 0..(sch.l - 1) : Members(sch, i) \cap BlocksIn(c, a) # {}}
  <2>1. BlocksIn(c, a) = {}
    BY <1>1 DEF BlocksIn
  <2>2. Cardinality(BlocksIn(c, a)) = 0 /\ gs = {} /\ Cardinality(gs) = 0
    BY <2>1, FS_EmptySet
  <2>3. sch.k \in Nat /\ sch.g \in Nat
    BY <1>1 DEF IsScheme
  <2>4. AreaOf(c, a) = IF sch.code = "RS" THEN sch.k ELSE sch.g + Cardinality(gs)
    BY DEF AreaOf
  <2> HIDE DEF gs, sch
  <2> QED BY <2>2, <2>3, <2>4
<1>4. TurnsTogether /\ TurnsApart
  BY <1>1 DEF TurnsTogether, TurnsApart
<1> QED BY <1>2, <1>3, <1>4 DEF Outcome

(* An accepted draw finds the AZ with room, and groups that are there stay.*)
LEMMA DrawnArea ==
  ASSUME Shape, AreaKept, PlaceRandom
  PROVE  AreaKept'
<1>1. /\ call \in 1..Len(site.calls) /\ IsScheme(Scheme)
      /\ Drawn(Scheme) /\ site' = site /\ AZs' = AZs
  BY DrawFacts DEF AZs
<1>2. PICK m \in Nat, n \in Free :
        /\ ~Full(n[1])
        /\ m < Size(Scheme) /\ Placed(call) = 0..(m - 1)
        /\ DOMAIN nodes' = 1..Len(site.calls)
        /\ \A c \in 1..Len(site.calls) : c # call => nodes'[c] = nodes[c]
        /\ DOMAIN nodes'[call] = DOMAIN nodes[call] \cup {m}
        /\ nodes'[call][m] = n
        /\ \A x \in DOMAIN nodes[call] : nodes'[call][x] = nodes[call][x]
  BY DrawFacts
<1>3. SUFFICES ASSUME NEW c \in 1..Len(site.calls), Drawn(site.calls[c]), NEW a \in AZs
               PROVE  Cardinality(BlocksIn(c, a)') <= AreaOf(c, a)'
  BY <1>1 DEF AreaKept
<1>4. Cardinality(BlocksIn(c, a)) <= AreaOf(c, a)
  BY <1>3 DEF AreaKept
<1>5. CASE c # call
  <2>1. BlocksIn(c, a)' = BlocksIn(c, a)
    BY <1>2, <1>5 DEF BlocksIn, Placed
  <2>2. AreaOf(c, a)' = AreaOf(c, a)
    BY <1>1, <2>1 DEF AreaOf
  <2> QED BY <1>4, <2>1, <2>2
<1>6. CASE c = call
  <2> DEFINE old == BlocksIn(c, a)
             new == BlocksIn(c, a)'
             sch == site.calls[c]
             gs(S) == {i \in 0..(sch.l - 1) : Members(sch, i) \cap S # {}}
  <2>1. sch = Scheme /\ IsScheme(sch)
    BY <1>1, <1>6 DEF Scheme
  <2>2. /\ sch.k \in Nat /\ sch.g \in Nat /\ sch.l \in Nat /\ sch.l - 1 \in Int
    BY <2>1 DEF IsScheme
  <2>3. IsFiniteSet(old) /\ Cardinality(old) \in Nat
    <3>1. old \in SUBSET (0..(m - 1))
      BY <1>2, <1>6 DEF BlocksIn
    <3>2. IsFiniteSet(0..(m - 1))
      <4>1. m - 1 \in Int
        OBVIOUS
      <4> QED BY <4>1, FS_Interval
    <3> QED BY <3>1, <3>2, FS_Subset, FS_CardinalityType
  <2>4. \A S : IsFiniteSet(gs(S)) /\ Cardinality(gs(S)) \in Nat
    <3>1. IsFiniteSet(0..(sch.l - 1))
      <4> DEFINE e == sch.l - 1
      <4>1. e \in Int
        BY <2>2
      <4> HIDE DEF e
      <4>2. IsFiniteSet(0..e)
        BY <4>1, FS_Interval
      <4> QED BY <4>2 DEF e
    <3>2. \A S : gs(S) \in SUBSET (0..(sch.l - 1))
      OBVIOUS
    <3> HIDE DEF gs
    <3> QED BY <3>1, <3>2, FS_Subset, FS_CardinalityType
  <2>5. /\ AreaOf(c, a) = IF sch.code = "RS" THEN sch.k ELSE sch.g + Cardinality(gs(old))
        /\ AreaOf(c, a)' = IF sch.code = "RS" THEN sch.k ELSE sch.g + Cardinality(gs(new))
    BY <1>1 DEF AreaOf
  <2>6. new = IF n[1] = a THEN old \cup {m} ELSE old
    <3>1. \A x : x \in new <=> (x \in old \/ (x = m /\ n[1] = a))
      <4>1. \A x : x \in new <=> x \in DOMAIN nodes'[call] /\ nodes'[call][x][1] = a
        BY <1>6 DEF BlocksIn, Placed
      <4>2. \A x : x \in old <=> x \in DOMAIN nodes[call] /\ nodes[call][x][1] = a
        BY <1>6 DEF BlocksIn, Placed
      <4> HIDE DEF new, old
      <4>3. m \notin DOMAIN nodes[call]
        BY <1>2 DEF Placed
      <4> QED BY <1>2, <4>1, <4>2, <4>3
    <3> HIDE DEF new, old
    <3> QED BY <3>1
  <2>7. Cardinality(gs(old)) <= Cardinality(gs(new))
    <3>1. gs(old) \in SUBSET gs(new)
      <4> HIDE DEF new, old
      <4> QED BY <2>6
    <3> HIDE DEF gs, new, old
    <3> QED BY <2>4, <3>1, FS_Subset
  <2>8. CASE n[1] # a
    <3> HIDE DEF gs, new, old
    <3> QED BY <1>4, <2>2, <2>3, <2>4, <2>5, <2>6, <2>7, <2>8 DEF old, new
  <2>9. CASE n[1] = a
    <3>1. Cardinality(old) # AreaOf(c, a)
      <4>1. gs(old) = GroupsIn(a)
        BY <1>6, <2>1 DEF GroupsIn
      <4> HIDE DEF gs
      <4>2. Full(a) <=> Cardinality(old) = AreaOf(c, a)
        BY <1>6, <2>1, <2>5, <4>1 DEF Full, AreaUpper
      <4> QED BY <1>2, <2>9, <4>2
    <3>2. Cardinality(new) <= Cardinality(old) + 1 /\ Cardinality(new) \in Nat
      <4> HIDE DEF new, old
      <4>1. new = old \cup {m}
        BY <2>6, <2>9
      <4>2. /\ IsFiniteSet(old \cup {m})
            /\ Cardinality(old \cup {m}) = IF m \in old THEN Cardinality(old) ELSE Cardinality(old) + 1
        BY <2>3, FS_AddElement
      <4> QED BY <2>3, <4>1, <4>2
    <3>3. Cardinality(old) <= AreaOf(c, a)
      BY <1>4
    <3> HIDE DEF gs, new, old
    <3>4. Cardinality(new) <= AreaOf(c, a)'
      <4> DEFINE was == AreaOf(c, a)
                 is == AreaOf(c, a)'
      <4>1. is \in Nat /\ was \in Nat /\ was <= is
        <5>1. Cardinality(gs(old)) \in Nat /\ Cardinality(gs(new)) \in Nat
          BY <2>4
        <5>2. sch.k \in Nat /\ sch.g \in Nat
          BY <2>2
        <5> HIDE DEF sch
        <5>3. CASE sch.code = "RS"
          <6>1. was = sch.k /\ is = sch.k
            BY <2>5, <5>3
          <6> QED BY <5>2, <6>1
        <5>4. CASE sch.code # "RS"
          <6>1. was = sch.g + Cardinality(gs(old)) /\ is = sch.g + Cardinality(gs(new))
            BY <2>5, <5>4
          <6> HIDE DEF was, is
          <6> QED BY <2>7, <5>1, <5>2, <6>1
        <5> QED BY <5>3, <5>4
      <4>2. /\ Cardinality(old) # was /\ Cardinality(old) <= was /\ Cardinality(old) \in Nat
            /\ Cardinality(new) <= Cardinality(old) + 1 /\ Cardinality(new) \in Nat
        BY <2>3, <3>1, <3>2, <3>3
      <4> HIDE DEF was, is
      <4>3. Cardinality(new) <= is
        BY <4>1, <4>2
      <4> QED BY <4>3 DEF is
    <3> QED BY <3>4 DEF new
  <2> QED BY <2>8, <2>9
<1> QED BY <1>5, <1>6

(* The calls that are not being made stay as they are.                     *)
LEMMA OtherCalls ==
  ASSUME site' = site, NEW c \in 1..Len(site.calls), nodes'[c] = nodes[c]
  PROVE  /\ Placed(c)' = Placed(c)
         /\ \A a : BlocksIn(c, a)' = BlocksIn(c, a) /\ AreaOf(c, a)' = AreaOf(c, a)
<1>1. Placed(c)' = Placed(c) /\ \A a : BlocksIn(c, a)' = BlocksIn(c, a)
  BY DEF Placed, BlocksIn
<1>2. ASSUME NEW a PROVE AreaOf(c, a)' = AreaOf(c, a)
  <2>1. BlocksIn(c, a)' = BlocksIn(c, a)
    BY <1>1
  <2> QED BY <2>1 DEF AreaOf
<1> QED BY <1>1, <1>2

LEMMA Unmoved ==
  ASSUME UNCHANGED <<site, nodes>>
  PROVE  /\ AreaKept => AreaKept'
         /\ TurnsTogether => TurnsTogether'
         /\ TurnsApart => TurnsApart'
<1>1. AreaKept => AreaKept'
  <2>1. AZs' = AZs
    BY DEF AZs
  <2> QED BY <2>1, OtherCalls DEF AreaKept
<1>2. (TurnsTogether => TurnsTogether') /\ (TurnsApart => TurnsApart')
  BY DEF TurnsTogether, TurnsApart, Placed
<1> QED BY <1>1, <1>2

LEMMA OutcomeStep == Shape /\ Outcome /\ [Next]_vars => Outcome'
<1> SUFFICES ASSUME Shape, Outcome, [Next]_vars PROVE Outcome'
  OBVIOUS
<1>1. Settled /\ AreaKept /\ TurnsTogether
      /\ call \in 1..(Len(site.calls) + 1) /\ Len(site.calls) \in Nat
  BY SiteFacts DEF Outcome, Shape, TypeOK
<1>2. CASE PlaceRandom
  <2>1. /\ call \in 1..Len(site.calls) /\ Drawn(Scheme) /\ ~Rounded(Scheme)
        /\ site' = site /\ call' = call
        /\ \A c \in 1..Len(site.calls) : c # call => nodes'[c] = nodes[c]
    BY <1>2, DrawFacts
  <2>2. Settled'
    BY <1>1, <2>1 DEF Settled, Placed, Scheme
  <2>3. TurnsTogether'
    BY <1>1, <2>1 DEF TurnsTogether, Placed, Scheme
  <2> QED BY <1>1, <1>2, <2>2, <2>3, DrawnArea DEF Outcome
<1>3. CASE PlaceTurn
  <2>1. /\ call \in 1..Len(site.calls) /\ ~Drawn(Scheme) /\ Rounded(Scheme)
        /\ site' = site /\ call' = call
        /\ \A c \in 1..Len(site.calls) : c # call => nodes'[c] = nodes[c]
    BY <1>3, TurnFacts DEF PlaceTurn
  <2>2. Settled'
    BY <1>1, <2>1 DEF Settled, Placed, Scheme
  <2>3. AreaKept'
    <3> SUFFICES ASSUME NEW c \in 1..Len(site.calls), Drawn(site.calls[c]), NEW a \in AZs
                 PROVE  Cardinality(BlocksIn(c, a)') <= AreaOf(c, a)'
      BY <2>1 DEF AreaKept, AZs
    <3>1. c # call
      BY <2>1 DEF Scheme
    <3>2. BlocksIn(c, a)' = BlocksIn(c, a) /\ AreaOf(c, a)' = AreaOf(c, a)
      BY <2>1, <3>1, OtherCalls
    <3> QED BY <1>1, <3>2 DEF AreaKept
  <2>4. TurnsTogether'
    <3>1. ASSUME NEW c \in 1..Len(site.calls), Rounded(site.calls[c]),
                 NEW x \in DOMAIN nodes'[c], NEW y \in DOMAIN nodes'[c],
                 TurnOf(site.calls[c], x) = TurnOf(site.calls[c], y)
          PROVE  nodes'[c][x][1] = nodes'[c][y][1]
      <4>1. CASE c # call
        BY <1>1, <2>1, <3>1, <4>1 DEF TurnsTogether, Placed
      <4>2. CASE c = call
        <5> DEFINE new == BlocksAt(Scheme, turn)
        <5>1. /\ DOMAIN nodes'[call] = Placed(call) \cup new
              /\ \A z \in new : nodes'[call][z][1] = curAz /\ TurnOf(Scheme, z) = turn
              /\ \A z \in Placed(call) : nodes'[call][z] = nodes[call][z]
          BY <1>3, <2>1, TurnFacts DEF BlocksAt
        <5>2. turn \in Nat /\ \A z \in Placed(call) : TurnOf(Scheme, z) \in 0..(turn - 1)
          BY <2>1, <1>1 DEF Shape, TypeOK, PlacedSoFar
        <5>3. \A u, v \in Placed(call) :
                TurnOf(Scheme, u) = TurnOf(Scheme, v) => nodes[call][u][1] = nodes[call][v][1]
          BY <1>1, <2>1 DEF TurnsTogether, Scheme
        <5>4. Scheme = site.calls[c]
          BY <4>2 DEF Scheme
        <5> HIDE DEF new
        <5>5. x \in new <=> y \in new
          BY <3>1, <4>2, <5>1, <5>2, <5>4
        <5> QED BY <3>1, <4>2, <5>1, <5>3, <5>4, <5>5
      <4> QED BY <4>1, <4>2
    <3> QED BY <2>1, <3>1 DEF TurnsTogether, Placed
  <2> QED BY <2>2, <2>3, <2>4 DEF Outcome
<1>4. CASE Return
  <2>1. /\ call \in 1..Len(site.calls) /\ call' = call + 1
        /\ Placed(call) = Blocks(site.calls[call]) /\ UNCHANGED <<site, nodes>>
    BY <1>1, <1>4 DEF Return, Scheme
  <2>2. Settled'
    <3> SUFFICES ASSUME NEW c \in 1..Len(site.calls)
                 PROVE  /\ c < call' => Placed(c)' = Blocks(site.calls[c])
                        /\ ~Drawn(site.calls[c]) /\ ~Rounded(site.calls[c]) => Placed(c)' = {}
      BY <2>1 DEF Settled
    <3>1. Placed(c)' = Placed(c)
      BY <2>1 DEF Placed
    <3>2. c < call' => c < call \/ c = call
      BY <2>1
    <3> QED BY <1>1, <2>1, <3>1, <3>2 DEF Settled
  <2> QED BY <1>1, <2>1, <2>2, Unmoved DEF Outcome
<1>5. CASE DrawAgain \/ Finished \/ UNCHANGED vars
  <2>1. UNCHANGED <<site, call, nodes>>
    BY <1>5 DEF DrawAgain, Finished, vars
  <2>2. Settled'
    BY <1>1, <2>1 DEF Settled, Placed
  <2> QED BY <1>1, <2>1, <2>2, Unmoved DEF Outcome
<1> QED BY <1>2, <1>3, <1>4, <1>5 DEF Next

(* The turns of a call are of different AZs while the round of the AZs     *)
(* meets none twice.                                                       *)
LEMMA ApartStep ==
  ASSUME Wide
  PROVE  Inv /\ TurnsApart /\ [Next]_vars => TurnsApart'
<1> SUFFICES ASSUME Inv, TurnsApart, [Next]_vars PROVE TurnsApart'
  OBVIOUS
<1>1. Shape /\ RoundInv /\ DistinctNodes
  BY DEF Inv
<1>2. CASE PlaceRandom
  <2>1. /\ call \in 1..Len(site.calls) /\ ~Rounded(Scheme) /\ site' = site
        /\ \A c \in 1..Len(site.calls) : c # call => nodes'[c] = nodes[c]
    BY <1>1, <1>2, DrawFacts
  <2> QED BY <2>1 DEF TurnsApart, Placed, Scheme
<1>3. CASE PlaceTurn
  <2>1. /\ call \in 1..Len(site.calls) /\ Rounded(Scheme) /\ site' = site /\ call' = call
        /\ \A c \in 1..Len(site.calls) : c # call => nodes'[c] = nodes[c]
    BY <1>1, <1>3, TurnFacts DEF PlaceTurn
  <2>2. Shape' /\ RoundInv'
    BY <1>1, <1>3, TurnShape, TurnDistinct
  <2>3. /\ site.azs \in Nat \ {0} /\ Len(site.calls) \in Nat /\ call \in Nat
    BY <1>1, <2>1, SiteFacts DEF Shape, TypeOK
  <2>4. /\ turn' <= site.azs /\ turn' \in Nat
        /\ \A x \in DOMAIN nodes'[call] : TurnOf(Scheme, x) \in 0..(turn' - 1)
    BY <2>1, <2>2, <2>3 DEF Shape, TypeOK, PlacedSoFar, RoundInv, Placed, Scheme
  <2>5. PICK start \in 0..(site.azs - 1) :
          \A x \in DOMAIN nodes'[call] :
            nodes'[call][x][1] = (start + TurnOf(Scheme, x)) % site.azs
    BY <2>1, <2>2, <2>3 DEF RoundInv, RoundFrom, Placed, Scheme, AZs
  <2>6. ASSUME NEW x \in DOMAIN nodes'[call], NEW y \in DOMAIN nodes'[call],
               TurnOf(Scheme, x) # TurnOf(Scheme, y)
        PROVE  nodes'[call][x][1] # nodes'[call][y][1]
    <3>1. TurnOf(Scheme, x) \in 0..(site.azs - 1) /\ TurnOf(Scheme, y) \in 0..(site.azs - 1)
      BY <2>3, <2>4
    <3>2. (start + TurnOf(Scheme, x)) % site.azs # (start + TurnOf(Scheme, y)) % site.azs
      BY <2>3, <2>6, <3>1, OffsetsDiffer
    <3> QED BY <2>5, <3>2
  <2> QED BY <2>1, <2>6 DEF TurnsApart, Placed, Scheme
<1>4. CASE Return \/ DrawAgain \/ Finished \/ UNCHANGED vars
  <2>1. UNCHANGED <<site, nodes>>
    BY <1>4 DEF Return, DrawAgain, Finished, vars
  <2> QED BY <2>1, Unmoved
<1> QED BY <1>2, <1>3, <1>4 DEF Next

LEMMA DoneFacts ==
  ASSUME TypeOK, Settled, NEW c \in Done
  PROVE  /\ c \in 1..Len(site.calls) /\ IsScheme(site.calls[c])
         /\ Placed(c) = Blocks(site.calls[c])
         /\ Drawn(site.calls[c]) \/ Rounded(site.calls[c])
<1>1. c \in 1..Len(site.calls) /\ c < call /\ IsScheme(site.calls[c])
  BY SiteFacts DEF TypeOK, Done
<1>2. Placed(c) = Blocks(site.calls[c])
  BY <1>1 DEF Settled
<1>3. Blocks(site.calls[c]) # {}
  <2>1. 0 \in Blocks(site.calls[c])
    <3> DEFINE sch == site.calls[c]
    <3>1. sch.k \in Nat \ {0} /\ sch.g \in Nat /\ Size(sch) \in Nat
          /\ sch.k + sch.g <= Size(sch)
      BY <1>1, BlocksAreNumbers DEF IsScheme
    <3> HIDE DEF sch
    <3>2. 0 \in Blocks(sch)
      BY <3>1 DEF Blocks
    <3> QED BY <3>2 DEF sch
  <2> QED BY <2>1
<1>4. Drawn(site.calls[c]) \/ Rounded(site.calls[c])
  BY <1>1, <1>2, <1>3 DEF Settled
<1> QED BY <1>1, <1>2, <1>4

LEMMA OutcomeIsLocal == TypeOK /\ Outcome => RepairIsLocal
<1> SUFFICES ASSUME TypeOK, Settled, TurnsTogether, NEW c \in Done,
                    NEW i \in Groups(site.calls[c]),
                    \/ site.calls[c].code = "OPPO_LRC"
                    \/ /\ site.calls[c].place = "Best_Placement"
                       /\ i = site.calls[c].l \/ site.calls[c].b <= site.calls[c].g
             PROVE  \E a \in AZs : Members(site.calls[c], i) \subseteq BlocksIn(c, a)
  BY DEF Outcome, RepairIsLocal
<1> DEFINE sch == site.calls[c]
<1>1. /\ c \in 1..Len(site.calls) /\ IsScheme(sch) /\ Placed(c) = Blocks(sch)
      /\ Drawn(sch) \/ Rounded(sch)
  BY DoneFacts
<1>2. Rounded(sch) /\ sch.code # "RS"
  BY <1>1 DEF Drawn, Rounded
<1>3. Members(sch, i) \subseteq Placed(c)
  BY <1>1, <1>2, MembersAreBlocks
<1>4. \A x, y \in Members(sch, i) : nodes[c][x][1] = nodes[c][y][1]
  <2>1. \A x, y \in Members(sch, i) : TurnOf(sch, x) = TurnOf(sch, y)
    BY <1>1, <1>2, SameTurn
  <2> QED BY <1>1, <1>2, <1>3, <2>1 DEF TurnsTogether
<1>5. CASE Members(sch, i) = {}
  <2>1. 0 \in AZs
    BY SiteFacts DEF TypeOK, AZs
  <2> QED BY <1>5, <2>1
<1>6. CASE Members(sch, i) # {}
  <2>1. PICK x \in Members(sch, i) : TRUE
    BY <1>6
  <2>2. nodes[c][x][1] \in AZs
    BY <1>1, <1>3 DEF TypeOK
  <2>3. Members(sch, i) \subseteq BlocksIn(c, nodes[c][x][1])
    BY <1>3, <1>4 DEF BlocksIn
  <2> QED BY <2>2, <2>3
<1> QED BY <1>5, <1>6

LEMMA DrawnTolerant ==
  ASSUME TypeOK, Outcome, NEW c \in Done, Drawn(site.calls[c]),
         site.calls[c].code = "RS" => site.calls[c].k <= site.calls[c].g,
         NEW a \in AZs
  PROVE  Recoverable(site.calls[c], BlocksIn(c, a))
<1> DEFINE sch == site.calls[c]
           lost == BlocksIn(c, a)
           gs == {i \in 0..(sch.l - 1) : Members(sch, i) \cap lost # {}}
<1>1. c \in 1..Len(site.calls) /\ IsScheme(sch) /\ Placed(c) = Blocks(sch)
  BY DoneFacts DEF Outcome
<1>2. sch.k \in Nat /\ sch.g \in Nat
  BY <1>1 DEF IsScheme
<1>3. Cardinality(lost) <= IF sch.code = "RS" THEN sch.k ELSE sch.g + Cardinality(gs)
  <2>1. Cardinality(lost) <= AreaOf(c, a)
    BY <1>1 DEF Outcome, AreaKept
  <2> QED BY <2>1 DEF AreaOf
<1>4. Cardinality(lost) \in Nat
  <2>1. lost \in SUBSET Blocks(sch)
    BY <1>1 DEF BlocksIn
  <2> QED BY <1>1, <2>1, BlocksAreNumbers, FS_Subset, FS_CardinalityType
<1>5. IsFiniteSet(Touched(sch, lost)) /\ Cardinality(Touched(sch, lost)) \in Nat
  BY <1>1, TouchedFacts
<1>6. CASE sch.code = "RS"
  <2> HIDE DEF lost, gs
  <2>1. sch.k <= sch.g
    BY <1>6
  <2>2. Cardinality(lost) - Cardinality(Touched(sch, lost)) <= sch.g
    BY <1>2, <1>3, <1>4, <1>5, <1>6, <2>1
  <2> QED BY <2>2 DEF Recoverable, lost
<1>7. CASE sch.code # "RS"
  <2>1. sch.code = "Azure_LRC_1"
    BY <1>7 DEF Drawn
  <2>2. gs \in SUBSET Touched(sch, lost)
    <3> SUFFICES ASSUME NEW i \in gs PROVE i \in Touched(sch, lost)
      OBVIOUS
    <3>1. i \in Groups(sch)
      BY <1>1, <2>1, AzureFacts
    <3> QED BY <3>1 DEF Touched
  <2>3. Cardinality(gs) \in Nat /\ Cardinality(gs) <= Cardinality(Touched(sch, lost))
    <3> HIDE DEF gs
    <3> QED BY <1>5, <2>2, FS_Subset, FS_CardinalityType
  <2> HIDE DEF lost, gs
  <2>4. Cardinality(lost) - Cardinality(Touched(sch, lost)) <= sch.g
    BY <1>2, <1>3, <1>4, <1>5, <1>7, <2>3
  <2> QED BY <2>4 DEF Recoverable, lost
<1> QED BY <1>6, <1>7

(* All an AZ holds of a stripe placed in turns is the blocks of one turn.   *)
LEMMA InOneTurn ==
  ASSUME TypeOK, Settled, TurnsApart, NEW c \in Done, Rounded(site.calls[c]), NEW a \in AZs
  PROVE  \E t : BlocksIn(c, a) \in SUBSET BlocksAt(site.calls[c], t)
<1> DEFINE sch == site.calls[c]
<1>1. c \in 1..Len(site.calls) /\ Placed(c) = Blocks(sch)
  BY DoneFacts
<1>2. CASE BlocksIn(c, a) = {}
  BY <1>2
<1>3. CASE BlocksIn(c, a) # {}
  <2>1. PICK x \in BlocksIn(c, a) : TRUE
    BY <1>3
  <2>2. \A y \in BlocksIn(c, a) : y \in Blocks(sch) /\ TurnOf(sch, y) = TurnOf(sch, x)
    BY <1>1 DEF BlocksIn, TurnsApart
  <2>3. BlocksIn(c, a) \in SUBSET BlocksAt(sch, TurnOf(sch, x))
    BY <2>2 DEF BlocksAt
  <2> QED BY <2>3
<1> QED BY <1>2, <1>3

-----------------------------------------------------------------------------
(* A lost block of an OPPO_LRC group, of the group of the global parities  *)
(* and, at Best_Placement, of any group no larger than g is rebuilt inside  *)
(* one AZ (generate_repair_plan): the group is placed in one turn, and a    *)
(* turn in one AZ.  No condition on the deployment is needed.               *)
THEOREM RepairsLocal == Spec => []RepairIsLocal
<1>1. Init => Shape /\ Outcome
  BY InitInv, InitOutcome DEF Inv
<1>2. Shape /\ Outcome /\ [Next]_vars => (Shape /\ Outcome)'
  BY ShapeStep, OutcomeStep
<1>3. Shape /\ Outcome => RepairIsLocal
  BY OutcomeIsLocal DEF Shape
<1> QED BY <1>1, <1>2, <1>3, PTL DEF Spec

(* What area_upper is there for: a stripe of Azure_LRC_1 placed at Random   *)
(* survives the loss of any one AZ, in every deployment.                    *)
THEOREM RandomTolerant ==
  Spec => [](\A c \in Done :
               /\ site.calls[c].code = "Azure_LRC_1"
               /\ site.calls[c].place = "Random"
               => \A a \in AZs : Recoverable(site.calls[c], BlocksIn(c, a)))
<1>1. Init => Shape /\ Outcome
  BY InitInv, InitOutcome DEF Inv
<1>2. Shape /\ Outcome /\ [Next]_vars => (Shape /\ Outcome)'
  BY ShapeStep, OutcomeStep
<1>3. Shape /\ Outcome =>
        \A c \in Done :
          /\ site.calls[c].code = "Azure_LRC_1"
          /\ site.calls[c].place = "Random"
          => \A a \in AZs : Recoverable(site.calls[c], BlocksIn(c, a))
  BY DrawnTolerant DEF Shape, Drawn
<1> QED BY <1>1, <1>2, <1>3, PTL DEF Spec

(* RS at Random may put k blocks in an AZ, which g parities make up for    *)
(* only if k is no larger.                                                 *)
FewData ==
  \A d \in Deployments : \A c \in 1..Len(d.calls) :
    d.calls[c].code = "RS" => d.calls[c].k <= d.calls[c].g

(* A stripe survives the loss of any one AZ, whichever branch placed it     *)
(* (OPPO_LRC gives no such promise): its blocks there are of one turn, a    *)
(* turn of pieces has at most g + 1 of one group, a turn of whole groups at *)
(* most g data blocks, and each local parity stands in for one of them.     *)
THEOREM AzLossSurvived ==
  ASSUME Wide, FewData
  PROVE  Spec => []AzTolerant
<1>1. Init => Inv /\ Outcome /\ TurnsApart
  BY InitInv, InitOutcome
<1>2. Inv /\ Outcome /\ TurnsApart /\ [Next]_vars => (Inv /\ Outcome /\ TurnsApart)'
  BY InvStep, OutcomeStep, ApartStep DEF Inv
<1>3. Inv /\ Outcome /\ TurnsApart => AzTolerant
  <2> SUFFICES ASSUME TypeOK, Outcome, Settled, TurnsApart, NEW c \in Done,
                      site.calls[c].code # "OPPO_LRC", NEW a \in AZs
               PROVE  Recoverable(site.calls[c], BlocksIn(c, a))
    BY DEF Inv, Shape, Outcome, AzTolerant
  <2>1. /\ c \in 1..Len(site.calls) /\ IsScheme(site.calls[c])
        /\ Drawn(site.calls[c]) \/ Rounded(site.calls[c])
    BY DoneFacts
  <2>2. CASE Drawn(site.calls[c])
    BY <2>1, <2>2, DrawnTolerant DEF FewData, TypeOK
  <2>3. CASE Rounded(site.calls[c])
    BY <2>1, <2>3, InOneTurn, TurnTolerant DEF Rounded
  <2> QED BY <2>1, <2>2, <2>3
<1> QED BY <1>1, <1>2, <1>3, PTL DEF Spec

(* The requirement on Best_Placement, any one AZ and one more block, holds  *)
(* where groups are no larger than g.                                       *)
THEOREM SmallGroupsSurvive ==
  ASSUME Wide
  PROVE  Spec => []SmallGroupsTolerant
<1>1. Init => Inv /\ Outcome /\ TurnsApart
  BY InitInv, InitOutcome
<1>2. Inv /\ Outcome /\ TurnsApart /\ [Next]_vars => (Inv /\ Outcome /\ TurnsApart)'
  BY InvStep, OutcomeStep, ApartStep DEF Inv
<1>3. Inv /\ Outcome /\ TurnsApart => SmallGroupsTolerant
  <2> SUFFICES ASSUME TypeOK, Settled, TurnsApart, NEW c \in Done,
                      site.calls[c].code = "Azure_LRC_1",
                      site.calls[c].place = "Best_Placement",
                      site.calls[c].b <= site.calls[c].g,
                      NEW a \in AZs, NEW x \in Blocks(site.calls[c])
               PROVE  Recoverable(site.calls[c], BlocksIn(c, a) \cup {x})
    BY DEF Inv, Shape, Outcome, SmallGroupsTolerant, SurvivesAzAndBlock
  <2>1. IsScheme(site.calls[c]) /\ Rounded(site.calls[c])
    BY DoneFacts DEF Rounded
  <2> QED BY <2>1, InOneTurn, TurnAndBlock
<1> QED BY <1>1, <1>2, <1>3, PTL DEF Spec
=============================================================================
