------------------------ MODULE SmallObjects_proofs ------------------------
(***************************************************************************)
(* Proofs about SmallObjects for every number of keys, values, buffers,    *)
(* proxies, sets and gets.  With any number of clients, threads of the     *)
(* proxies may come late, take each other's connections and read short     *)
(* values: what the coordinator gives out does not depend on them.  With   *)
(* one client and semaphores that start at zero, the setting of run_client, *)
(* the proxies and the coordinator agree.                                  *)
(***************************************************************************)
EXTENDS SmallObjectsInv, FiniteSetTheorems, WellFoundedInduction, TLAPS

USE DEF clientVars, tableVars, stripeVars, coordVars, getVars, bufVars, nodeVars

-----------------------------------------------------------------------------
(* What the invariant of any number of clients reads.                      *)
invVars == <<sets, job, curStripe, nextStripe, bufRest, commit, updating>>

-----------------------------------------------------------------------------
LEMMA SizeFacts ==
  /\ K \in Nat /\ 0 \in Buffers
  /\ ShardSize \in Nat
  /\ \A v \in Vals : Size[v] \in 1..ShardSize
BY SizeAssumption DEF Buffers

LEMMA InitInv == Init => Inv
<1> SUFFICES ASSUME Init PROVE Inv
  OBVIOUS
<1>1. JobShape
  BY SizeFacts DEF Init, JobShape, IsJob, Unused
<1>2. CountShape
  BY SizeFacts DEF Init, CountShape
<1>3. OnePlacing /\ RoomKept /\ SlotInv
  BY DEF Init, OnePlacing, RoomKept, SlotInv, Recorded, Placing, Unused
<1>4. TableInv
  BY DEF Init, TableInv, IsEntry
<1> QED BY <1>1, <1>2, <1>3, <1>4 DEF Inv

(* Nothing else is read by the invariant.                                  *)
LEMMA Elsewhere == Inv /\ UNCHANGED invVars => Inv'
BY DEF Inv, invVars, JobShape, CountShape, OnePlacing, RoomKept, SlotInv, TableInv,
       Recorded, IsJob, IsSlot, Apart, IsEntry

(* A handler or a thread goes on, keys, values and objects stay.           *)
LEMMA Onward ==
  ASSUME Inv, NEW j \in Jobs,
         \A i \in Jobs \ {j} : job'[i] = job[i],
         DOMAIN job' = Jobs, IsJob(job'[j]),
         job[j].upc # "unused",
         job'[j].key = job[j].key, job'[j].val = job[j].val,
         job'[j].obj = job[j].obj,
         job'[j].upc \in {"publish", "replied"} <=> job[j].upc \in {"publish", "replied"},
         job'[j].upc \in Placing /\ job[j].upc \notin Placing
           => \A i \in Jobs : job[i].upc \notin Placing,
         job'[j].upc \in {"write", "record"}
           => Size[job[j].val] <= bufRest[job'[j].idx],
         UNCHANGED <<sets, curStripe, nextStripe, bufRest, commit, updating>>
  PROVE  Inv'
<1>1. JobShape'
  BY DEF Inv, JobShape
<1>2. CountShape'
  BY DEF Inv, CountShape
<1>3. OnePlacing'
  BY DEF Inv, OnePlacing
<1>4. RoomKept'
  BY DEF Inv, RoomKept
<1>5. \A i \in Jobs : /\ Recorded(i)' <=> Recorded(i)
                      /\ job'[i].obj = job[i].obj /\ job'[i].key = job[i].key
  BY DEF Recorded
<1>6. SlotInv'
  BY <1>5 DEF Inv, SlotInv, IsSlot, Apart
<1>7. TableInv'
  BY <1>5 DEF Inv, TableInv, IsEntry
<1> QED BY <1>1, <1>2, <1>3, <1>4, <1>6, <1>7 DEF Inv

-----------------------------------------------------------------------------
(* The steps                                                               *)

LEMMA Calling ==
  ASSUME Inv, NEW c \in Clients, NEW k \in KeysOf[c], NEW v \in Vals, Set(c, k, v)
  PROVE  Inv'
<1> DEFINE j == sets + 1
<1>1. j \in Jobs /\ k \in Keys /\ job[j].upc = "unused"
  BY KeysOfAssumption, LimitAssumption DEF Inv, JobShape, Set, Jobs
<1>2. job' = [job EXCEPT ![j].key = k, ![j].val = v, ![j].upc = "erase"]
  BY DEF Set
<1> HIDE DEF j
<1>3. /\ \A i \in Jobs \ {j} : job'[i] = job[i]
      /\ DOMAIN job' = Jobs /\ IsJob(job'[j])
      /\ job'[j].upc = "erase"
  BY <1>1, <1>2 DEF Inv, JobShape, IsJob
<1>4. UNCHANGED <<curStripe, nextStripe, bufRest, commit, updating>> /\ sets' = j
  BY DEF Set, j
<1>5. JobShape'
  BY <1>1, <1>3, <1>4 DEF Inv, JobShape, Jobs, j
<1>6. CountShape' /\ OnePlacing' /\ RoomKept'
  BY <1>1, <1>3, <1>4 DEF Inv, CountShape, OnePlacing, RoomKept, Placing
<1>7. \A i \in Jobs : /\ Recorded(i)' <=> Recorded(i)
                      /\ Recorded(i) => job'[i] = job[i]
  BY <1>1, <1>3 DEF Recorded
<1>8. SlotInv'
  BY <1>4, <1>7 DEF Inv, SlotInv, IsSlot, Apart
<1>9. TableInv'
  BY <1>4, <1>7 DEF Inv, TableInv, IsEntry
<1> QED BY <1>5, <1>6, <1>8, <1>9 DEF Inv

LEMMA Erasing ==
  ASSUME Inv, NEW j \in Jobs, UploadErase(j)
  PROVE  Inv'
<1>1. /\ \A i \in Jobs \ {j} : job'[i] = job[i]
      /\ DOMAIN job' = Jobs /\ IsJob(job'[j])
      /\ job[j].upc = "erase" /\ job'[j].upc = "choose"
      /\ job'[j].key = job[j].key /\ job'[j].val = job[j].val
  BY DEF UploadErase, Inv, JobShape, IsJob
<1>2. UNCHANGED <<sets, curStripe, nextStripe, bufRest, updating>>
  BY DEF UploadErase
<1>3. JobShape' /\ CountShape' /\ OnePlacing' /\ RoomKept'
  BY <1>1, <1>2 DEF Inv, JobShape, CountShape, OnePlacing, RoomKept, Placing
<1>4. \A i \in Jobs : /\ Recorded(i)' <=> Recorded(i)
                      /\ Recorded(i) => job'[i] = job[i]
  BY <1>1 DEF Recorded
<1>5. SlotInv'
  BY <1>2, <1>4 DEF Inv, SlotInv, IsSlot, Apart
<1>6. /\ DOMAIN commit' = Keys
      /\ \A k \in Keys : commit'[k] \in {Absent, commit[k]}
  BY DEF UploadErase, Forget, Inv, TableInv
<1>7. TableInv'
  BY <1>2, <1>4, <1>6 DEF Inv, TableInv, IsEntry
<1> QED BY <1>3, <1>5, <1>7 DEF Inv

(* The loop settles on a buffer that has the room.                         *)
LEMMA ChosenIsRoomy ==
  ASSUME CountShape, NEW n \in Nat, Roomy(n) # {}
  PROVE  Chosen(n) \in Roomy(n)
<1> DEFINE fewer == OpToRel(<, Nat)
           order == LexPairOrdering(fewer, fewer, Nat, Nat)
           room(i) == ShardSize - bufRest[i]
           pairs == {<<room(i), K - i>> : i \in Roomy(n)}
<1>1. \A x, y \in Nat : x < y => <<x, y>> \in fewer
  BY DEF OpToRel
<1>2. IsWellFoundedOn(fewer, Nat)
  BY NatLessThanWellFounded
<1> HIDE DEF fewer
<1>3. IsWellFoundedOn(order, Nat \X Nat)
  <2> SUFFICES IsWellFoundedOn(LexPairOrdering(fewer, fewer, Nat, Nat), Nat \X Nat)
    OBVIOUS
  <2> QED BY <1>2, WFLexPairOrdering
<1>4. ASSUME NEW i \in Roomy(n)
      PROVE  /\ i \in Nat /\ K - i \in Nat
             /\ bufRest[i] \in Nat /\ room(i) \in Nat
  BY SizeFacts DEF Roomy, CountShape, Buffers
<1>5. pairs \subseteq Nat \X Nat /\ pairs # {}
  <2> HIDE DEF order, room
  <2>1. \A i \in Roomy(n) : <<room(i), K - i>> \in Nat \X Nat
    BY <1>4
  <2> QED BY <2>1
<1>6. \E p \in pairs : \A q \in pairs : <<q, p>> \notin order
  <2> HIDE DEF order, pairs
  <2> QED BY <1>3, <1>5, WFMin
<1>7. PICK i \in Roomy(n) : \A q \in pairs : <<q, <<room(i), K - i>>>> \notin order
  BY <1>6
<1>8. ASSUME NEW x \in Roomy(n)
      PROVE  bufRest[x] < bufRest[i] \/ (bufRest[x] = bufRest[i] /\ x <= i)
  <2>1. <<<<room(x), K - x>>, <<room(i), K - i>>>> \notin order
    BY <1>7
  <2> HIDE DEF room
  <2>2. /\ <<room(x), room(i)>> \notin fewer
        /\ room(x) = room(i) => <<K - x, K - i>> \notin fewer
    BY <1>4, <2>1 DEF LexPairOrdering
  <2>3. ~ (room(x) < room(i)) /\ (room(x) = room(i) => ~ (K - x < K - i))
    BY <1>1, <1>4, <2>2
  <2> QED BY <1>4, <2>3, SizeFacts DEF room
<1> HIDE DEF order, pairs, room
<1> QED BY <1>8 DEF Chosen

LEMMA Choosing ==
  ASSUME Inv, NEW j \in Jobs, ChooseBuffer(j),
         \A i \in Jobs : job[i].upc \notin Placing
  PROVE  Inv'
<1> DEFINE n == Size[job[j].val]
<1>1. job[j].upc = "choose" /\ job[j].val \in Vals
  BY DEF ChooseBuffer, Inv, JobShape, IsJob
<1>2. n \in Nat
  BY <1>1, SizeFacts
<1>3. \A i \in Jobs : job[i].upc \notin Placing
  OBVIOUS
<1>4. UNCHANGED <<sets, curStripe, nextStripe, bufRest, commit, updating>>
  BY DEF ChooseBuffer
<1>5. CASE Roomy(n) # {}
  <2>1. Chosen(n) \in Buffers /\ n <= bufRest[Chosen(n)]
    BY <1>2, <1>5, ChosenIsRoomy DEF Inv, Roomy
  <2>2. job' = [job EXCEPT ![j].upc = "write", ![j].idx = Chosen(n)]
    BY <1>5 DEF ChooseBuffer
  <2> HIDE DEF n
  <2>3. /\ \A i \in Jobs \ {j} : job'[i] = job[i]
        /\ DOMAIN job' = Jobs /\ IsJob(job'[j])
        /\ job'[j].upc = "write" /\ job'[j].idx = Chosen(n)
        /\ job'[j].key = job[j].key /\ job'[j].val = job[j].val
        /\ job'[j].obj = job[j].obj
    BY <1>1, <2>1, <2>2 DEF Inv, JobShape, IsJob
  <2>4. {job[j].upc, job'[j].upc} \cap {"publish", "replied"} = {}
    BY <1>1, <2>3
  <2>5. job[j].upc # "unused" /\ n <= bufRest[job'[j].idx]
    BY <1>1, <2>1, <2>3
  <2> QED BY <1>3, <1>4, <2>3, <2>4, <2>5, Onward DEF n
<1>6. CASE Roomy(n) = {}
  <2>1. job' = [job EXCEPT ![j].upc = "roll", ![j].idx = 0]
    BY <1>6 DEF ChooseBuffer
  <2>2. /\ \A i \in Jobs \ {j} : job'[i] = job[i]
        /\ DOMAIN job' = Jobs /\ IsJob(job'[j])
        /\ job'[j].upc = "roll"
        /\ job'[j].key = job[j].key /\ job'[j].val = job[j].val
        /\ job'[j].obj = job[j].obj
    BY <1>1, <2>1, SizeFacts DEF Inv, JobShape, IsJob
  <2>3. {job[j].upc, job'[j].upc} \cap {"publish", "replied"} = {}
    BY <1>1, <2>2
  <2>4. job[j].upc # "unused" /\ job'[j].upc \notin {"write", "record"}
    BY <1>1, <2>2
  <2> QED BY <1>3, <1>4, <2>2, <2>3, <2>4, Onward
<1> QED BY <1>5, <1>6

(* A thread goes on, and no handler.                                       *)
LEMMA Rereading ==
  ASSUME Inv, DOMAIN job' = Jobs,
         \A i \in Jobs : /\ job'[i].upc = job[i].upc /\ job'[i].idx = job[i].idx
                         /\ job'[i].obj = job[i].obj
                         /\ job'[i].key = job[i].key /\ job'[i].val = job[i].val,
         \A i \in Jobs : IsJob(job'[i]),
         UNCHANGED <<sets, curStripe, nextStripe, bufRest, commit, updating>>
  PROVE  Inv'
<1>1. JobShape' /\ CountShape' /\ OnePlacing' /\ RoomKept'
  BY DEF Inv, JobShape, CountShape, OnePlacing, RoomKept
<1>2. \A i \in Jobs : Recorded(i)' <=> Recorded(i)
  BY DEF Recorded
<1>3. SlotInv' /\ TableInv'
  BY <1>2 DEF Inv, SlotInv, IsSlot, Apart, TableInv, IsEntry
<1> QED BY <1>1, <1>3 DEF Inv

(* Steps that only bring a handler or a thread further.                    *)
LEMMA GoingOn ==
  ASSUME Inv, NEW j \in Jobs,
         \/ Roll(j) \/ ReinitBuffers(j) \/ StartWrite(j) \/ WriteBuffer(j)
  PROVE  Inv'
<1> DEFINE advances(from, to) ==
      /\ \A i \in Jobs \ {j} : job'[i] = job[i]
      /\ DOMAIN job' = Jobs /\ IsJob(job'[j])
      /\ job[j].upc = from /\ job'[j].upc = to
      /\ job'[j].idx = job[j].idx /\ job'[j].obj = job[j].obj
      /\ job'[j].key = job[j].key /\ job'[j].val = job[j].val
      /\ UNCHANGED <<sets, curStripe, nextStripe, bufRest, commit, updating>>
<1>1. CASE Roll(j)
  <2>1. advances("roll", "wait")
    BY <1>1 DEF Roll, Inv, JobShape, IsJob
  <2> QED BY <2>1, Onward DEF Placing
<1>2. CASE ReinitBuffers(j)
  <2>1. advances("wait", "renew")
    BY <1>2 DEF ReinitBuffers, Inv, JobShape, IsJob
  <2> QED BY <2>1, Onward DEF Placing
<1>3. CASE StartWrite(j)
  <2>1. advances("write", "record")
    BY <1>3 DEF StartWrite, Inv, JobShape, IsJob
  <2>2. Size[job[j].val] <= bufRest[job'[j].idx]
    BY <2>1 DEF Inv, RoomKept
  <2> QED BY <2>1, <2>2, Onward DEF Placing
<1>4. CASE WriteBuffer(j)
  <2>1. job' = [job EXCEPT ![j].tpc = "report"] /\ job[j].tpc = "accept"
    BY <1>4 DEF WriteBuffer
  <2>2. UNCHANGED <<sets, curStripe, nextStripe, bufRest, commit, updating>>
    BY <1>4 DEF WriteBuffer
  <2>3. /\ \A i \in Jobs : /\ job'[i].upc = job[i].upc /\ job'[i].idx = job[i].idx
                           /\ job'[i].obj = job[i].obj
                           /\ job'[i].key = job[i].key /\ job'[i].val = job[i].val
        /\ DOMAIN job' = Jobs /\ \A i \in Jobs : IsJob(job'[i])
    BY <2>1 DEF Inv, JobShape, IsJob
  <2> QED BY <2>2, <2>3, Rereading
<1> QED BY <1>1, <1>2, <1>3, <1>4

LEMMA NewStripes ==
  ASSUME Inv, NEW j \in Jobs, NewStripe(j)
  PROVE  Inv'
<1>1. /\ \A i \in Jobs \ {j} : job'[i] = job[i]
      /\ DOMAIN job' = Jobs /\ IsJob(job'[j])
      /\ job[j].upc = "renew" /\ job'[j].upc = "write"
      /\ job'[j].val = job[j].val /\ job[j].val \in Vals
      /\ job'[j].idx \in Buffers
  BY DEF NewStripe, Inv, JobShape, IsJob
<1>2. /\ curStripe' = nextStripe /\ nextStripe' = nextStripe + 1
      /\ bufRest' = [i \in Buffers |-> ShardSize]
      /\ UNCHANGED <<sets, commit, updating>>
  BY DEF NewStripe
<1>3. JobShape' /\ CountShape'
  BY <1>1, <1>2, SizeFacts DEF Inv, JobShape, CountShape
<1>4. OnePlacing'
  BY <1>1 DEF Inv, OnePlacing, Placing
<1>5. RoomKept'
  BY <1>1, <1>2, SizeFacts DEF Inv, RoomKept, OnePlacing, Placing
<1>6. \A i \in Jobs : /\ Recorded(i)' <=> Recorded(i)
                      /\ Recorded(i) => job'[i] = job[i]
  BY <1>1 DEF Recorded
<1>7. \A obj : IsSlot(obj) => IsSlot(obj)'
  BY <1>2 DEF Inv, CountShape, IsSlot
<1>8. SlotInv'
  BY <1>6, <1>7 DEF Inv, SlotInv, Apart
<1>9. TableInv'
  BY <1>2, <1>6 DEF Inv, TableInv, IsEntry
<1> QED BY <1>3, <1>4, <1>5, <1>8, <1>9 DEF Inv

LEMMA Recording ==
  ASSUME Inv, NEW j \in Jobs, RecordObject(j)
  PROVE  Inv'
<1> DEFINE b == job[j].idx
           n == Size[job[j].val]
<1> PICK new : new = [stripe |-> curStripe, idx |-> b,
                      off |-> ShardSize - bufRest[b], size |-> n]
  OBVIOUS
<1>1. job[j].upc = "record" /\ b \in Buffers /\ job[j].val \in Vals
  BY DEF RecordObject, Inv, JobShape, IsJob
<1>2. n \in Nat /\ bufRest[b] \in 0..ShardSize /\ n <= bufRest[b]
  BY <1>1, SizeFacts DEF Inv, CountShape, RoomKept
<1>3. /\ job' = [job EXCEPT ![j].upc = "publish", ![j].reply = curProxy,
                            ![j].obj = new]
      /\ bufRest' = [bufRest EXCEPT ![b] = @ - n]
      /\ UNCHANGED <<sets, curStripe, nextStripe, commit, updating>>
  BY DEF RecordObject, Take
<1>4. /\ bufRest'[b] = bufRest[b] - n
      /\ \A i \in Buffers \ {b} : bufRest'[i] = bufRest[i]
      /\ bufRest' \in [Buffers -> 0..ShardSize]
  BY <1>1, <1>2, <1>3, SizeFacts DEF Inv, CountShape
<1>5. /\ new.stripe = curStripe /\ new.idx = b
      /\ new.off = ShardSize - bufRest[b] /\ new.size = n
  OBVIOUS
<1> HIDE DEF b, n
<1>6. /\ \A i \in Jobs \ {j} : job'[i] = job[i]
      /\ DOMAIN job' = Jobs /\ IsJob(job'[j])
      /\ job'[j].upc = "publish" /\ job'[j].obj = new
      /\ job'[j].key = job[j].key
  BY <1>1, <1>3 DEF Inv, JobShape, IsJob
<1>7. JobShape' /\ CountShape'
  BY <1>1, <1>3, <1>4, <1>6 DEF Inv, JobShape, CountShape
<1>8. OnePlacing'
  BY <1>1, <1>6 DEF Inv, OnePlacing, Placing
<1>9. RoomKept'
  BY <1>1, <1>6 DEF Inv, OnePlacing, RoomKept, Placing
<1>10. /\ \A i \in Jobs \ {j} : Recorded(i)' <=> Recorded(i)
       /\ ~Recorded(j) /\ Recorded(j)'
  BY <1>1, <1>6 DEF Recorded
<1>11. IsSlot(new)'
  BY <1>1, <1>2, <1>3, <1>4, <1>5, SizeFacts DEF Inv, CountShape, IsSlot
<1>12. \A obj : IsSlot(obj) => IsSlot(obj)'
  BY <1>2, <1>3, <1>4, SizeFacts DEF Inv, CountShape, IsSlot
<1>13. \A obj : IsSlot(obj) => Apart(obj, new) /\ Apart(new, obj)
  BY <1>2, <1>5 DEF IsSlot, Apart
<1>14. SlotInv'
  BY <1>6, <1>10, <1>11, <1>12, <1>13 DEF Inv, SlotInv
<1>15. TableInv'
  BY <1>3, <1>6, <1>10 DEF Inv, TableInv, IsEntry
<1> QED BY <1>7, <1>8, <1>9, <1>14, <1>15 DEF Inv

LEMMA Publishing ==
  ASSUME Inv, NEW j \in Jobs, UploadPublish(j)
  PROVE  Inv'
<1>1. /\ \A i \in Jobs \ {j} : job'[i] = job[i]
      /\ DOMAIN job' = Jobs /\ IsJob(job'[j])
      /\ job[j].upc = "publish" /\ job'[j].upc = "replied"
      /\ job'[j].key = job[j].key /\ job'[j].obj = job[j].obj
  BY DEF UploadPublish, Inv, JobShape, IsJob
<1>2. /\ UNCHANGED <<sets, curStripe, nextStripe, bufRest, commit>>
      /\ updating' = [updating EXCEPT ![job[j].key] = job[j].obj]
  BY DEF UploadPublish
<1>3. JobShape' /\ CountShape' /\ OnePlacing' /\ RoomKept'
  BY <1>1, <1>2 DEF Inv, JobShape, CountShape, OnePlacing, RoomKept, Placing
<1>4. \A i \in Jobs : /\ Recorded(i)' <=> Recorded(i)
                      /\ job'[i].key = job[i].key \/ ~Recorded(i)
                      /\ job'[i].obj = job[i].obj \/ ~Recorded(i)
  BY <1>1 DEF Recorded
<1>5. SlotInv'
  BY <1>2, <1>4 DEF Inv, SlotInv, IsSlot, Apart
<1>6. \A k \in Keys : \A obj : IsEntry(k, obj) => IsEntry(k, obj)'
  BY <1>4 DEF IsEntry
<1>7. \A k, obj : k = job[j].key /\ obj = job[j].obj => IsEntry(k, obj)'
  BY <1>1, <1>4 DEF IsEntry, Recorded
<1>8. TableInv'
  BY <1>2, <1>6, <1>7 DEF Inv, TableInv
<1> QED BY <1>3, <1>5, <1>8 DEF Inv

LEMMA Reporting ==
  ASSUME Inv, NEW j \in Jobs, ReportCommitAbort(j)
  PROVE  Inv'
<1> DEFINE k == job[j].key
<1>1. /\ \A i \in Jobs : /\ job'[i].upc = job[i].upc /\ job'[i].idx = job[i].idx
                         /\ job'[i].obj = job[i].obj
                         /\ job'[i].key = job[i].key /\ job'[i].val = job[i].val
      /\ DOMAIN job' = Jobs /\ \A i \in Jobs : IsJob(job'[i])
  BY DEF ReportCommitAbort, Inv, JobShape, IsJob
<1>2. /\ UNCHANGED <<sets, curStripe, nextStripe, bufRest>>
      /\ commit' = [commit EXCEPT ![k] =
                      IF updating[k] = Absent THEN NoObject ELSE updating[k]]
      /\ updating' = [updating EXCEPT ![k] = Absent]
  BY DEF ReportCommitAbort
<1> HIDE DEF k
<1>3. JobShape' /\ CountShape' /\ OnePlacing' /\ RoomKept'
  BY <1>1, <1>2 DEF Inv, JobShape, CountShape, OnePlacing, RoomKept, Placing
<1>4. \A i \in Jobs : Recorded(i)' <=> Recorded(i)
  BY <1>1 DEF Recorded
<1>5. SlotInv'
  BY <1>1, <1>2, <1>4 DEF Inv, SlotInv, IsSlot, Apart
<1>6. \A i \in Keys : \A obj : IsEntry(i, obj) => IsEntry(i, obj)'
  BY <1>1, <1>4 DEF IsEntry
<1>7. \A i \in Keys : IsEntry(i, Absent)' /\ IsEntry(i, NoObject)'
  BY DEF IsEntry
<1>8. TableInv'
  BY <1>2, <1>6, <1>7 DEF Inv, TableInv
<1> QED BY <1>3, <1>5, <1>8 DEF Inv

-----------------------------------------------------------------------------
LEMMA InvStep ==
  ASSUME Inv, [Next]_vars,
         \A j \in Jobs : ChooseBuffer(j) => \A i \in Jobs : job[i].upc \notin Placing
  PROVE  Inv'
<1> USE DEF invVars
<1>1. ASSUME NEW c \in Clients, ClientStep(c)
      PROVE  Inv'
  <2>1. UNCHANGED invVars
    BY <1>1 DEF ClientStep, Connect, CheckCommitAbort, GetValue, Route,
                GetObjectFromBuffer, GetFromMemcached
  <2> QED BY <2>1, Elsewhere
<1>2. ASSUME NEW c \in Clients, NEW k \in KeysOf[c], Get(c, k)
      PROVE  Inv'
  <2>1. UNCHANGED invVars
    BY <1>2 DEF Get
  <2> QED BY <2>1, Elsewhere
<1>3. ASSUME NEW c \in Clients, NEW k \in KeysOf[c], NEW v \in Vals, Set(c, k, v)
      PROVE  Inv'
  BY <1>3, Calling
<1>4. ASSUME NEW j \in Jobs, JobStep(j)
      PROVE  Inv'
  BY <1>4, Erasing, Choosing, GoingOn, NewStripes, Recording, Publishing, Reporting
     DEF JobStep
<1>5. ASSUME NEW j \in Jobs, EncoderStep(j)
      PROVE  Inv'
  <2>1. UNCHANGED invVars
    BY <1>5 DEF EncoderStep, EncodeCopy, SetToMemcached
  <2> QED BY <2>1, Elsewhere
<1>6. CASE Finished \/ UNCHANGED vars
  <2>1. UNCHANGED invVars
    BY <1>6 DEF Finished, vars
  <2> QED BY <2>1, Elsewhere
<1> QED BY <1>1, <1>2, <1>3, <1>4, <1>5, <1>6 DEF Next

LEMMA InvIsFit == Inv => SlotsFit
<1> SUFFICES ASSUME Inv, NEW k \in Committed, NEW l \in Committed
             PROVE  /\ commit[k].off + commit[k].size <= ShardSize
                    /\ k # l => Apart(commit[k], commit[l])
  BY DEF SlotsFit, Apart
<1>1. PICK i \in Jobs : Recorded(i) /\ job[i].key = k /\ commit[k] = job[i].obj
  BY DEF Committed, Inv, TableInv, IsEntry
<1>2. PICK j \in Jobs : Recorded(j) /\ job[j].key = l /\ commit[l] = job[j].obj
  BY DEF Committed, Inv, TableInv, IsEntry
<1> QED BY <1>1, <1>2 DEF Inv, SlotInv, IsSlot

(* However many clients set small objects at once, with their handlers one *)
(* after the other: every object a table names lies within its buffer, and *)
(* no two objects of different keys overlap, over all rolls of the buffers *)
(* and whatever the threads of the proxies do meanwhile.                   *)
THEOREM SlotsSafe ==
  ASSUME SerialUpload
  PROVE  Spec => []SlotsFit
<1>1. Inv /\ [Next]_vars => Inv'
  BY InvStep DEF ChooseBuffer
<1> QED BY InitInv, <1>1, InvIsFit, PTL DEF Spec

-----------------------------------------------------------------------------
(* One client, with its semaphores at zero                                 *)

LEMMA NumberOfSets == MaxSets \in Nat /\ Jobs = 1..MaxSets /\ 0 \notin Jobs
BY LimitAssumption DEF Jobs

LEMMA SizeType == ShardSize \in Nat /\ \A v \in Vals : Size[v] \in Nat
BY SizeAssumption

LEMMA InitSingle ==
  ASSUME OneClient, SemInit = 0
  PROVE  Init => SingleInv
<1> SUFFICES ASSUME Init PROVE SingleInv
  OBVIOUS
<1>1. client \in Clients /\ cpc[client] = "idle" /\ sets = 0
  BY DEF OneClient, Init
<1>2. ~Busy /\ At = "idle" /\ Thread = "done"
  BY <1>1 DEF Busy, At, Thread
<1>3. Shape
  BY NumberOfSets, SizeType DEF Init, Shape, HasFields, IsEnc, Unused, NoEncoder
<1>4. OneAtATime /\ Course
  BY <1>1, <1>2, NumberOfSets DEF Init, OneAtATime, Course, Unused
<1>5. Connections /\ Posts /\ Tables
  BY <1>2 DEF Init, Connections, Posts, Tables, NoEncoder
<1>6. Offsets
  BY <1>2, SizeType DEF Init, Offsets, Owed
<1> QED BY <1>3, <1>4, <1>5, <1>6 DEF SingleInv

(* A step that the invariant does not see.                                 *)
LEMMA SingleElsewhere ==
  ASSUME SingleInv,
         UNCHANGED <<sets, job, cjob, commit, updating, curStripe, curProxy, bufRest,
                     keyInBuffer, sem, backlog, bufOffset>>,
         DOMAIN cpc' = Clients,
         cpc'[client] = cpc[client] \/ (~Busy /\ ~Busy'),
         DOMAIN enc' = Jobs,
         \A j \in Jobs : IsEnc(enc'[j]) /\ enc'[j].pc = enc[j].pc
                                        /\ enc'[j].proxy = enc[j].proxy
  PROVE  SingleInv'
<1>1. /\ Busy' <=> Busy
      /\ Busy => cpc'[client] = cpc[client]
      /\ At' = At /\ Thread' = Thread /\ Cur' = Cur
  BY DEF Busy, At, Thread, Cur
<1>2. Shape'
  BY DEF SingleInv, Shape
<1>3. OneAtATime'
  BY <1>1 DEF SingleInv, OneAtATime
<1>4. Course'
  BY <1>1 DEF SingleInv, Course
<1>5. Connections'
  BY <1>1 DEF SingleInv, Connections
<1>6. Posts'
  <2>1. At = "wait" => sets \in Jobs
    BY DEF SingleInv, OneAtATime, At
  <2> QED BY <1>1, <2>1 DEF SingleInv, Posts
<1>7. Offsets'
  BY <1>1 DEF SingleInv, Offsets, Owed
<1>8. Tables'
  BY <1>1 DEF SingleInv, Tables
<1> QED BY <1>2, <1>3, <1>4, <1>5, <1>6, <1>7, <1>8 DEF SingleInv

(* A handler or a thread that can go on is that of the set under way.      *)
LEMMA TheSet ==
  ASSUME SingleInv, NEW j \in Jobs,
         job[j].upc \notin {"unused", "replied"} \/ job[j].tpc \notin {"none", "done"}
  PROVE  /\ Busy /\ j = sets /\ sets \in Jobs /\ Cur = job[j]
         /\ At = job[j].upc /\ Thread = job[j].tpc
         /\ job[j].key \in Keys /\ job[j].val \in Vals
<1>1. sets \in Int /\ j \in Int
  BY NumberOfSets DEF SingleInv, Shape
<1>2. j = sets /\ Busy
  BY <1>1 DEF SingleInv, OneAtATime
<1> QED BY <1>2 DEF SingleInv, OneAtATime, At, Thread, Cur

(* What the step of a handler or a thread leaves as it was.                *)
LEMMA SetGoesOn ==
  ASSUME SingleInv, Busy, sets \in Jobs,
         \A i \in Jobs \ {sets} : job'[i] = job[i],
         DOMAIN job' = Jobs, HasFields(job'[sets]),
         job'[sets].key = job[sets].key, job'[sets].val = job[sets].val,
         UNCHANGED <<sets, cpc, cjob>>
  PROVE  /\ OneAtATime'
         /\ Busy' /\ Cur' = job'[sets]
         /\ At' = job'[sets].upc /\ Thread' = job'[sets].tpc
         /\ \A i \in Jobs : HasFields(job'[i])
<1>1. Busy' /\ Cur' = job'[sets]
  BY DEF Busy, Cur
<1>2. sets \in Int /\ Jobs \subseteq Int
  BY NumberOfSets DEF SingleInv, Shape
<1>3. OneAtATime'
  BY <1>1, <1>2 DEF SingleInv, OneAtATime, Cur
<1>4. \A i \in Jobs : HasFields(job'[i])
  BY DEF SingleInv, Shape
<1> QED BY <1>1, <1>3, <1>4 DEF At, Thread
-----------------------------------------------------------------------------
(* The client                                                              *)

LEMMA SingleCalling ==
  ASSUME OneClient, SingleInv,
         NEW c \in Clients, NEW k \in KeysOf[c], NEW v \in Vals, Set(c, k, v)
  PROVE  SingleInv'
<1> DEFINE j == sets + 1
<1>1. c = client /\ ~Busy /\ k \in Keys /\ sets \in 0..MaxSets
  BY KeysOfAssumption DEF OneClient, Set, Busy, SingleInv, Shape
<1>2. j \in Jobs /\ j \in Int /\ sets \in Int /\ j > sets
  BY <1>1, NumberOfSets DEF Set
<1>3. \A i \in Jobs : i < j => i < sets \/ i = sets
  BY <1>1, <1>2, NumberOfSets
<1>4. /\ sets' = j
      /\ cpc' = [cpc EXCEPT ![c] = "upload"]
      /\ cjob' = [cjob EXCEPT ![c] = j]
      /\ job' = [job EXCEPT ![j].key = k, ![j].val = v, ![j].upc = "erase"]
      /\ UNCHANGED <<commit, updating, curStripe, curProxy, bufRest, keyInBuffer,
                     enc, sem, backlog, bufOffset>>
  BY DEF Set
<1> HIDE DEF j
<1>5. /\ \A i \in Jobs \ {j} : job'[i] = job[i]
      /\ DOMAIN job' = Jobs /\ HasFields(job'[j])
      /\ job'[j].key = k /\ job'[j].val = v
      /\ job'[j].upc = "erase" /\ job'[j].tpc = job[j].tpc
  BY <1>2, <1>4 DEF SingleInv, Shape, HasFields
<1>6. job[j].tpc = "none"
  BY <1>2 DEF SingleInv, OneAtATime
<1>7. cpc'[client] = "upload" /\ cjob'[client] = j
  BY <1>1, <1>4 DEF SingleInv, Shape, OneClient
<1>8. Busy' /\ Cur' = job'[j] /\ At' = "erase" /\ Thread' = "none"
  BY <1>4, <1>5, <1>6, <1>7 DEF Busy, Cur, At, Thread
<1>9. At = "idle" /\ Thread = "done"
  BY <1>1 DEF At, Thread
<1>10. Shape'
  BY <1>2, <1>4, <1>5, NumberOfSets DEF SingleInv, Shape
<1>11. OneAtATime'
  <2>1. \A i \in Jobs : i > j => job'[i].upc = "unused" /\ job'[i].tpc = "none"
    BY <1>2, <1>5, NumberOfSets DEF SingleInv, OneAtATime
  <2>2. \A i \in Jobs : i < j => job'[i].upc = "replied" /\ job'[i].tpc = "done"
    BY <1>1, <1>2, <1>3, <1>5, NumberOfSets DEF SingleInv, OneAtATime
  <2> QED BY <1>1, <1>2, <1>4, <1>5, <1>7, <1>8, <2>1, <2>2 DEF OneAtATime
<1>12. Course'
  BY <1>7, <1>8 DEF Course, Before, HasObject
<1>13. Connections'
  BY <1>1, <1>4, <1>8 DEF SingleInv, Connections
<1>14. Posts'
  BY <1>4, <1>8, <1>9 DEF SingleInv, Posts
<1>15. Offsets'
  BY <1>4, <1>8, <1>9 DEF SingleInv, Offsets, Owed
<1>16. Tables'
  BY <1>4, <1>8, <1>9 DEF SingleInv, Tables
<1> QED BY <1>10, <1>11, <1>12, <1>13, <1>14, <1>15, <1>16 DEF SingleInv

LEMMA SingleConnecting ==
  ASSUME OneClient, SingleInv, NEW c \in Clients, Connect(c)
  PROVE  SingleInv'
<1>1. c = client /\ Busy /\ cjob[client] = sets /\ sets \in Jobs
  BY DEF OneClient, Connect, Busy, SingleInv, OneAtATime
<1>2. At = "replied" /\ Thread = "accept" /\ Cur.reply = curProxy
  <2>1. At = "replied" /\ Cur.upc = "replied"
    BY <1>1 DEF Connect, At, Cur
  <2> QED BY <1>1, <2>1 DEF SingleInv, Course, Connect, Before, HasObject
<1>3. /\ cpc' = [cpc EXCEPT ![client] = "check"]
      /\ backlog' = [backlog EXCEPT ![curProxy] =
                       Append(@, [key |-> Cur.key, val |-> Cur.val])]
      /\ UNCHANGED <<sets, job, cjob, commit, updating, curStripe, curProxy, bufRest,
                     keyInBuffer, enc, sem, bufOffset>>
  BY <1>1, <1>2 DEF Connect, Cur
<1>4. cpc'[client] = "check" /\ DOMAIN cpc' = Clients
  BY <1>3 DEF SingleInv, Shape, OneClient
<1>5. Busy' /\ Cur' = Cur /\ At' = "replied" /\ Thread' = "accept"
  BY <1>1, <1>2, <1>3, <1>4 DEF Busy, Cur, At, Thread
<1>6. Shape'
  BY <1>3, <1>4 DEF SingleInv, Shape
<1>7. OneAtATime'
  BY <1>1, <1>3, <1>5 DEF SingleInv, OneAtATime
<1>8. Course'
  BY <1>1, <1>2, <1>3, <1>4, <1>5 DEF SingleInv, Course, Before, HasObject
<1>9. Connections'
  <2>1. backlog[curProxy] = <<>> /\ curProxy \in DOMAIN backlog
    BY DEF SingleInv, Connections, Shape, Connect, OneClient
  <2>2. backlog'[curProxy] = <<[key |-> Cur.key, val |-> Cur.val]>>
    BY <1>3, <2>1
  <2>3. \A a \in AZs \ {curProxy} : backlog'[a] = <<>>
    BY <1>3, <2>1 DEF SingleInv, Connections, Shape
  <2> QED BY <1>3, <1>4, <1>5, <2>2, <2>3 DEF Connections
<1>10. Posts'
  BY <1>2, <1>3, <1>5 DEF SingleInv, Posts
<1>11. Offsets'
  BY <1>2, <1>3, <1>5 DEF SingleInv, Offsets, Owed
<1>12. Tables'
  BY <1>1, <1>2, <1>3, <1>5 DEF SingleInv, Tables
<1> QED BY <1>6, <1>7, <1>8, <1>9, <1>10, <1>11, <1>12 DEF SingleInv

LEMMA SingleChecking ==
  ASSUME OneClient, SingleInv, NEW c \in Clients, CheckCommitAbort(c)
  PROVE  SingleInv'
<1>1. c = client /\ Busy /\ cjob[client] = sets /\ sets \in Jobs
  BY DEF OneClient, CheckCommitAbort, Busy, SingleInv, OneAtATime
<1>2. At = "replied" /\ Thread = "done" /\ Cur.upc = "replied" /\ Cur.tpc = "done"
  <2>1. At = "replied" /\ commit[Cur.key] # Absent
    BY <1>1 DEF SingleInv, Course, CheckCommitAbort, Cur
  <2>2. Thread = "done"
    BY <1>1, <2>1 DEF SingleInv, Tables
  <2> QED BY <1>1, <2>1, <2>2 DEF At, Thread
<1>3. /\ cpc' = [cpc EXCEPT ![client] = "idle"]
      /\ UNCHANGED <<sets, job, cjob, commit, updating, curStripe, curProxy, bufRest,
                     keyInBuffer, enc, sem, backlog, bufOffset>>
  BY <1>1 DEF CheckCommitAbort
<1>4. cpc'[client] = "idle" /\ DOMAIN cpc' = Clients
  BY <1>3 DEF SingleInv, Shape, OneClient
<1>5. ~Busy' /\ At' = "idle" /\ Thread' = "done"
  BY <1>4 DEF Busy, At, Thread
<1>6. Shape'
  BY <1>3, <1>4 DEF SingleInv, Shape
<1>7. OneAtATime'
  BY <1>2, <1>3, <1>5 DEF SingleInv, OneAtATime, Cur
<1>8. Course' /\ Connections'
  BY <1>2, <1>3, <1>5 DEF SingleInv, Course, Connections
<1>9. Posts'
  BY <1>2, <1>3, <1>5 DEF SingleInv, Posts
<1>10. Offsets'
  BY <1>2, <1>3, <1>5 DEF SingleInv, Offsets, Owed
<1>11. Tables'
  BY <1>2, <1>3, <1>5 DEF SingleInv, Tables
<1> QED BY <1>6, <1>7, <1>8, <1>9, <1>10, <1>11 DEF SingleInv
-----------------------------------------------------------------------------
(* uploadOriginKeyValue                                                    *)

LEMMA SingleErasing ==
  ASSUME SingleInv, NEW j \in Jobs, UploadErase(j)
  PROVE  SingleInv'
<1>1. /\ Busy /\ j = sets /\ sets \in Jobs /\ Cur = job[j]
      /\ At = "erase" /\ Thread = job[j].tpc /\ job[j].key \in Keys
  BY TheSet DEF UploadErase
<1>2. /\ commit' = [commit EXCEPT ![job[j].key] = Absent]
      /\ job' = [job EXCEPT ![j].upc = "choose"]
      /\ UNCHANGED <<sets, cpc, cjob, updating, curStripe, curProxy, bufRest,
                     keyInBuffer, enc, sem, backlog, bufOffset>>
  BY DEF UploadErase, Forget
<1>3. /\ \A i \in Jobs \ {j} : job'[i] = job[i]
      /\ DOMAIN job' = Jobs /\ HasFields(job'[j])
      /\ job'[j].upc = "choose" /\ job'[j].tpc = job[j].tpc
      /\ job'[j].key = job[j].key /\ job'[j].val = job[j].val
  BY <1>2 DEF SingleInv, Shape, HasFields
<1>4. /\ OneAtATime' /\ Busy' /\ Cur' = job'[j] /\ At' = "choose" /\ Thread' = Thread
      /\ \A i \in Jobs : HasFields(job'[i])
  BY <1>1, <1>2, <1>3, SetGoesOn
<1>5. Thread = "none" /\ cpc[client] = "upload"
  BY <1>1 DEF SingleInv, Course, Busy, Before
<1>6. Shape'
  BY <1>2, <1>3, <1>4 DEF SingleInv, Shape
<1>7. Course' /\ Connections'
  BY <1>2, <1>4, <1>5 DEF SingleInv, Course, Connections, Before, HasObject
<1>8. Posts' /\ Offsets'
  BY <1>1, <1>2, <1>4, <1>5 DEF SingleInv, Posts, Offsets, Owed
<1>9. Tables'
  <2>1. /\ commit'[Cur'.key] = Absent
        /\ \A k \in Keys : commit'[k] \in {Absent, commit[k]}
        /\ \A k \in Keys : updating[k] = Absent
    BY <1>1, <1>2, <1>3, <1>4, <1>5 DEF SingleInv, Shape, Tables
  <2> QED BY <1>2, <1>4, <1>5, <2>1 DEF SingleInv, Tables
<1> QED BY <1>4, <1>6, <1>7, <1>8, <1>9 DEF SingleInv

LEMMA SingleChoosing ==
  ASSUME SingleInv, NEW j \in Jobs, ChooseBuffer(j)
  PROVE  SingleInv'
<1>1. /\ Busy /\ j = sets /\ sets \in Jobs /\ Cur = job[j]
      /\ At = "choose" /\ Thread = job[j].tpc /\ job[j].key \in Keys
  BY TheSet DEF ChooseBuffer
<1>2. /\ \/ \E i : job' = [job EXCEPT ![j].upc = "write", ![j].idx = i]
         \/ job' = [job EXCEPT ![j].upc = "roll", ![j].idx = 0]
      /\ UNCHANGED <<sets, cpc, cjob, commit, updating, curStripe, curProxy, bufRest,
                     keyInBuffer, enc, sem, backlog, bufOffset>>
  BY DEF ChooseBuffer
<1>3. /\ \A i \in Jobs \ {j} : job'[i] = job[i]
      /\ DOMAIN job' = Jobs /\ HasFields(job'[j])
      /\ job'[j].upc \in {"write", "roll"} /\ job'[j].tpc = job[j].tpc
      /\ job'[j].key = job[j].key /\ job'[j].val = job[j].val
  BY <1>2 DEF SingleInv, Shape, HasFields
<1>4. /\ OneAtATime' /\ Busy' /\ Cur' = job'[j] /\ Thread' = Thread
      /\ At' \in {"write", "roll"} /\ \A i \in Jobs : HasFields(job'[i])
  BY <1>1, <1>2, <1>3, SetGoesOn
<1>5. Thread = "none" /\ cpc[client] = "upload"
  BY <1>1 DEF SingleInv, Course, Busy, Before
<1>6. Shape'
  BY <1>2, <1>3, <1>4 DEF SingleInv, Shape
<1>7. Course' /\ Connections'
  BY <1>2, <1>4, <1>5 DEF SingleInv, Course, Connections, Before, HasObject
<1>8. Posts' /\ Offsets'
  BY <1>1, <1>2, <1>4, <1>5 DEF SingleInv, Posts, Offsets, Owed
<1>9. Tables'
  BY <1>1, <1>2, <1>3, <1>4, <1>5 DEF SingleInv, Tables
<1> QED BY <1>4, <1>6, <1>7, <1>8, <1>9 DEF SingleInv

LEMMA SingleRolling ==
  ASSUME SingleInv, NEW j \in Jobs, Roll(j)
  PROVE  SingleInv'
<1>1. /\ Busy /\ j = sets /\ sets \in Jobs /\ Cur = job[j]
      /\ At = "roll" /\ Thread = job[j].tpc /\ job[j].key \in Keys
  BY TheSet DEF Roll
<1>2. /\ job' = [job EXCEPT ![j].upc = "wait"]
      /\ enc' = [enc EXCEPT ![j].pc = "copy", ![j].stripe = curStripe,
                            ![j].proxy = curProxy]
      /\ UNCHANGED <<sets, cpc, cjob, commit, updating, curStripe, curProxy, bufRest,
                     keyInBuffer, sem, backlog, bufOffset>>
  BY DEF Roll
<1>3. /\ \A i \in Jobs \ {j} : job'[i] = job[i]
      /\ DOMAIN job' = Jobs /\ HasFields(job'[j])
      /\ job'[j].upc = "wait" /\ job'[j].tpc = job[j].tpc
      /\ job'[j].key = job[j].key /\ job'[j].val = job[j].val
  BY <1>2 DEF SingleInv, Shape, HasFields
<1>4. /\ OneAtATime' /\ Busy' /\ Cur' = job'[j] /\ At' = "wait" /\ Thread' = Thread
      /\ \A i \in Jobs : HasFields(job'[i])
  BY <1>1, <1>2, <1>3, SetGoesOn
<1>5. Thread = "none" /\ cpc[client] = "upload"
  BY <1>1 DEF SingleInv, Course, Busy, Before
<1>6. /\ \A i \in Jobs \ {j} : enc'[i] = enc[i]
      /\ DOMAIN enc' = Jobs /\ IsEnc(enc'[j])
      /\ enc'[j].pc = "copy" /\ enc'[j].proxy = curProxy
  BY <1>2 DEF SingleInv, Shape, IsEnc
<1>7. Shape'
  BY <1>2, <1>3, <1>4, <1>6 DEF SingleInv, Shape
<1>8. Course' /\ Connections'
  BY <1>2, <1>4, <1>5 DEF SingleInv, Course, Connections, Before, HasObject
<1>9. Posts'
  BY <1>1, <1>2, <1>4, <1>6 DEF SingleInv, Posts
<1>10. Offsets'
  BY <1>1, <1>2, <1>4, <1>5 DEF SingleInv, Offsets, Owed
<1>11. Tables'
  BY <1>1, <1>2, <1>3, <1>4, <1>5 DEF SingleInv, Tables
<1> QED BY <1>4, <1>7, <1>8, <1>9, <1>10, <1>11 DEF SingleInv

(* The semaphore that lets the handler on is that of the copy.             *)
LEMMA SingleReiniting ==
  ASSUME SingleInv, NEW j \in Jobs, ReinitBuffers(j)
  PROVE  SingleInv'
<1>1. /\ Busy /\ j = sets /\ sets \in Jobs /\ Cur = job[j]
      /\ At = "wait" /\ Thread = job[j].tpc /\ job[j].key \in Keys
  BY TheSet DEF ReinitBuffers
<1>2. enc[j].proxy = curProxy /\ curProxy \in AZs
  BY <1>1 DEF SingleInv, Posts, Shape
<1>3. enc[j].pc # "copy" /\ sem[curProxy] = 1
  BY <1>1, <1>2 DEF SingleInv, Posts, ReinitBuffers
<1>4. /\ sem' = [sem EXCEPT ![curProxy] = @ - 1]
      /\ bufOffset' = [bufOffset EXCEPT ![curProxy] = [i \in Buffers |-> 0]]
      /\ job' = [job EXCEPT ![j].upc = "renew"]
      /\ UNCHANGED <<sets, cpc, cjob, commit, updating, curStripe, curProxy, bufRest,
                     keyInBuffer, enc, backlog>>
  BY <1>2 DEF ReinitBuffers, Rewind
<1>5. /\ \A i \in Jobs \ {j} : job'[i] = job[i]
      /\ DOMAIN job' = Jobs /\ HasFields(job'[j])
      /\ job'[j].upc = "renew" /\ job'[j].tpc = job[j].tpc
      /\ job'[j].key = job[j].key /\ job'[j].val = job[j].val
  BY <1>4 DEF SingleInv, Shape, HasFields
<1>6. /\ OneAtATime' /\ Busy' /\ Cur' = job'[j] /\ At' = "renew" /\ Thread' = Thread
      /\ \A i \in Jobs : HasFields(job'[i])
  BY <1>1, <1>4, <1>5, SetGoesOn
<1>7. Thread = "none" /\ cpc[client] = "upload"
  BY <1>1 DEF SingleInv, Course, Busy, Before
<1>8. sem' \in [AZs -> Nat] /\ \A a \in AZs : sem'[a] = 0
  BY <1>1, <1>2, <1>3, <1>4 DEF SingleInv, Posts, Shape
<1>9. /\ bufOffset' \in [AZs -> [Buffers -> Int]]
      /\ \A a \in AZs : bufOffset'[a] = IF a = curProxy THEN [i \in Buffers |-> 0]
                                                       ELSE bufOffset[a]
  BY <1>4 DEF SingleInv, Shape
<1>10. Shape'
  BY <1>4, <1>5, <1>6, <1>8, <1>9 DEF SingleInv, Shape
<1>11. Course' /\ Connections'
  BY <1>4, <1>6, <1>7 DEF SingleInv, Course, Connections, Before, HasObject
<1>12. Posts'
  BY <1>1, <1>3, <1>4, <1>6, <1>8 DEF SingleInv, Posts
<1>13. Offsets'
  BY <1>2, <1>4, <1>6, <1>9 DEF SingleInv, Offsets
<1>14. Tables'
  BY <1>1, <1>4, <1>5, <1>6, <1>7 DEF SingleInv, Tables
<1> QED BY <1>6, <1>10, <1>11, <1>12, <1>13, <1>14 DEF SingleInv

(* Whichever proxy is next, its buffers are empty.                         *)
LEMMA SingleRenewing ==
  ASSUME SingleInv, NEW j \in Jobs, NewStripe(j)
  PROVE  SingleInv'
<1>1. /\ Busy /\ j = sets /\ sets \in Jobs /\ Cur = job[j]
      /\ At = "renew" /\ Thread = job[j].tpc /\ job[j].key \in Keys
  BY TheSet DEF NewStripe
<1>2. /\ job' = [job EXCEPT ![j].upc = "write"]
      /\ curProxy' \in AZs
      /\ bufRest' = [i \in Buffers |-> ShardSize]
      /\ keyInBuffer' = {}
      /\ UNCHANGED <<sets, cpc, cjob, commit, updating, enc, sem, backlog, bufOffset>>
  BY DEF NewStripe, ClearKeys
<1>3. /\ \A i \in Jobs \ {j} : job'[i] = job[i]
      /\ DOMAIN job' = Jobs /\ HasFields(job'[j])
      /\ job'[j].upc = "write" /\ job'[j].tpc = job[j].tpc
      /\ job'[j].key = job[j].key /\ job'[j].val = job[j].val
  BY <1>2 DEF SingleInv, Shape, HasFields
<1>4. /\ OneAtATime' /\ Busy' /\ Cur' = job'[j] /\ At' = "write" /\ Thread' = Thread
      /\ \A i \in Jobs : HasFields(job'[i])
  BY <1>1, <1>2, <1>3, SetGoesOn
<1>5. Thread = "none" /\ cpc[client] = "upload"
  BY <1>1 DEF SingleInv, Course, Busy, Before
<1>6. \A a \in AZs, i \in Buffers : bufOffset[a][i] = 0
  BY <1>1 DEF SingleInv, Offsets
<1>7. Shape'
  BY <1>2, <1>3, <1>4, SizeType DEF SingleInv, Shape
<1>8. Course' /\ Connections'
  BY <1>2, <1>4, <1>5 DEF SingleInv, Course, Connections, Before, HasObject
<1>9. Posts'
  BY <1>1, <1>2, <1>4 DEF SingleInv, Posts
<1>10. Offsets'
  BY <1>2, <1>4, <1>5, <1>6, SizeType DEF Offsets, Owed
<1>11. Tables'
  BY <1>1, <1>2, <1>3, <1>4, <1>5 DEF SingleInv, Tables
<1> QED BY <1>4, <1>7, <1>8, <1>9, <1>10, <1>11 DEF SingleInv
LEMMA SingleStarting ==
  ASSUME SingleInv, NEW j \in Jobs, StartWrite(j)
  PROVE  SingleInv'
<1>1. /\ Busy /\ j = sets /\ sets \in Jobs /\ Cur = job[j]
      /\ At = "write" /\ Thread = job[j].tpc /\ job[j].key \in Keys
  BY TheSet DEF StartWrite
<1>2. /\ job' = [job EXCEPT ![j].upc = "record", ![j].tpc = "accept",
                            ![j].proxy = curProxy]
      /\ keyInBuffer' = keyInBuffer \cup {job[j].key}
      /\ UNCHANGED <<sets, cpc, cjob, commit, updating, curStripe, curProxy, bufRest,
                     enc, sem, backlog, bufOffset>>
  BY DEF StartWrite
<1>3. /\ \A i \in Jobs \ {j} : job'[i] = job[i]
      /\ DOMAIN job' = Jobs /\ HasFields(job'[j])
      /\ job'[j].upc = "record" /\ job'[j].tpc = "accept"
      /\ job'[j].proxy = curProxy
      /\ job'[j].key = job[j].key /\ job'[j].val = job[j].val
  BY <1>2 DEF SingleInv, Shape, HasFields
<1>4. /\ OneAtATime' /\ Busy' /\ Cur' = job'[j] /\ At' = "record" /\ Thread' = "accept"
      /\ \A i \in Jobs : HasFields(job'[i])
  BY <1>1, <1>2, <1>3, SetGoesOn
<1>5. Thread = "none" /\ cpc[client] = "upload"
  BY <1>1 DEF SingleInv, Course, Busy, Before
<1>6. Shape'
  BY <1>2, <1>3, <1>4 DEF SingleInv, Shape
<1>7. Course' /\ Connections'
  BY <1>2, <1>3, <1>4, <1>5 DEF SingleInv, Course, Connections, Before, HasObject
<1>8. Posts'
  BY <1>1, <1>2, <1>4 DEF SingleInv, Posts
<1>9. Offsets'
  BY <1>1, <1>2, <1>4, <1>5 DEF SingleInv, Offsets, Owed, HasObject
<1>10. Tables'
  <2>1. commit[job[j].key] = Absent
    BY <1>1, <1>5 DEF SingleInv, Tables
  <2> QED BY <1>1, <1>2, <1>3, <1>4, <1>5, <2>1 DEF SingleInv, Tables
<1> QED BY <1>4, <1>6, <1>7, <1>8, <1>9, <1>10 DEF SingleInv

(* The room that is taken is owed until the thread has the value.          *)
LEMMA SingleRecording ==
  ASSUME SingleInv, NEW j \in Jobs, RecordObject(j)
  PROVE  SingleInv'
<1> DEFINE n == Size[job[j].val]
<1>1. /\ Busy /\ j = sets /\ sets \in Jobs /\ Cur = job[j]
      /\ At = "record" /\ Thread = job[j].tpc /\ job[j].key \in Keys
      /\ n \in Nat
  BY TheSet, SizeType DEF RecordObject
<1> HIDE DEF n
<1> DEFINE at == job[j].idx
           obj == [stripe |-> curStripe, idx |-> at,
                   off |-> ShardSize - bufRest[at], size |-> n]
<1>2. /\ job' = [job EXCEPT ![j].upc = "publish", ![j].reply = curProxy,
                            ![j].obj = obj]
      /\ bufRest' = [bufRest EXCEPT ![at] = bufRest[at] - n]
      /\ UNCHANGED <<sets, cpc, cjob, commit, updating, curStripe, curProxy,
                     keyInBuffer, enc, sem, backlog, bufOffset>>
  BY DEF RecordObject, Take, n
<1>0. obj.stripe = curStripe
  OBVIOUS
<1> HIDE DEF obj
<1>3. /\ \A i \in Jobs \ {j} : job'[i] = job[i]
      /\ DOMAIN job' = Jobs /\ HasFields(job'[j])
      /\ job'[j].upc = "publish" /\ job'[j].tpc = job[j].tpc
      /\ job'[j].reply = curProxy /\ job'[j].obj.stripe = curStripe
      /\ job'[j].proxy = job[j].proxy /\ job'[j].idx = job[j].idx
      /\ job'[j].key = job[j].key /\ job'[j].val = job[j].val
  BY <1>0, <1>2 DEF SingleInv, Shape, HasFields
<1>4. /\ OneAtATime' /\ Busy' /\ Cur' = job'[j] /\ At' = "publish" /\ Thread' = Thread
      /\ \A i \in Jobs : HasFields(job'[i])
  BY <1>1, <1>2, <1>3, SetGoesOn
<1>5. cpc[client] = "upload" /\ Thread = "accept"
  BY <1>1 DEF SingleInv, Course, Busy, Before
<1>6. /\ bufRest' \in [Buffers -> Int]
      /\ \A i \in Buffers : bufRest'[i] = bufRest[i] - (IF i = at THEN n ELSE 0)
  <2>1. bufRest \in [Buffers -> Int]
    BY DEF SingleInv, Shape
  <2>2. CASE at \in Buffers
    BY <1>1, <1>2, <2>1, <2>2
  <2>3. CASE at \notin Buffers
    <3>1. bufRest' = bufRest
      BY <1>2, <2>1, <2>3
    <3> QED BY <2>1, <2>3, <3>1
  <2> QED BY <2>2, <2>3
<1>7. Shape'
  BY <1>2, <1>3, <1>4, <1>6 DEF SingleInv, Shape
<1>8. Course' /\ Connections'
  BY <1>1, <1>2, <1>3, <1>4, <1>5 DEF SingleInv, Course, Connections, Before, HasObject
<1>9. Posts'
  BY <1>1, <1>2, <1>4 DEF SingleInv, Posts
<1>10. Offsets'
  <2>1. \A i \in Buffers : Owed(i) = 0
    BY <1>1 DEF Owed, HasObject
  <2>2. \A i \in Buffers : Owed(i)' = IF i = job[j].idx THEN n ELSE 0
    BY <1>3, <1>4, <1>5 DEF Owed, HasObject, n
  <2>3. \A i \in Buffers : bufOffset[curProxy][i] = ShardSize - bufRest[i]
    BY <1>1, <2>1, SizeType DEF SingleInv, Offsets, Shape
  <2>4. \A i \in Buffers : bufOffset[curProxy][i] = ShardSize - bufRest'[i] - Owed(i)'
    BY <1>1, <1>6, <2>2, <2>3, SizeType DEF SingleInv, Shape
  <2> QED BY <1>1, <1>2, <1>4, <2>4 DEF SingleInv, Offsets
<1>11. Tables'
  BY <1>1, <1>2, <1>3, <1>4, <1>5 DEF SingleInv, Tables
<1> QED BY <1>4, <1>7, <1>8, <1>9, <1>10, <1>11 DEF SingleInv

LEMMA SinglePublishing ==
  ASSUME SingleInv, NEW j \in Jobs, UploadPublish(j)
  PROVE  SingleInv'
<1>1. /\ Busy /\ j = sets /\ sets \in Jobs /\ Cur = job[j]
      /\ At = "publish" /\ Thread = job[j].tpc /\ job[j].key \in Keys
  BY TheSet DEF UploadPublish
<1>2. /\ job' = [job EXCEPT ![j].upc = "replied"]
      /\ updating' = [updating EXCEPT ![job[j].key] = job[j].obj]
      /\ UNCHANGED <<sets, cpc, cjob, commit, curStripe, curProxy, bufRest,
                     keyInBuffer, enc, sem, backlog, bufOffset>>
  BY DEF UploadPublish
<1>3. /\ \A i \in Jobs \ {j} : job'[i] = job[i]
      /\ DOMAIN job' = Jobs /\ HasFields(job'[j])
      /\ job'[j].upc = "replied" /\ job'[j].tpc = job[j].tpc
      /\ job'[j].reply = job[j].reply /\ job'[j].obj = job[j].obj
      /\ job'[j].proxy = job[j].proxy /\ job'[j].idx = job[j].idx
      /\ job'[j].key = job[j].key /\ job'[j].val = job[j].val
  BY <1>2 DEF SingleInv, Shape, HasFields
<1>4. /\ OneAtATime' /\ Busy' /\ Cur' = job'[j] /\ At' = "replied" /\ Thread' = Thread
      /\ \A i \in Jobs : HasFields(job'[i])
  BY <1>1, <1>2, <1>3, SetGoesOn
<1>5. cpc[client] = "upload" /\ Thread = "accept"
  BY <1>1 DEF SingleInv, Course, Busy, Before
<1>6. Shape'
  BY <1>2, <1>3, <1>4 DEF SingleInv, Shape
<1>7. Course' /\ Connections'
  BY <1>1, <1>2, <1>3, <1>4, <1>5 DEF SingleInv, Course, Connections, Before, HasObject
<1>8. Posts'
  BY <1>1, <1>2, <1>4 DEF SingleInv, Posts
<1>9. Offsets'
  <2>1. \A i \in Buffers : Owed(i)' = Owed(i)
    BY <1>1, <1>3, <1>4 DEF Owed, HasObject
  <2> QED BY <1>1, <1>2, <1>4, <2>1 DEF SingleInv, Offsets
<1>10. Tables'
  <2>1. \A k \in Keys : updating[k] = Absent
    BY <1>1 DEF SingleInv, Tables
  <2>2. \A k \in Keys : updating'[k] = IF k = job[j].key THEN job[j].obj ELSE Absent
    BY <1>2, <2>1 DEF SingleInv, Shape
  <2> QED BY <1>1, <1>2, <1>3, <1>4, <1>5, <2>2 DEF SingleInv, Tables
<1> QED BY <1>4, <1>6, <1>7, <1>8, <1>9, <1>10 DEF SingleInv

-----------------------------------------------------------------------------
(* The threads of the proxy                                                *)

(* The thread takes the connection of its own set, and pays what it owes.  *)
LEMMA SingleWriting ==
  ASSUME SingleInv, NEW j \in Jobs, WriteBuffer(j)
  PROVE  SingleInv'
<1> DEFINE n == Size[job[j].val]
<1>1. /\ Busy /\ j = sets /\ sets \in Jobs /\ Cur = job[j]
      /\ At = job[j].upc /\ Thread = "accept" /\ job[j].key \in Keys
      /\ n \in Nat
  BY TheSet, SizeType DEF WriteBuffer
<1> HIDE DEF n
<1>2. At \in {"record"} \cup HasObject /\ job[j].proxy = curProxy /\ curProxy \in AZs
  BY <1>1 DEF SingleInv, Course, Shape, HasObject
<1>3. /\ cpc[client] = "check"
      /\ backlog[curProxy] = <<[key |-> job[j].key, val |-> job[j].val]>>
  BY <1>1, <1>2 DEF SingleInv, Connections, WriteBuffer
<1>4. At = "replied"
  BY <1>1, <1>3 DEF SingleInv, Course
<1>5. Head(backlog[curProxy]).key = job[j].key /\ Tail(backlog[curProxy]) = <<>>
  BY <1>3
<1>6. /\ job' = [job EXCEPT ![j].tpc = "report"]
      /\ backlog' = [backlog EXCEPT ![curProxy] = <<>>]
      /\ bufOffset' = [bufOffset EXCEPT ![curProxy][job[j].idx] = @ + n]
      /\ UNCHANGED <<sets, cpc, cjob, commit, updating, curStripe, curProxy, bufRest,
                     keyInBuffer, enc, sem>>
  BY <1>2, <1>5 DEF WriteBuffer, n
<1>7. /\ \A i \in Jobs \ {j} : job'[i] = job[i]
      /\ DOMAIN job' = Jobs /\ HasFields(job'[j])
      /\ job'[j].upc = job[j].upc /\ job'[j].tpc = "report"
      /\ job'[j].reply = job[j].reply /\ job'[j].obj = job[j].obj
      /\ job'[j].proxy = job[j].proxy /\ job'[j].idx = job[j].idx
      /\ job'[j].key = job[j].key /\ job'[j].val = job[j].val
  BY <1>6 DEF SingleInv, Shape, HasFields
<1>8. /\ OneAtATime' /\ Busy' /\ Cur' = job'[j] /\ At' = At /\ Thread' = "report"
      /\ \A i \in Jobs : HasFields(job'[i])
  BY <1>1, <1>6, <1>7, SetGoesOn
<1>9. /\ bufOffset' \in [AZs -> [Buffers -> Int]]
      /\ \A a \in AZs, i \in Buffers :
           bufOffset'[a][i] = bufOffset[a][i]
                              + (IF a = curProxy /\ i = job[j].idx THEN n ELSE 0)
  <2>1. bufOffset \in [AZs -> [Buffers -> Int]]
    BY DEF SingleInv, Shape
  <2>2. CASE job[j].idx \in Buffers
    BY <1>1, <1>2, <1>6, <2>1, <2>2
  <2>3. CASE job[j].idx \notin Buffers
    <3>1. bufOffset[curProxy] \in [Buffers -> Int]
      BY <1>2, <2>1
    <3>2. bufOffset' = bufOffset
      BY <1>2, <1>6, <2>1, <2>3, <3>1
    <3> QED BY <2>1, <2>3, <3>2
  <2> QED BY <2>2, <2>3
<1>10. Shape'
  BY <1>6, <1>7, <1>8, <1>9 DEF SingleInv, Shape
<1>11. Course'
  BY <1>1, <1>3, <1>4, <1>6, <1>7, <1>8 DEF SingleInv, Course, Before, HasObject
<1>12. Connections'
  BY <1>1, <1>6, <1>8 DEF SingleInv, Connections, Shape
<1>13. Posts'
  BY <1>1, <1>6, <1>8 DEF SingleInv, Posts
<1>14. Offsets'
  <2>1. \A i \in Buffers : Owed(i) = IF i = job[j].idx THEN n ELSE 0
    BY <1>1, <1>4 DEF Owed, HasObject, n
  <2>2. \A i \in Buffers : Owed(i)' = 0
    BY <1>8 DEF Owed
  <2>3. \A i \in Buffers : bufOffset'[curProxy][i] = ShardSize - bufRest[i]
    BY <1>1, <1>2, <1>4, <1>9, <2>1, SizeType DEF SingleInv, Offsets, Shape
  <2>4. \A a \in AZs, i \in Buffers : a # curProxy => bufOffset'[a][i] = 0
    BY <1>9 DEF SingleInv, Offsets
  <2> QED BY <1>4, <1>6, <1>8, <2>2, <2>3, <2>4, SizeType DEF SingleInv, Offsets, Shape
<1>15. Tables'
  BY <1>1, <1>6, <1>7, <1>8 DEF SingleInv, Tables
<1> QED BY <1>8, <1>10, <1>11, <1>12, <1>13, <1>14, <1>15 DEF SingleInv

LEMMA SingleReporting ==
  ASSUME SingleInv, NEW j \in Jobs, ReportCommitAbort(j)
  PROVE  SingleInv'
<1> DEFINE k == job[j].key
<1>1. /\ Busy /\ j = sets /\ sets \in Jobs /\ Cur = job[j]
      /\ At = job[j].upc /\ Thread = "report" /\ k \in Keys
  BY TheSet DEF ReportCommitAbort
<1>2. cpc[client] = "check" /\ At = "replied"
  BY <1>1 DEF SingleInv, Course, Busy
<1> HIDE DEF k
<1>3. /\ job' = [job EXCEPT ![j].tpc = "done"]
      /\ commit' = [commit EXCEPT ![k] =
                      IF updating[k] = Absent THEN NoObject ELSE updating[k]]
      /\ updating' = [updating EXCEPT ![k] = Absent]
      /\ UNCHANGED <<sets, cpc, cjob, curStripe, curProxy, bufRest, keyInBuffer,
                     enc, sem, backlog, bufOffset>>
  BY DEF ReportCommitAbort, k
<1>4. /\ \A i \in Jobs \ {j} : job'[i] = job[i]
      /\ DOMAIN job' = Jobs /\ HasFields(job'[j])
      /\ job'[j].upc = job[j].upc /\ job'[j].tpc = "done"
      /\ job'[j].reply = job[j].reply /\ job'[j].obj = job[j].obj
      /\ job'[j].proxy = job[j].proxy /\ job'[j].idx = job[j].idx
      /\ job'[j].key = job[j].key /\ job'[j].val = job[j].val
  BY <1>3 DEF SingleInv, Shape, HasFields
<1>5. /\ OneAtATime' /\ Busy' /\ Cur' = job'[j] /\ At' = At /\ Thread' = "done"
      /\ \A i \in Jobs : HasFields(job'[i])
  BY <1>1, <1>3, <1>4, SetGoesOn
<1>6. Shape'
  BY <1>3, <1>4, <1>5 DEF SingleInv, Shape
<1>7. Course' /\ Connections'
  BY <1>1, <1>2, <1>3, <1>4, <1>5 DEF SingleInv, Course, Connections, Before, HasObject
<1>8. Posts'
  BY <1>1, <1>3, <1>5 DEF SingleInv, Posts
<1>9. Offsets'
  <2>1. \A i \in Buffers : Owed(i)' = 0 /\ Owed(i) = 0
    BY <1>1, <1>5 DEF Owed
  <2> QED BY <1>3, <1>5, <2>1 DEF SingleInv, Offsets
<1>10. Tables'
  <2>1. updating[k] # Absent => updating[k].stripe = curStripe
    BY <1>1, <1>2 DEF SingleInv, Tables, Course, HasObject
  <2>2. commit'[k] = NoObject \/ commit'[k].stripe = curStripe
    BY <1>1, <1>3, <2>1 DEF SingleInv, Shape
  <2>3. \A i \in Keys : i # k => commit'[i] = commit[i]
    BY <1>3
  <2>4. \A i \in Keys : updating'[i] = Absent
    BY <1>1, <1>3 DEF SingleInv, Shape, Tables, k
  <2> QED BY <1>3, <1>5, <2>2, <2>3, <2>4 DEF SingleInv, Tables
<1> QED BY <1>5, <1>6, <1>7, <1>8, <1>9, <1>10 DEF SingleInv

LEMMA SingleCopying ==
  ASSUME SingleInv, NEW j \in Jobs, EncodeCopy(j)
  PROVE  SingleInv'
<1>1. j = sets /\ At = "wait" /\ enc[j].proxy = curProxy /\ curProxy \in AZs
  BY DEF SingleInv, Posts, Shape, EncodeCopy
<1>2. /\ enc' = [enc EXCEPT ![j].pc = "save", ![j].data = proxyBuf[enc[j].proxy],
                            ![j].todo = Buffers]
      /\ sem' = [sem EXCEPT ![curProxy] = @ + 1]
      /\ UNCHANGED <<sets, cpc, cjob, job, commit, updating, curStripe, curProxy,
                     bufRest, keyInBuffer, backlog, bufOffset>>
  BY <1>1 DEF EncodeCopy, ToSend, Post
<1>3. /\ \A i \in Jobs \ {j} : enc'[i] = enc[i]
      /\ DOMAIN enc' = Jobs /\ IsEnc(enc'[j])
      /\ enc'[j].pc = "save" /\ enc'[j].proxy = curProxy
  BY <1>1, <1>2 DEF SingleInv, Shape, IsEnc
<1>4. /\ sem' \in [AZs -> Nat]
      /\ \A a \in AZs : sem'[a] = IF a = curProxy THEN 1 ELSE 0
  BY <1>1, <1>2 DEF SingleInv, Posts, Shape, EncodeCopy
<1>5. (Busy' <=> Busy) /\ At' = At /\ Thread' = Thread /\ Cur' = Cur
  BY <1>2 DEF Busy, At, Thread, Cur
<1>6. Shape'
  BY <1>2, <1>3, <1>4 DEF SingleInv, Shape
<1>7. OneAtATime' /\ Course' /\ Connections'
  BY <1>2, <1>5 DEF SingleInv, OneAtATime, Course, Connections
<1>8. Posts'
  BY <1>1, <1>2, <1>3, <1>4, <1>5 DEF SingleInv, Posts
<1>9. Offsets' /\ Tables'
  BY <1>2, <1>5 DEF SingleInv, Offsets, Owed, Tables
<1> QED BY <1>6, <1>7, <1>8, <1>9 DEF SingleInv

LEMMA SingleSaving ==
  ASSUME SingleInv, NEW j \in Jobs, NEW i \in Buffers, SetToMemcached(j, i)
  PROVE  SingleInv'
<1>1. /\ enc' = [enc EXCEPT ![j].todo = @ \ {i}]
      /\ UNCHANGED <<sets, cpc, cjob, job, commit, updating, curStripe, curProxy,
                     bufRest, keyInBuffer, sem, backlog, bufOffset>>
  BY DEF SetToMemcached
<1>2. /\ DOMAIN enc' = Jobs
      /\ \A m \in Jobs : IsEnc(enc'[m]) /\ enc'[m].pc = enc[m].pc
                                        /\ enc'[m].proxy = enc[m].proxy
  BY <1>1 DEF SingleInv, Shape, IsEnc
<1> QED BY <1>1, <1>2, SingleElsewhere DEF SingleInv, Shape

(* The steps of a get, and those of no one.                                *)
LEMMA SingleGetting ==
  ASSUME OneClient, SingleInv,
         \/ \E c \in Clients : \/ GetValue(c) \/ Route(c)
                               \/ GetObjectFromBuffer(c) \/ GetFromMemcached(c)
                               \/ \E k \in KeysOf[c] : Get(c, k)
         \/ UNCHANGED vars
  PROVE  SingleInv'
<1>1. /\ UNCHANGED <<sets, job, cjob, commit, updating, curStripe, curProxy, bufRest,
                     keyInBuffer, enc, sem, backlog, bufOffset>>
      /\ \/ UNCHANGED cpc
         \/ /\ cpc[client] \in {"idle", "lookup", "route", "buffer", "node"}
            /\ \E pc \in {"idle", "lookup", "route", "buffer", "node", "stuck"} :
                 cpc' = [cpc EXCEPT ![client] = pc]
  <2>1. CASE UNCHANGED vars
    BY <2>1 DEF vars
  <2>2. ASSUME NEW c \in Clients,
               \/ GetValue(c) \/ Route(c) \/ GetObjectFromBuffer(c) \/ GetFromMemcached(c)
               \/ \E k \in KeysOf[c] : Get(c, k)
        PROVE  <1>1!1 /\ <1>1!2
    <3>1. c = client
      BY DEF OneClient
    <3> QED BY <2>2, <3>1 DEF GetValue, Route, GetObjectFromBuffer, GetFromMemcached, Get
  <2> QED BY <2>1, <2>2
<1>2. /\ DOMAIN cpc' = Clients
      /\ cpc'[client] = cpc[client] \/ (~Busy /\ ~Busy')
  BY <1>1 DEF SingleInv, Shape, OneClient, Busy
<1> QED BY <1>1, <1>2, SingleElsewhere DEF SingleInv, Shape

LEMMA SingleStep ==
  ASSUME OneClient
  PROVE  SingleInv /\ [Next]_vars => SingleInv'
<1> SUFFICES ASSUME SingleInv, [Next]_vars PROVE SingleInv'
  OBVIOUS
<1>1. ASSUME NEW c \in Clients, Connect(c) \/ CheckCommitAbort(c)
      PROVE  SingleInv'
  BY <1>1, SingleConnecting, SingleChecking
<1>2. ASSUME NEW c \in Clients, NEW k \in KeysOf[c], NEW v \in Vals, Set(c, k, v)
      PROVE  SingleInv'
  BY <1>2, SingleCalling
<1>3. ASSUME NEW j \in Jobs, JobStep(j)
      PROVE  SingleInv'
  BY <1>3, SingleErasing, SingleChoosing, SingleRolling, SingleReiniting,
     SingleRenewing, SingleStarting, SingleRecording, SinglePublishing,
     SingleWriting, SingleReporting DEF JobStep
<1>4. ASSUME NEW j \in Jobs, EncoderStep(j)
      PROVE  SingleInv'
  BY <1>4, SingleCopying, SingleSaving DEF EncoderStep
<1>5. ASSUME NEW c \in Clients, ClientStep(c)
      PROVE  SingleInv'
  BY <1>1, <1>5, SingleGetting DEF ClientStep
<1>6. ASSUME NEW c \in Clients, NEW k \in KeysOf[c], Get(c, k)
      PROVE  SingleInv'
  BY <1>6, SingleGetting
<1>7. CASE Finished \/ UNCHANGED vars
  BY <1>7, SingleGetting DEF Finished
<1> QED BY <1>2, <1>3, <1>4, <1>5, <1>6, <1>7 DEF Next

-----------------------------------------------------------------------------
LEMMA SingleIsBookkeeping == SingleInv => BookkeepingAgrees
<1> SUFFICES ASSUME SingleInv,
                    \A j \in Jobs : /\ job[j].upc \in {"unused", "replied"}
                                    /\ job[j].tpc \in {"none", "done"},
                    NEW i \in Buffers
             PROVE  bufOffset[curProxy][i] = ShardSize - bufRest[i]
  BY DEF BookkeepingAgrees
<1>1. At # "renew" /\ Thread # "accept"
  BY DEF SingleInv, OneAtATime, At, Thread, Cur
<1>2. Owed(i) = 0
  BY <1>1 DEF Owed
<1> QED BY <1>1, <1>2, SizeType DEF SingleInv, Offsets, Shape

LEMMA SingleIsBuffered == SingleInv => BufferedIsCurrent
BY DEF SingleInv, Tables, BufferedIsCurrent, Committed

(* Whenever no small set is under way, buf_rest of the coordinator and     *)
(* buf_offset of the proxy it writes to agree, after any number of rolls   *)
(* to any sequence of proxies.                                             *)
THEOREM Agreement ==
  ASSUME OneClient, SemInit = 0
  PROVE  Spec => []BookkeepingAgrees
<1>1. Init => SingleInv
  BY InitSingle
<1>2. SingleInv /\ [Next]_vars => SingleInv'
  BY SingleStep
<1> QED BY <1>1, <1>2, SingleIsBookkeeping, PTL DEF Spec

(* getValue looks in the buffers only for objects of the stripe that is    *)
(* being gathered in them.                                                 *)
THEOREM BufferedCurrent ==
  ASSUME OneClient, SemInit = 0
  PROVE  Spec => []BufferedIsCurrent
<1>1. Init => SingleInv
  BY InitSingle
<1>2. SingleInv /\ [Next]_vars => SingleInv'
  BY SingleStep
<1> QED BY <1>1, <1>2, SingleIsBuffered, PTL DEF Spec
=============================================================================
