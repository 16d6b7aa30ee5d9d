------------------------- MODULE SmallSingle_proofs -------------------------
(***************************************************************************)
(* Proofs about the bytes of SmallObjects with one client, semaphores that *)
(* start at zero and values that are read whole: for every number of keys, *)
(* values, buffers, proxies, datanodes, sets and gets, no byte is lost,    *)
(* and while gets wait for saving, set and get implement ObjectStore.      *)
(***************************************************************************)
EXTENDS SmallObjects_proofs

USE DEF clientVars, tableVars, stripeVars, coordVars, getVars, bufVars, nodeVars

-----------------------------------------------------------------------------
(* The steps of one client's system                                        *)

(* A step is one of the client, of the set under way, or of a thread that  *)
(* saves a stripe.                                                         *)
LEMMA Steps ==
  ASSUME OneClient, SingleInv, [Next]_vars
  PROVE  \/ \E k \in KeysOf[client] :
              Get(client, k) \/ \E v \in Vals : Set(client, k, v)
         \/ ClientStep(client)
         \/ JobStep(sets) /\ sets \in Jobs
         \/ EncodeCopy(sets) /\ sets \in Jobs
         \/ \E j \in Jobs, i \in Buffers : SetToMemcached(j, i)
         \/ UNCHANGED vars
<1>1. ASSUME NEW j \in Jobs, JobStep(j)
      PROVE  j = sets
  <2>1. \/ job[j].upc \in {"erase", "choose", "roll", "wait", "renew", "write", "record",
                           "publish"}
        \/ job[j].tpc \in {"accept", "report"}
    BY <1>1 DEF JobStep, UploadErase, ChooseBuffer, Roll, ReinitBuffers, NewStripe,
       StartWrite, RecordObject, UploadPublish, WriteBuffer, ReportCommitAbort
  <2> QED BY <2>1, TheSet, SMTT(30)
<1>2. ASSUME NEW j \in Jobs, EncodeCopy(j)
      PROVE  j = sets
  BY <1>2 DEF SingleInv, Posts, EncodeCopy
<1>3. \A c \in Clients : c = client
  BY DEF OneClient
<1> QED BY <1>1, <1>2, <1>3 DEF Next, EncoderStep, Finished

(* The set under way keeps its key and its value, and what was recorded of *)
(* it and what its thread has done stays.                                  *)
Moves ==
  /\ Busy /\ Busy' /\ sets \in Jobs /\ sets \in Nat
  /\ UNCHANGED <<clientVars, sets, getVars, up, disk>>
  /\ DOMAIN job' = Jobs /\ \A i \in Jobs \ {sets} : job'[i] = job[i]
  /\ job'[sets].key = job[sets].key /\ job'[sets].val = job[sets].val
  /\ job[sets].key \in Keys /\ job[sets].val \in Vals
  /\ job[sets].upc # "unused" /\ job'[sets].upc \notin {"unused", "erase"}
  /\ Recorded(sets) => /\ Recorded(sets)' /\ job'[sets].obj = job[sets].obj
                       /\ job'[sets].idx = job[sets].idx
  /\ job[sets].tpc # "done"
  /\ Written(sets) => Written(sets)'
  /\ Cur = job[sets] /\ Cur' = job'[sets]
  /\ At = job[sets].upc /\ At' = job'[sets].upc
  /\ Thread = job[sets].tpc /\ Thread' = job'[sets].tpc

LEMMA JobMoves ==
  ASSUME SingleInv, JobStep(sets), sets \in Jobs
  PROVE  Moves
<1>1. \/ job[sets].upc \in {"erase", "choose", "roll", "wait", "renew", "write", "record",
                            "publish"}
      \/ job[sets].tpc \in {"accept", "report"}
  BY SMTT(30) DEF JobStep, UploadErase, ChooseBuffer, Roll, ReinitBuffers, NewStripe,
     StartWrite, RecordObject, UploadPublish, WriteBuffer, ReportCommitAbort
<1>2. /\ Busy /\ Cur = job[sets] /\ At = job[sets].upc /\ Thread = job[sets].tpc
      /\ job[sets].key \in Keys /\ job[sets].val \in Vals /\ sets \in Nat
  BY <1>1, TheSet, NumberOfSets
<1>3. UNCHANGED <<clientVars, sets, getVars, up, disk>>
  BY DEF JobStep, UploadErase, ChooseBuffer, Roll, ReinitBuffers, NewStripe,
     StartWrite, RecordObject, UploadPublish, WriteBuffer, ReportCommitAbort
<1>4. Busy' /\ Cur' = job'[sets] /\ At' = job'[sets].upc /\ Thread' = job'[sets].tpc
  BY <1>2, <1>3 DEF Busy, Cur, At, Thread
<1>5. /\ job[sets].upc \in Before => job[sets].tpc = "none"
      /\ job[sets].upc \in Before \cup {"record", "publish", "replied"}
      /\ job[sets].tpc \in {"accept", "report"} => job[sets].upc \notin Before
      /\ job[sets].upc \in {"record", "publish"} => job[sets].tpc \in {"none", "accept"}
  BY <1>2 DEF SingleInv, Course, HasObject, Busy, Before
<1>6. job[sets].tpc # "done"
  <2>1. job[sets].upc = "publish" => job[sets].tpc # "done"
    BY <1>5
  <2> QED BY <1>1, <1>5 DEF Before
<1>7. DOMAIN job = Jobs /\ HasFields(job[sets])
  BY DEF SingleInv, Shape
<1> DEFINE goes(upc, tpc) ==
      /\ DOMAIN job' = Jobs /\ \A i \in Jobs \ {sets} : job'[i] = job[i]
      /\ job'[sets].key = job[sets].key /\ job'[sets].val = job[sets].val
      /\ job'[sets].upc = upc /\ job'[sets].tpc = tpc
      /\ Recorded(sets) => /\ job'[sets].obj = job[sets].obj
                           /\ job'[sets].idx = job[sets].idx
<1>8. \/ job[sets].upc = "erase" /\ goes("choose", job[sets].tpc)
      \/ job[sets].upc = "choose" /\ goes("write", job[sets].tpc)
      \/ job[sets].upc = "choose" /\ goes("roll", job[sets].tpc)
      \/ job[sets].upc = "roll" /\ goes("wait", job[sets].tpc)
      \/ job[sets].upc = "wait" /\ goes("renew", job[sets].tpc)
      \/ job[sets].upc = "renew" /\ goes("write", job[sets].tpc)
      \/ job[sets].upc = "write" /\ goes("record", "accept")
      \/ job[sets].upc = "record" /\ goes("publish", job[sets].tpc)
      \/ job[sets].upc = "publish" /\ goes("replied", job[sets].tpc)
      \/ job[sets].tpc = "accept" /\ goes(job[sets].upc, "report")
      \/ job[sets].tpc = "report" /\ goes(job[sets].upc, "done")
  <2>1. UploadErase(sets) => job[sets].upc = "erase" /\ goes("choose", job[sets].tpc)
    BY <1>7 DEF UploadErase, HasFields
  <2>2. ChooseBuffer(sets) => /\ job[sets].upc = "choose"
                              /\ goes("write", job[sets].tpc) \/ goes("roll", job[sets].tpc)
    BY <1>7 DEF ChooseBuffer, HasFields, Recorded
  <2>3. Roll(sets) => job[sets].upc = "roll" /\ goes("wait", job[sets].tpc)
    BY <1>7 DEF Roll, HasFields
  <2>4. ReinitBuffers(sets) => job[sets].upc = "wait" /\ goes("renew", job[sets].tpc)
    BY <1>7 DEF ReinitBuffers, HasFields
  <2>5. NewStripe(sets) => job[sets].upc = "renew" /\ goes("write", job[sets].tpc)
    BY <1>7 DEF NewStripe, HasFields
  <2>6. StartWrite(sets) => job[sets].upc = "write" /\ goes("record", "accept")
    BY <1>7 DEF StartWrite, HasFields
  <2>7. RecordObject(sets) => job[sets].upc = "record" /\ goes("publish", job[sets].tpc)
    BY <1>7 DEF RecordObject, HasFields, Recorded
  <2>8. UploadPublish(sets) => job[sets].upc = "publish" /\ goes("replied", job[sets].tpc)
    BY <1>7 DEF UploadPublish, HasFields
  <2>9. WriteBuffer(sets) => job[sets].tpc = "accept" /\ goes(job[sets].upc, "report")
    BY <1>7 DEF WriteBuffer, HasFields
  <2>10. ReportCommitAbort(sets) => job[sets].tpc = "report" /\ goes(job[sets].upc, "done")
    BY <1>7 DEF ReportCommitAbort, HasFields
  <2> HIDE DEF goes
  <2> QED BY <2>1, <2>2, <2>3, <2>4, <2>5, <2>6, <2>7, <2>8, <2>9, <2>10 DEF JobStep
<1>9. /\ DOMAIN job' = Jobs /\ \A i \in Jobs \ {sets} : job'[i] = job[i]
      /\ job'[sets].key = job[sets].key /\ job'[sets].val = job[sets].val
      /\ Recorded(sets) => /\ job'[sets].obj = job[sets].obj
                           /\ job'[sets].idx = job[sets].idx
  BY <1>8
<1> DEFINE was == job[sets].upc
           is == job'[sets].upc
           thread == job[sets].tpc
           next == job'[sets].tpc
<1>10. \/ was = "erase" /\ is = "choose" /\ next = thread
       \/ was = "choose" /\ is \in {"write", "roll"} /\ next = thread
       \/ was = "roll" /\ is = "wait" /\ next = thread
       \/ was = "wait" /\ is = "renew" /\ next = thread
       \/ was = "renew" /\ is = "write" /\ next = thread
       \/ was = "write" /\ is = "record" /\ next = "accept"
       \/ was \in {"record", "publish"} /\ is \in {"publish", "replied"} /\ next = thread
       \/ thread \in {"accept", "report"} /\ is = was /\ next \in {"report", "done"}
  BY <1>8
<1> HIDE DEF goes
<1>11. /\ was # "unused" /\ is \notin {"unused", "erase"}
       /\ was \in {"publish", "replied"} => is \in {"publish", "replied"}
       /\ thread \in {"report", "done"} => next \in {"report", "done"}
  <2> HIDE DEF was, is, thread, next
  <2>1. /\ was \in Before => thread = "none"
        /\ was \in Before \cup {"record", "publish", "replied"}
        /\ thread \in {"accept", "report"} => was \notin Before
        /\ was \in {"record", "publish"} => thread \in {"none", "accept"}
    BY <1>5 DEF was, thread
  <2> QED BY <1>10, <2>1 DEF Before
<1>12. /\ Recorded(sets) => Recorded(sets)'
       /\ Written(sets) => Written(sets)'
  BY <1>3, <1>11 DEF Recorded, Written
<1> QED BY <1>2, <1>3, <1>4, <1>6, <1>9, <1>11, <1>12, SMTT(30) DEF Moves

(* Every other set has ended or has not begun.                             *)
LEMMA Others ==
  ASSUME SingleInv, NEW i \in Jobs, i # sets \/ ~Busy
  PROVE  \/ i <= sets /\ job[i].upc = "replied" /\ job[i].tpc = "done"
         \/ i > sets /\ job[i].upc = "unused" /\ job[i].tpc = "none"
<1>1. i \in Int /\ sets \in Int
  BY NumberOfSets DEF SingleInv, Shape
<1> QED BY <1>1 DEF SingleInv, OneAtATime

LEMMA WrittenIsRecorded ==
  ASSUME SingleInv, NEW j \in Jobs, Written(j)
  PROVE  /\ Recorded(j) /\ j <= sets
         /\ \/ job[j].tpc = "done"
            \/ j = sets /\ Busy /\ At = "replied" /\ Thread = "report"
<1>1. CASE j # sets \/ ~Busy
  BY <1>1, Others DEF Written, Recorded
<1>2. CASE j = sets /\ Busy
  <2>1. Cur = job[j] /\ Thread = job[j].tpc /\ At = job[j].upc /\ j <= sets
    BY <1>2, NumberOfSets DEF Cur, Thread, At
  <2>2. Thread \in {"report", "done"} /\ At = "replied"
    BY <1>2, <2>1 DEF Written, SingleInv, Course, Busy
  <2> QED BY <1>2, <2>1, <2>2 DEF Recorded
<1> QED BY <1>1, <1>2

LEMMA RecordedIsWritten ==
  ASSUME SingleInv, NEW j \in Jobs, Recorded(j), j # sets \/ ~Busy
  PROVE  Written(j)
BY Others DEF Recorded, Written

(* The client's steps within a call, and steps of no one, change neither   *)
(* metadata nor buffers.                                                   *)
Quiet ==
  /\ UNCHANGED <<tableVars, stripeVars, sets, job, enc, bufVars, disk>>
  /\ up' \in [Nodes -> BOOLEAN] /\ \A n \in Nodes : up'[n] => up[n]
  /\ \/ At' = At /\ Thread' = Thread /\ (Busy' <=> Busy)
     \/ /\ CheckCommitAbort(client) /\ Busy /\ ~Busy'
        /\ At = "replied" /\ At' = "idle" /\ Thread = "done" /\ Thread' = "done"

LEMMA ClientIsQuiet ==
  ASSUME OneClient, SingleInv, up \in [Nodes -> BOOLEAN],
         \/ ClientStep(client) \/ (\E k \in KeysOf[client] : Get(client, k))
         \/ UNCHANGED vars
  PROVE  Quiet
<1>1. UNCHANGED <<tableVars, stripeVars, sets, job, enc, bufVars, disk>>
  BY DEF ClientStep, Connect, CheckCommitAbort, GetValue, Route, GetObjectFromBuffer,
     GetFromMemcached, Get, vars
<1>2. up' \in [Nodes -> BOOLEAN] /\ \A n \in Nodes : up'[n] => up[n]
  <2>1. CASE UNCHANGED up
    BY <2>1
  <2>2. CASE GetFromMemcached(client)
    BY <2>2 DEF GetFromMemcached
  <2> QED BY <2>1, <2>2 DEF ClientStep, Connect, CheckCommitAbort, GetValue, Route,
             GetObjectFromBuffer, Get, vars
<1>3. DOMAIN cpc = Clients /\ client \in Clients
  BY DEF SingleInv, Shape, OneClient
<1>4. CASE CheckCommitAbort(client)
  <2>1. cpc'[client] = "idle" /\ Busy /\ cjob[client] = sets
    BY <1>3, <1>4 DEF CheckCommitAbort, Busy, SingleInv, OneAtATime
  <2>2. At = "replied" /\ commit[Cur.key] # Absent
    BY <1>4, <2>1 DEF CheckCommitAbort, SingleInv, Course, Cur
  <2>3. Thread = "done"
    BY <2>1, <2>2 DEF SingleInv, Tables
  <2>4. ~Busy'
    BY <2>1 DEF Busy
  <2> QED BY <1>1, <1>2, <1>4, <2>1, <2>2, <2>3, <2>4 DEF Quiet, At, Thread
<1>5. CASE ~CheckCommitAbort(client)
  <2>1. cpc'[client] \in {"upload", "check"} <=> cpc[client] \in {"upload", "check"}
    <3>1. CASE Connect(client)
      BY <1>3, <3>1 DEF Connect
    <3>2. CASE GetValue(client) \/ Route(client)
      BY <1>3, <3>2 DEF GetValue, Route
    <3>3. CASE GetObjectFromBuffer(client) \/ GetFromMemcached(client)
      BY <1>3, <3>3 DEF GetObjectFromBuffer, GetFromMemcached
    <3>4. CASE \E k \in KeysOf[client] : Get(client, k)
      BY <1>3, <3>4 DEF Get
    <3>5. CASE UNCHANGED vars
      BY <3>5 DEF vars
    <3> QED BY <1>5, <3>1, <3>2, <3>3, <3>4, <3>5 DEF ClientStep
  <2>2. Busy' <=> Busy
    BY <2>1 DEF Busy
  <2>3. At' = At /\ Thread' = Thread
    BY <1>1, <2>2 DEF At, Thread, Cur
  <2> QED BY <1>1, <1>2, <2>2, <2>3 DEF Quiet
<1> QED BY <1>4, <1>5

(* A new set: its job is the next one.                                     *)
Begins(k, v) ==
  /\ sets + 1 \in Jobs /\ sets' = sets + 1 /\ sets \in Nat /\ k \in Keys
  /\ cpc[client] = "idle" /\ cpc'[client] = "upload" /\ cjob'[client] = sets + 1
  /\ DOMAIN job' = Jobs /\ \A i \in Jobs : i # sets + 1 => job'[i] = job[i]
  /\ job'[sets + 1] = [job[sets + 1] EXCEPT !.key = k, !.val = v, !.upc = "erase"]
  /\ job'[sets + 1].key = k /\ job'[sets + 1].val = v /\ job'[sets + 1].upc = "erase"
  /\ job[sets + 1].upc = "unused"
  /\ job[sets + 1].tpc = "none" /\ job'[sets + 1].tpc = "none"
  /\ ~Busy /\ Busy' /\ Cur' = job'[sets + 1]
  /\ At = "idle" /\ At' = "erase" /\ Thread = "done" /\ Thread' = "none"
  /\ UNCHANGED <<ckey, keyValues, coordVars, enc, getVars, bufVars, backlog, nodeVars>>

LEMMA SetBegins ==
  ASSUME OneClient, SingleInv, NEW k \in KeysOf[client], NEW v \in Vals,
         Set(client, k, v)
  PROVE  Begins(k, v)
<1> DEFINE j == sets + 1
<1>1. client \in Clients /\ ~Busy /\ k \in Keys /\ sets \in 0..MaxSets
  BY KeysOfAssumption DEF OneClient, Set, Busy, SingleInv, Shape
<1>2. j \in Jobs /\ j \in Nat /\ sets \in Nat /\ j > sets /\ j # sets
  BY <1>1, NumberOfSets DEF Set
<1>3. /\ sets' = j
      /\ cpc' = [cpc EXCEPT ![client] = "upload"]
      /\ cjob' = [cjob EXCEPT ![client] = j]
      /\ job' = [job EXCEPT ![j].key = k, ![j].val = v, ![j].upc = "erase"]
      /\ UNCHANGED <<ckey, keyValues, coordVars, enc, getVars, bufVars, backlog, nodeVars>>
      /\ cpc[client] = "idle"
  BY DEF Set
<1>4. job[j].upc = "unused" /\ job[j].tpc = "none"
  BY <1>2, Others
<1>5. sets + 1 = j
  OBVIOUS
<1> HIDE DEF j
<1>6. /\ DOMAIN job' = Jobs /\ \A i \in Jobs : i # j => job'[i] = job[i]
      /\ job'[j] = [job[j] EXCEPT !.key = k, !.val = v, !.upc = "erase"]
      /\ job'[j].key = k /\ job'[j].val = v
      /\ job'[j].upc = "erase" /\ job'[j].tpc = job[j].tpc
  BY <1>2, <1>3 DEF SingleInv, Shape, HasFields
<1>7. cpc'[client] = "upload" /\ cjob'[client] = j
  BY <1>1, <1>3 DEF SingleInv, Shape
<1>8. Busy' /\ Cur' = job'[j] /\ At' = "erase" /\ Thread' = "none"
  BY <1>3, <1>4, <1>6, <1>7 DEF Busy, Cur, At, Thread
<1>9. At = "idle" /\ Thread = "done"
  BY <1>1 DEF At, Thread
<1> QED BY <1>1, <1>2, <1>3, <1>4, <1>5, <1>6, <1>7, <1>8, <1>9 DEF Begins

-----------------------------------------------------------------------------
(* What the handlers have planned, and the stripes that are rolled         *)

(* What the steps of the set under way do to buf_rest.                     *)
LEMMA RestMoves ==
  ASSUME SingleInv, JobStep(sets), sets \in Jobs
  PROVE  \/ bufRest' = bufRest
         \/ job[sets].upc \in {"renew", "record"}
<1>1. CASE NewStripe(sets) \/ RecordObject(sets)
  BY <1>1 DEF NewStripe, RecordObject
<1>2. CASE UploadErase(sets) \/ ChooseBuffer(sets) \/ Roll(sets) \/ ReinitBuffers(sets)
  BY <1>2 DEF UploadErase, ChooseBuffer, Roll, ReinitBuffers
<1>3. CASE StartWrite(sets) \/ UploadPublish(sets)
  BY <1>3 DEF StartWrite, UploadPublish
<1>4. CASE WriteBuffer(sets) \/ ReportCommitAbort(sets)
  BY <1>4 DEF WriteBuffer, ReportCommitAbort
<1> QED BY <1>1, <1>2, <1>3, <1>4 DEF JobStep

LEMMA PlannedStep ==
  ASSUME OneClient, Inv, SingleInv, TypeOK, Planned, [Next]_vars
  PROVE  Planned'
<1>1. CASE UNCHANGED <<job, bufRest>>
  BY <1>1 DEF Planned, Recorded, Written
<1>2. ASSUME NEW k \in KeysOf[client], NEW v \in Vals, Set(client, k, v)
      PROVE  Planned'
  <2>1. Begins(k, v)
    BY <1>2, SetBegins
  <2>2. \A j \in Jobs : Recorded(j)' => job'[j] = job[j] /\ Recorded(j)
    BY <2>1 DEF Begins, Recorded
  <2> QED BY <2>1, <2>2 DEF Planned, Written, Begins
<1>3. ASSUME JobStep(sets), sets \in Jobs
      PROVE  Planned'
  <2>1. Moves
    BY <1>3, JobMoves
  <2> SUFFICES ASSUME NEW j \in Jobs, Recorded(j)'
               PROVE  /\ job'[j].obj.idx = job'[j].idx
                      /\ job'[j].obj.size = Size[job'[j].val]
                      /\ ~ Written(j)' =>
                           job'[j].obj.off = ShardSize - bufRest'[job'[j].idx]
                                               - Size[job'[j].val]
    BY DEF Planned
  <2>2. CASE j # sets
    <3>1. job'[j] = job[j] /\ Recorded(j)
      BY <2>1, <2>2 DEF Moves, Recorded
    <3>2. Written(j) /\ Written(j)'
      BY <2>2, <3>1, RecordedIsWritten DEF Written
    <3> QED BY <3>1, <3>2 DEF Planned
  <2>3. CASE j = sets /\ Recorded(j)
    <3>1. /\ job'[j].obj = job[j].obj /\ job'[j].idx = job[j].idx
          /\ job'[j].val = job[j].val
          /\ ~ Written(j)' => ~ Written(j)
      BY <2>1, <2>3 DEF Moves
    <3>2. bufRest' = bufRest
      BY <1>3, <2>3, RestMoves DEF Recorded
    <3> QED BY <2>3, <3>1, <3>2 DEF Planned
  <2>4. CASE j = sets /\ ~Recorded(j)
    <3>1. sets' = sets
      BY <2>1 DEF Moves
    <3>2. RecordObject(sets)
      <4>1. job'[sets].upc \in {"publish", "replied"}
        BY <2>4 DEF Recorded
      <4>2. job[sets].upc \notin {"publish", "replied"}
        BY <2>4 DEF Recorded
      <4>3. DOMAIN job = Jobs /\ HasFields(job[sets])
        BY <1>3 DEF SingleInv, Shape
      <4> QED BY <1>3, <4>1, <4>2, <4>3 DEF JobStep, UploadErase, ChooseBuffer, Roll,
                 ReinitBuffers, NewStripe, StartWrite, UploadPublish, WriteBuffer,
                 ReportCommitAbort, HasFields
    <3> DEFINE b == job[sets].idx
               n == Size[job[sets].val]
               obj == [stripe |-> curStripe, idx |-> b,
                       off |-> ShardSize - bufRest[b], size |-> n]
    <3>3. /\ job' = [job EXCEPT ![sets].upc = "publish", ![sets].reply = curProxy,
                                ![sets].obj = obj]
          /\ bufRest' = [bufRest EXCEPT ![b] = @ - n]
      BY <3>2 DEF RecordObject, Take
    <3>4. /\ obj.idx = b /\ obj.size = n /\ obj.off = ShardSize - bufRest[b]
          /\ DOMAIN job = Jobs /\ HasFields(job[sets])
          /\ bufRest \in [Buffers -> 0..ShardSize] /\ b \in Buffers
          /\ n \in Nat
      BY <1>3, <2>1, SizeType DEF SingleInv, Shape, TypeOK, CoordTypeOK, CallTypeOK, Moves
    <3> HIDE DEF obj, n, b
    <3>5. /\ job'[sets].obj = obj /\ job'[sets].idx = b /\ job'[sets].val = job[sets].val
          /\ bufRest'[b] = bufRest[b] - n
      BY <1>3, <3>3, <3>4 DEF HasFields, b
    <3>6. Size[job'[sets].val] = n
      BY <3>5 DEF n
    <3> QED BY <2>4, <3>4, <3>5, <3>6, SizeType
  <2> QED BY <2>2, <2>3, <2>4
<1>4. CASE EncodeCopy(sets) \/ \E j \in Jobs, i \in Buffers : SetToMemcached(j, i)
  BY <1>1, <1>4 DEF EncodeCopy, SetToMemcached
<1>5. CASE \/ ClientStep(client) \/ \E k \in KeysOf[client] : Get(client, k)
           \/ UNCHANGED vars
  BY <1>1, <1>5, ClientIsQuiet DEF Quiet, TypeOK, DataTypeOK
<1> QED BY <1>2, <1>3, <1>4, <1>5, Steps

(* A buffer never holds more than it has room for.                         *)
OffsetsFit == bufOffset \in [AZs -> [Buffers -> 0..ShardSize]]

LEMMA OffsetsTyped == Inv /\ SingleInv /\ Planned => OffsetsFit
<1> SUFFICES ASSUME Inv, SingleInv, Planned, NEW a \in AZs, NEW i \in Buffers
             PROVE  bufOffset[a][i] \in 0..ShardSize
  BY DEF SingleInv, Shape, OffsetsFit
<1>1. CASE a # curProxy
  BY <1>1, SizeType DEF SingleInv, Offsets
<1>2. CASE a = curProxy
  <2>1. bufRest[i] \in 0..ShardSize /\ ShardSize \in Nat
    BY SizeType DEF Inv, CountShape
  <2>2. Owed(i) \in 0..(ShardSize - bufRest[i])
    <3>1. CASE Thread = "accept" /\ At \in HasObject /\ i = Cur.idx
      <4>1. Busy /\ sets \in Jobs /\ Cur = job[sets] /\ Recorded(sets)
        BY <3>1 DEF Thread, At, Cur, HasObject, Recorded, SingleInv, OneAtATime
      <4>2. /\ Cur.obj.idx = i /\ Cur.obj.size = Size[Cur.val]
            /\ Cur.obj.stripe = curStripe /\ IsSlot(Cur.obj)
        BY <3>1, <4>1 DEF Planned, Inv, SlotInv, SingleInv, Course
      <4>3. Size[Cur.val] \in Nat
        BY <4>1, SizeType DEF SingleInv, OneAtATime
      <4> QED BY <2>1, <3>1, <4>2, <4>3 DEF Owed, IsSlot
    <3>2. CASE ~ (Thread = "accept" /\ At \in HasObject /\ i = Cur.idx)
      BY <2>1, <3>2 DEF Owed
    <3> QED BY <3>1, <3>2
  <2>3. bufOffset[curProxy][i] = 0
        \/ bufOffset[curProxy][i] = ShardSize - bufRest[i] - Owed(i)
    BY DEF SingleInv, Offsets
  <2> HIDE DEF Owed
  <2> QED BY <1>2, <2>1, <2>2, <2>3
<1> QED BY <1>1, <1>2

(* Only one handler of one client places an object.                        *)
LEMMA AloneAtChoice ==
  ASSUME SingleInv, NEW j \in Jobs, ChooseBuffer(j)
  PROVE  \A i \in Jobs : job[i].upc \notin Placing
<1>1. job[j].upc = "choose" /\ j = sets
  BY TheSet DEF ChooseBuffer
<1>2. \A i \in Jobs : i # sets => job[i].upc \in {"replied", "unused"}
  BY Others
<1> QED BY <1>1, <1>2 DEF Placing

LEMMA InvSteps ==
  ASSUME Inv, SingleInv, [Next]_vars
  PROVE  Inv'
BY AloneAtChoice, InvStep


Early == {"erase", "choose", "roll"}

LEMMA RollsKept ==
  ASSUME Rolls, UNCHANGED <<sets, stripeInfo, curStripe>>,
         \A i \in Jobs : \/ enc'[i] = enc[i]
                         \/ /\ enc'[i].stripe = enc[i].stripe /\ enc[i].pc # "none"
                            /\ enc'[i].pc = "save",
         Rolling <=> Rolling', Rolling => sets \in Jobs,
         At' \in Early => At \in Early /\ enc'[sets] = enc[sets]
  PROVE  Rolls'
<1>1. \A i \in Jobs : /\ enc'[i].pc # "none" <=> enc[i].pc # "none"
                      /\ enc[i].pc # "none" => enc'[i].stripe = enc[i].stripe
                      /\ enc'[i].pc # "save" => enc'[i] = enc[i]
  OBVIOUS
<1>2. Rolling' => enc'[sets].pc # "none" /\ enc'[sets].stripe = curStripe
  BY <1>1 DEF Rolls
<1>3. At' \in Early => enc'[sets].pc = "none"
  BY DEF Rolls, Early
<1>4. \A i \in Jobs : enc'[i].pc # "none" =>
        /\ i <= sets
        /\ enc'[i].stripe \in DOMAIN stripeInfo
        /\ enc'[i].stripe < curStripe
             \/ (enc'[i].stripe = curStripe /\ i = sets /\ Rolling')
  BY <1>1 DEF Rolls
<1>5. \A i, j \in Jobs : i # j /\ enc'[i].pc # "none" /\ enc'[j].pc # "none"
                           => enc'[i].stripe # enc'[j].stripe
  BY <1>1 DEF Rolls
<1>6. \A i \in Jobs : enc'[i].pc # "save" => enc'[i].todo = {}
  BY <1>1 DEF Rolls
<1> QED BY <1>2, <1>3, <1>4, <1>5, <1>6 DEF Rolls, Early

LEMMA BusySet ==
  ASSUME SingleInv
  PROVE  /\ Rolling \/ At \in Early => Busy
         /\ Busy => /\ sets \in Jobs /\ Cur = job[sets] /\ At = job[sets].upc
                    /\ Thread = job[sets].tpc
BY DEF At, Thread, Cur, Rolling, Early, SingleInv, OneAtATime

(* The steps of the set under way that neither roll nor renew.             *)
LEMMA NoRoll ==
  ASSUME SingleInv, JobStep(sets), sets \in Jobs, ~Roll(sets), ~NewStripe(sets)
  PROVE  /\ UNCHANGED <<enc, stripeInfo, curStripe, curProxy, nextStripe>>
         /\ Rolling <=> Rolling'
         /\ At' \in Early => At \in Early
         /\ ReinitBuffers(sets) \/ (At = "renew" <=> At' = "renew")
<1>1. UNCHANGED <<enc, stripeInfo, curStripe, curProxy, nextStripe>>
  BY DEF JobStep, UploadErase, ChooseBuffer, ReinitBuffers, StartWrite, RecordObject,
     UploadPublish, WriteBuffer, ReportCommitAbort
<1>2. /\ Moves /\ DOMAIN job = Jobs /\ HasFields(job[sets])
      /\ At = job[sets].upc /\ At' = job'[sets].upc
  BY JobMoves DEF SingleInv, Shape, Moves
<1>3. CASE UploadErase(sets) \/ ChooseBuffer(sets) \/ ReinitBuffers(sets) \/ StartWrite(sets)
  <2>1. \/ At = "erase" /\ At' = "choose"
        \/ At = "choose" /\ At' \in {"write", "roll"}
        \/ At = "wait" /\ At' = "renew" /\ ReinitBuffers(sets)
        \/ At = "write" /\ At' = "record"
    BY <1>2, <1>3 DEF UploadErase, ChooseBuffer, ReinitBuffers, StartWrite, HasFields
  <2> QED BY <1>1, <2>1 DEF Rolling, Early
<1>4. CASE RecordObject(sets) \/ UploadPublish(sets)
  <2>1. At \in {"record", "publish"} /\ At' \in {"publish", "replied"}
    BY <1>2, <1>4 DEF RecordObject, UploadPublish, HasFields
  <2> QED BY <1>1, <2>1 DEF Rolling, Early
<1>5. CASE WriteBuffer(sets) \/ ReportCommitAbort(sets)
  <2>1. At' = At
    BY <1>2, <1>5 DEF WriteBuffer, ReportCommitAbort, HasFields
  <2> QED BY <1>1, <2>1 DEF Rolling
<1> QED BY <1>3, <1>4, <1>5, SMTT(30) DEF JobStep

(* What a thread that saves does: it takes the copy, and lets go of the    *)
(* block it has sent.                                                      *)
Copying ==
  /\ sets \in Jobs /\ At = "wait" /\ enc[sets].pc = "copy"
  /\ DOMAIN enc' = Jobs /\ \A i \in Jobs \ {sets} : enc'[i] = enc[i]
  /\ enc'[sets].pc = "save" /\ enc'[sets].stripe = enc[sets].stripe
  /\ enc'[sets].proxy = enc[sets].proxy /\ enc[sets].proxy = curProxy
  /\ enc'[sets].data = proxyBuf[curProxy] /\ enc'[sets].todo = Buffers
  /\ Busy' = Busy /\ At' = At /\ Thread' = Thread /\ Cur' = Cur
  /\ UNCHANGED <<clientVars, coordVars, sets, job, getVars, proxyBuf, bufOffset,
                 backlog, nodeVars>>

LEMMA CopyIsMade ==
  ASSUME SingleInv, EncodeCopy(sets), sets \in Jobs
  PROVE  Copying
<1>1. /\ enc' = [enc EXCEPT ![sets].pc = "save", ![sets].data = proxyBuf[enc[sets].proxy],
                            ![sets].todo = Buffers]
      /\ UNCHANGED <<clientVars, coordVars, sets, job, getVars, proxyBuf, bufOffset,
                     backlog, nodeVars>>
      /\ enc[sets].pc = "copy"
  BY DEF EncodeCopy, ToSend
<1>2. At = "wait" /\ enc[sets].proxy = curProxy
  BY <1>1 DEF SingleInv, Posts
<1>3. DOMAIN enc = Jobs /\ IsEnc(enc[sets])
  BY DEF SingleInv, Shape
<1>4. /\ DOMAIN enc' = Jobs /\ \A i \in Jobs \ {sets} : enc'[i] = enc[i]
      /\ enc'[sets].pc = "save" /\ enc'[sets].stripe = enc[sets].stripe
      /\ enc'[sets].proxy = enc[sets].proxy
      /\ enc'[sets].data = proxyBuf[enc[sets].proxy] /\ enc'[sets].todo = Buffers
  BY <1>1, <1>3 DEF IsEnc
<1>5. Busy' = Busy /\ At' = At /\ Thread' = Thread /\ Cur' = Cur
  BY <1>1 DEF Busy, At, Thread, Cur
<1> QED BY <1>1, <1>2, <1>4, <1>5 DEF Copying

Saving(j, x) ==
  /\ enc[j].pc = "save" /\ x \in enc[j].todo
  /\ DOMAIN enc' = Jobs /\ \A i \in Jobs \ {j} : enc'[i] = enc[i]
  /\ enc'[j].pc = "save" /\ enc'[j].stripe = enc[j].stripe
  /\ enc'[j].proxy = enc[j].proxy /\ enc'[j].data = enc[j].data
  /\ enc'[j].todo = enc[j].todo \ {x}
  /\ Busy' = Busy /\ At' = At /\ Thread' = Thread /\ Cur' = Cur
  /\ UNCHANGED <<clientVars, coordVars, sets, job, getVars, bufVars, backlog, up>>

LEMMA BlockIsSent ==
  ASSUME SingleInv, NEW j \in Jobs, NEW x \in Buffers, SetToMemcached(j, x)
  PROVE  Saving(j, x)
<1>1. /\ enc' = [enc EXCEPT ![j].todo = @ \ {x}]
      /\ UNCHANGED <<clientVars, coordVars, sets, job, getVars, bufVars, backlog, up>>
      /\ enc[j].pc = "save" /\ x \in enc[j].todo
  BY DEF SetToMemcached
<1>2. DOMAIN enc = Jobs /\ IsEnc(enc[j])
  BY DEF SingleInv, Shape
<1>3. /\ DOMAIN enc' = Jobs /\ \A i \in Jobs \ {j} : enc'[i] = enc[i]
      /\ enc'[j].pc = "save" /\ enc'[j].stripe = enc[j].stripe
      /\ enc'[j].proxy = enc[j].proxy /\ enc'[j].data = enc[j].data
      /\ enc'[j].todo = enc[j].todo \ {x}
  BY <1>1, <1>2 DEF IsEnc
<1>4. Busy' = Busy /\ At' = At /\ Thread' = Thread /\ Cur' = Cur
  BY <1>1 DEF Busy, At, Thread, Cur
<1> QED BY <1>1, <1>3, <1>4 DEF Saving


LEMMA RollsRoll ==
  ASSUME Inv, SingleInv, Rolls, Roll(sets), sets \in Jobs, Moves
  PROVE  Rolls'
<1>1. /\ enc' = [enc EXCEPT ![sets].pc = "copy", ![sets].stripe = curStripe,
                            ![sets].proxy = curProxy]
      /\ UNCHANGED <<sets, curStripe>> /\ At = "roll"
      /\ DOMAIN stripeInfo' = DOMAIN stripeInfo \cup {curStripe}
      /\ job' = [job EXCEPT ![sets].upc = "wait"]
  BY DEF Roll, Moves
<1>2. /\ DOMAIN enc = Jobs /\ IsEnc(enc[sets]) /\ enc[sets].pc = "none"
      /\ DOMAIN job = Jobs /\ HasFields(job[sets])
  BY <1>1 DEF SingleInv, Shape, Rolls
<1>3. /\ DOMAIN enc' = Jobs /\ \A i \in Jobs \ {sets} : enc'[i] = enc[i]
      /\ enc'[sets].pc = "copy" /\ enc'[sets].stripe = curStripe
      /\ enc'[sets].todo = enc[sets].todo
  BY <1>1, <1>2 DEF IsEnc
<1>4. job'[sets].upc = "wait"
  BY <1>1, <1>2 DEF HasFields
<1>5. At' = "wait" /\ Rolling' /\ ~Rolling
  BY <1>1, <1>4 DEF Moves, Rolling
<1>6. \A i \in Jobs : i # sets /\ enc[i].pc # "none" =>
        i <= sets /\ enc[i].stripe \in DOMAIN stripeInfo /\ enc[i].stripe < curStripe
  BY <1>5 DEF Rolls
<1>7. sets <= sets /\ curStripe \in Nat
  BY NumberOfSets DEF Moves, Inv, CountShape
<1>8. \A i \in Jobs : i # sets /\ enc[i].pc # "none" => enc[i].stripe # curStripe
  BY <1>6, <1>7
<1>9. \A i \in Jobs : enc'[i].pc # "none" =>
        /\ i <= sets
        /\ enc'[i].stripe \in DOMAIN stripeInfo'
        /\ enc'[i].stripe < curStripe
             \/ (enc'[i].stripe = curStripe /\ i = sets /\ Rolling')
  BY <1>1, <1>3, <1>5, <1>6, <1>7
<1>10. \A i, j \in Jobs : i # j /\ enc'[i].pc # "none" /\ enc'[j].pc # "none"
                            => enc'[i].stripe # enc'[j].stripe
  BY <1>3, <1>8 DEF Rolls
<1>11. \A i \in Jobs : enc'[i].pc # "save" => enc'[i].todo = {}
  BY <1>2, <1>3 DEF Rolls
<1> QED BY <1>1, <1>3, <1>5, <1>9, <1>10, <1>11 DEF Rolls

LEMMA RollsRenew ==
  ASSUME Inv, SingleInv, TypeOK, Rolls, NewStripe(sets), sets \in Jobs, Moves
  PROVE  Rolls'
<1>1. /\ curStripe' = nextStripe /\ UNCHANGED <<enc, stripeInfo, sets>>
      /\ job' = [job EXCEPT ![sets].upc = "write"] /\ At = "renew"
  BY DEF NewStripe, Moves
<1>2. DOMAIN job = Jobs /\ HasFields(job[sets])
  BY DEF SingleInv, Shape
<1>3. At' = "write"
  BY <1>1, <1>2 DEF Moves, HasFields
<1>4. curStripe \in Nat /\ nextStripe \in Nat /\ curStripe < nextStripe
  BY DEF Inv, CountShape
<1>5. \A i \in Jobs : enc[i].stripe \in Nat
  BY DEF TypeOK, DataTypeOK
<1>6. \A i \in Jobs : enc[i].pc # "none" =>
        i <= sets /\ enc[i].stripe \in DOMAIN stripeInfo /\ enc[i].stripe < nextStripe
  BY <1>4, <1>5 DEF Rolls
<1>7. \A i, j \in Jobs : i # j /\ enc[i].pc # "none" /\ enc[j].pc # "none"
                           => enc[i].stripe # enc[j].stripe
  BY DEF Rolls
<1>8. \A i \in Jobs : enc[i].pc # "save" => enc[i].todo = {}
  BY DEF Rolls
<1> QED BY <1>1, <1>3, <1>6, <1>7, <1>8 DEF Rolls, Rolling

LEMMA RollsStep ==
  ASSUME OneClient, Inv, SingleInv, TypeOK, Rolls, [Next]_vars
  PROVE  Rolls'
<1>1. ASSUME NEW k \in KeysOf[client], NEW v \in Vals, Set(client, k, v)
      PROVE  Rolls'
  <2>1. Begins(k, v)
    BY <1>1, SetBegins
  <2>2. /\ sets \in Nat /\ sets' = sets + 1 /\ UNCHANGED <<enc, stripeInfo, curStripe>>
        /\ ~Rolling /\ ~Rolling' /\ sets + 1 \in Jobs
    BY <2>1 DEF Begins, Rolling
  <2>3. enc[sets + 1].pc = "none"
    BY <2>2, NumberOfSets DEF Rolls
  <2>4. \A i \in Jobs : i <= sets => i <= sets + 1
    BY <2>2, NumberOfSets
  <2> QED BY <2>2, <2>3, <2>4 DEF Rolls
<1>2. ASSUME JobStep(sets), sets \in Jobs
      PROVE  Rolls'
  <2>1. CASE Roll(sets)
    BY <1>2, <2>1, JobMoves, RollsRoll
  <2>2. CASE NewStripe(sets)
    BY <1>2, <2>2, JobMoves, RollsRenew
  <2>3. CASE ~Roll(sets) /\ ~NewStripe(sets)
    <3>1. sets' = sets
      BY <1>2, JobMoves DEF Moves
    <3> QED BY <1>2, <2>3, <3>1, NoRoll, RollsKept, BusySet
  <2> QED BY <2>1, <2>2, <2>3
<1>3. ASSUME EncodeCopy(sets), sets \in Jobs
      PROVE  Rolls'
  <2>1. Copying
    BY <1>3, CopyIsMade
  <2> QED BY <2>1, BusySet, RollsKept DEF Copying, Rolling, Early
<1>4. ASSUME NEW j \in Jobs, NEW x \in Buffers, SetToMemcached(j, x)
      PROVE  Rolls'
  <2>1. Saving(j, x)
    BY <1>4, BlockIsSent
  <2>2. At' \in Early => enc[sets].pc = "none" /\ sets \in Jobs
    BY <2>1, BusySet DEF Saving, Rolls, Early
  <2>3. At' \in Early => At \in Early /\ enc'[sets] = enc[sets]
    BY <2>1, <2>2 DEF Saving
  <2> QED BY <2>1, <2>3, BusySet, RollsKept DEF Saving, Rolling
<1>5. CASE \/ ClientStep(client) \/ \E k \in KeysOf[client] : Get(client, k)
           \/ UNCHANGED vars
  <2>1. Quiet
    BY <1>5, ClientIsQuiet DEF TypeOK, DataTypeOK
  <2> QED BY <2>1, BusySet, RollsKept DEF Quiet, Rolling, Early
<1> QED BY <1>1, <1>2, <1>3, <1>4, <1>5, Steps


-----------------------------------------------------------------------------
(* What has been saved                                                     *)

Block(e, x) == [stripe |-> e.stripe, idx |-> x, data |-> e.data[x]]

(* A step that saves nothing.                                              *)
LEMMA SavedKept ==
  ASSUME Saved, disk' = disk, up' \in [Nodes -> BOOLEAN],
         \A n \in Nodes : up'[n] => up[n],
         \A i \in Jobs : enc[i].pc = "save" => enc'[i] = enc[i],
         \A i \in Jobs : enc'[i].pc = "save" =>
           \/ enc'[i].todo = Buffers
           \/ /\ enc'[i] = enc[i]
              /\ stripeInfo'[enc[i].stripe] = stripeInfo[enc[i].stripe]
              /\ stripeInfo[enc[i].stripe] \in [Buffers -> Nodes]
  PROVE  Saved'
<1>1. ASSUME NEW n \in Nodes, NEW b \in disk[n]
      PROVE  \E i \in Jobs :
               /\ enc'[i].pc = "save"
               /\ b.stripe = enc'[i].stripe /\ b.idx \in Buffers \ enc'[i].todo
               /\ b.data = enc'[i].data[b.idx]
  <2>1. PICK i \in Jobs :
               /\ enc[i].pc = "save"
               /\ b.stripe = enc[i].stripe /\ b.idx \in Buffers \ enc[i].todo
               /\ b.data = enc[i].data[b.idx]
    BY <1>1 DEF Saved
  <2> QED BY <2>1
<1>2. ASSUME NEW i \in Jobs, enc'[i].pc = "save", NEW x \in Buffers \ enc'[i].todo,
             up'[stripeInfo'[enc'[i].stripe][x]]
      PROVE  Block(enc'[i], x) \in disk[stripeInfo'[enc'[i].stripe][x]]
  <2>1. /\ enc'[i] = enc[i] /\ stripeInfo'[enc[i].stripe] = stripeInfo[enc[i].stripe]
        /\ stripeInfo[enc[i].stripe][x] \in Nodes
    BY <1>2
  <2> QED BY <1>2, <2>1 DEF Saved, Block
<1> QED BY <1>1, <1>2 DEF Saved, Block

LEMMA Placed ==
  ASSUME TypeOK, NEW s \in DOMAIN stripeInfo
  PROVE  stripeInfo[s] \in [Buffers -> Nodes]
BY LayoutAssumption DEF TypeOK, CoordTypeOK

LEMMA SavedSave ==
  ASSUME TypeOK, Rolls, Saved, NEW j \in Jobs, NEW x \in Buffers,
         SetToMemcached(j, x), Saving(j, x)
  PROVE  Saved'
<1> DEFINE e == enc[j]
           n == stripeInfo[e.stripe][x]
           new == Block(e, x)
<1>1. e.stripe \in DOMAIN stripeInfo
  BY DEF Saving, Rolls
<1>2. n \in Nodes /\ DOMAIN disk = Nodes /\ UNCHANGED <<stripeInfo, up>>
  BY <1>1, Placed DEF TypeOK, DataTypeOK, Saving
<1>3. disk' = IF up[n] THEN [disk EXCEPT ![n] =
                         {b \in @ : ~ (b.stripe = e.stripe /\ b.idx = x)} \cup {new}]
              ELSE disk
  BY DEF SetToMemcached, SameBlock, Block
<1>4. \A m \in Nodes : \A b \in disk'[m] : b \in disk[m] \/ b = new
  BY <1>2, <1>3
<1>5. \A m \in Nodes : \A b \in disk[m] :
        b.stripe # e.stripe \/ b.idx # x => b \in disk'[m]
  BY <1>2, <1>3
<1>6. up[n] => new \in disk'[n]
  BY <1>2, <1>3
<1>7. new.stripe = e.stripe /\ new.idx = x /\ new.data = e.data[x]
  BY DEF Block
<1>8. \A i \in Jobs : /\ enc'[i].pc = enc[i].pc /\ enc'[i].stripe = enc[i].stripe
                      /\ enc'[i].data = enc[i].data
                      /\ enc'[i].todo \subseteq enc[i].todo
                      /\ i # j => enc'[i].todo = enc[i].todo
  BY DEF Saving
<1>9. e.pc = "save" /\ enc'[j].todo = e.todo \ {x}
  BY DEF Saving
<1> HIDE DEF new, n, e
<1>10. ASSUME NEW m \in Nodes, NEW b \in disk'[m]
       PROVE  \E i \in Jobs :
                /\ enc'[i].pc = "save"
                /\ b.stripe = enc'[i].stripe /\ b.idx \in Buffers \ enc'[i].todo
                /\ b.data = enc'[i].data[b.idx]
  <2>1. CASE b = new
    BY <1>7, <1>8, <1>9, <2>1 DEF e
  <2>2. CASE b \in disk[m]
    <3>1. PICK i \in Jobs :
               /\ enc[i].pc = "save"
               /\ b.stripe = enc[i].stripe /\ b.idx \in Buffers \ enc[i].todo
               /\ b.data = enc[i].data[b.idx]
      BY <2>2 DEF Saved
    <3> QED BY <1>8, <3>1
  <2> QED BY <1>4, <1>10, <2>1, <2>2
<1>11. ASSUME NEW i \in Jobs, enc'[i].pc = "save", NEW y \in Buffers \ enc'[i].todo,
              up[stripeInfo[enc[i].stripe][y]]
       PROVE  Block(enc[i], y) \in disk'[stripeInfo[enc[i].stripe][y]]
  <2>1. CASE i = j /\ y = x
    BY <1>6, <1>11, <2>1 DEF n, new, e
  <2>2. CASE i # j \/ y # x
    <3>1. y \in Buffers \ enc[i].todo /\ enc[i].pc = "save"
      BY <1>8, <1>9, <1>11, <2>2 DEF e
    <3>2. Block(enc[i], y) \in disk[stripeInfo[enc[i].stripe][y]]
      BY <1>11, <3>1 DEF Saved, Block
    <3>3. enc[i].stripe # e.stripe \/ y # x
      BY <1>9, <2>2, <3>1 DEF Rolls, e
    <3>4. Block(enc[i], y).stripe = enc[i].stripe /\ Block(enc[i], y).idx = y
      BY DEF Block
    <3>5. stripeInfo[enc[i].stripe][y] \in Nodes
      BY <3>1, Placed DEF Rolls
    <3> QED BY <1>5, <3>2, <3>3, <3>4, <3>5
  <2> QED BY <2>1, <2>2
<1>12. \A i \in Jobs, y \in Buffers : Block(enc'[i], y) = Block(enc[i], y)
  BY <1>8 DEF Block
<1>13. ASSUME NEW i \in Jobs, enc'[i].pc = "save", NEW y \in Buffers \ enc'[i].todo
       PROVE  LET m == stripeInfo'[enc'[i].stripe][y] IN
              up'[m] => [stripe |-> enc'[i].stripe, idx |-> y, data |-> enc'[i].data[y]]
                          \in disk'[m]
  BY <1>2, <1>8, <1>11, <1>12, <1>13 DEF Block
<1> QED BY <1>10, <1>13 DEF Saved

LEMMA SavedStep ==
  ASSUME OneClient, Inv, SingleInv, TypeOK, Rolls, Saved, [Next]_vars
  PROVE  Saved'
<1>1. /\ up \in [Nodes -> BOOLEAN]
      /\ \A i \in Jobs : enc[i].pc = "save" => stripeInfo[enc[i].stripe] \in [Buffers -> Nodes]
  BY Placed DEF TypeOK, DataTypeOK, Rolls
<1>2. CASE UNCHANGED <<enc, stripeInfo, disk>> /\ up' \in [Nodes -> BOOLEAN]
           /\ \A n \in Nodes : up'[n] => up[n]
  BY <1>1, <1>2, SavedKept
<1>3. ASSUME NEW k \in KeysOf[client], NEW v \in Vals, Set(client, k, v)
      PROVE  Saved'
  BY <1>1, <1>2, <1>3 DEF Set
<1>4. ASSUME JobStep(sets), sets \in Jobs
      PROVE  Saved'
  <2>1. CASE Roll(sets)
    <3>1. /\ \A s \in DOMAIN stripeInfo : stripeInfo'[s] = stripeInfo[s]
          /\ enc' = [enc EXCEPT ![sets].pc = "copy", ![sets].stripe = curStripe,
                                ![sets].proxy = curProxy]
          /\ UNCHANGED <<disk, up>>
      BY <2>1 DEF Roll
    <3>2. DOMAIN enc = Jobs /\ IsEnc(enc[sets]) /\ At = "roll"
      BY <1>4, <2>1, JobMoves DEF Roll, Moves, SingleInv, Shape
    <3>3. /\ \A i \in Jobs \ {sets} : enc'[i] = enc[i]
          /\ enc'[sets].pc = "copy"
      BY <1>4, <3>1, <3>2 DEF IsEnc
    <3>4. enc[sets].pc = "none"
      BY <3>2 DEF Rolls
    <3>5. \A i \in Jobs : enc[i].pc = "save" => enc[i].stripe \in DOMAIN stripeInfo
      BY DEF Rolls
    <3> QED BY <1>1, <3>1, <3>3, <3>4, <3>5, SavedKept
  <2>2. CASE ~Roll(sets)
    <3>1. UNCHANGED <<disk, up>>
      BY <1>4, JobMoves DEF Moves
    <3>2. UNCHANGED <<enc, stripeInfo>>
      BY <1>4, <2>2, NoRoll DEF NewStripe
    <3> QED BY <1>1, <1>2, <3>1, <3>2
  <2> QED BY <2>1, <2>2
<1>5. ASSUME EncodeCopy(sets), sets \in Jobs
      PROVE  Saved'
  <2>1. Copying
    BY <1>5, CopyIsMade
  <2>2. /\ \A i \in Jobs : enc[i].pc = "save" => enc'[i] = enc[i]
        /\ \A i \in Jobs : enc'[i].pc = "save" => enc'[i].todo = Buffers
                             \/ (enc'[i] = enc[i] /\ enc[i].pc = "save")
        /\ UNCHANGED <<disk, up, stripeInfo>>
    BY <2>1 DEF Copying
  <2> QED BY <1>1, <2>2, SavedKept
<1>6. ASSUME NEW j \in Jobs, NEW x \in Buffers, SetToMemcached(j, x)
      PROVE  Saved'
  BY <1>6, BlockIsSent, SavedSave
<1>7. CASE \/ ClientStep(client) \/ \E k \in KeysOf[client] : Get(client, k)
           \/ UNCHANGED vars
  BY <1>1, <1>2, <1>7, ClientIsQuiet DEF Quiet
<1> QED BY <1>3, <1>4, <1>5, <1>6, <1>7, Steps


-----------------------------------------------------------------------------
(* Where the bytes of a value are                                          *)

LEMMA WhereNext ==
  ASSUME \A j \in Jobs : Written(j)' =>
           LET obj == job'[j].obj IN
           /\ obj.stripe = curStripe' /\ At' # "renew" =>
                Fits(proxyBuf'[curProxy'][obj.idx], obj, job'[j].val)
           /\ \A i \in Jobs : enc'[i].pc = "save" /\ enc'[i].stripe = obj.stripe =>
                Fits(enc'[i].data[obj.idx], obj, job'[j].val)
           /\ obj.stripe # curStripe' \/ At' = "renew" =>
                \E i \in Jobs : enc'[i].pc = "save" /\ enc'[i].stripe = obj.stripe
  PROVE  Whereabouts'
BY Zenon DEF Whereabouts, Fits

LEMMA WhereKept ==
  ASSUME Whereabouts, Emptied, UNCHANGED <<curStripe, curProxy, proxyBuf>>,
         \A j \in Jobs : Written(j)' =>
           Written(j) /\ job'[j].obj = job[j].obj /\ job'[j].val = job[j].val,
         \A i \in Jobs : /\ enc[i].pc = "save" <=> enc'[i].pc = "save"
                         /\ enc[i].pc = "save" => /\ enc'[i].stripe = enc[i].stripe
                                                  /\ enc'[i].data = enc[i].data,
         At = "renew" <=> At' = "renew"
  PROVE  Whereabouts' /\ Emptied'
<1>1. Emptied'
  BY DEF Emptied
<1> SUFFICES ASSUME NEW j \in Jobs, Written(j)'
             PROVE  LET obj == job'[j].obj IN
      /\ obj.stripe = curStripe /\ At' # "renew" =>
           Fits(proxyBuf[curProxy][obj.idx], obj, job'[j].val)
      /\ \A i \in Jobs : enc'[i].pc = "save" /\ enc'[i].stripe = obj.stripe =>
           Fits(enc'[i].data[obj.idx], obj, job'[j].val)
      /\ obj.stripe # curStripe \/ At' = "renew" =>
           \E i \in Jobs : enc'[i].pc = "save" /\ enc'[i].stripe = obj.stripe
  BY <1>1, Zenon DEF Whereabouts, Fits
<1>2. Written(j) /\ job'[j].obj = job[j].obj /\ job'[j].val = job[j].val
  OBVIOUS
<1> QED BY <1>2 DEF Whereabouts

LEMMA NewlyWritten ==
  ASSUME SingleInv, JobStep(sets), sets \in Jobs, NEW j \in Jobs, Written(j)'
  PROVE  \/ Written(j) /\ job'[j].obj = job[j].obj /\ job'[j].val = job[j].val
         \/ j = sets /\ ~Written(j) /\ WriteBuffer(sets)
<1>1. Moves
  BY JobMoves
<1>2. CASE j # sets
  BY <1>1, <1>2 DEF Moves, Written
<1>3. CASE j = sets /\ Written(j)
  BY <1>1, <1>3, WrittenIsRecorded DEF Moves
<1>4. CASE j = sets /\ ~Written(j)
  <2>1. DOMAIN job = Jobs /\ HasFields(job[sets])
    BY DEF SingleInv, Shape
  <2>2. job'[sets].tpc # job[sets].tpc /\ job'[sets].tpc # "accept"
        /\ job[sets].tpc # "report"
    BY <1>4 DEF Written
  <2>3. CASE UploadErase(sets) \/ ChooseBuffer(sets) \/ Roll(sets) \/ ReinitBuffers(sets)
    BY <2>1, <2>2, <2>3 DEF UploadErase, ChooseBuffer, Roll, ReinitBuffers, HasFields
  <2>4. CASE NewStripe(sets) \/ StartWrite(sets) \/ RecordObject(sets) \/ UploadPublish(sets)
    BY <2>1, <2>2, <2>4 DEF NewStripe, StartWrite, RecordObject, UploadPublish, HasFields
  <2>5. CASE ReportCommitAbort(sets)
    BY <2>2, <2>5 DEF ReportCommitAbort
  <2> QED BY <1>4, <2>3, <2>4, <2>5 DEF JobStep
<1> QED BY <1>2, <1>3, <1>4

(* An object's place is within its buffer.                                 *)
LEMMA PlaceOf ==
  ASSUME Inv, SingleInv, Planned, NEW j \in Jobs, Recorded(j)
  PROVE  LET obj == job[j].obj IN
         /\ job[j].val \in Vals /\ job[j].key \in Keys
         /\ obj.stripe \in Nat /\ obj.stripe <= curStripe /\ obj.idx \in Buffers
         /\ obj.off \in Nat /\ obj.size \in Nat /\ obj.size > 0
         /\ obj.size = Size[job[j].val]
         /\ obj.off + obj.size <= ShardSize
<1>1. IsSlot(job[j].obj) /\ job[j].val \in Vals /\ job[j].key \in Keys
  BY DEF Inv, SlotInv, JobShape, IsJob, Recorded
<1>2. Size[job[j].val] \in 1..ShardSize
  BY <1>1, SizeAssumption
<1> QED BY <1>1, <1>2 DEF Planned, IsSlot, Inv, CountShape

(* WriteBufferAndEncode puts the value where the coordinator has recorded  *)
(* it, and nothing else is touched.                                        *)
LEMMA Puts ==
  ASSUME ShortReads = FALSE, TypeOK, Inv, SingleInv, Planned, sets \in Jobs,
         WriteBuffer(sets)
  PROVE  LET obj == job[sets].obj
             v == job[sets].val
             shard(i) == proxyBuf'[curProxy][i]
         IN
         /\ At = "replied" /\ Thread = "accept" /\ Recorded(sets)
         /\ obj.stripe = curStripe
         /\ \A a \in AZs \ {curProxy} : proxyBuf'[a] = proxyBuf[a]
         /\ DOMAIN proxyBuf' = AZs /\ DOMAIN proxyBuf'[curProxy] = Buffers
         /\ \A i \in Buffers \ {obj.idx} : shard(i) = proxyBuf[curProxy][i]
         /\ shard(obj.idx) = [x \in Cells |->
              IF x \in obj.off..(obj.off + obj.size - 1) THEN <<v, x - obj.off + 1>>
              ELSE proxyBuf[curProxy][obj.idx][x]]
<1> DEFINE obj == job[sets].obj
           v == job[sets].val
           a == job[sets].proxy
           conn == Head(backlog[a])
           i == job[sets].idx
<1>1. /\ Busy /\ Cur = job[sets] /\ At = job[sets].upc /\ Thread = "accept"
      /\ v \in Vals /\ job[sets].tpc = "accept"
  BY TheSet DEF WriteBuffer
<1>2. /\ backlog[a] # <<>>
      /\ conn.key = job[sets].key =>
           /\ \E bytes \in Received(conn.val) :
                proxyBuf' = [proxyBuf EXCEPT ![a][i] =
                               Overwrite(@, bufOffset[a][i], bytes)]
           /\ bufOffset' = [bufOffset EXCEPT ![a][i] = @ + Size[v]]
  BY DEF WriteBuffer
<1>3. At \in {"record"} \cup HasObject /\ Cur.proxy = curProxy /\ curProxy \in AZs
  BY <1>1 DEF SingleInv, Course, Shape, Busy
<1>4. a = curProxy
  BY <1>1, <1>3
<1>5. cpc[client] = "check" /\ backlog[a] = <<[key |-> Cur.key, val |-> Cur.val]>>
  BY <1>2, <1>3, <1>4 DEF SingleInv, Connections
<1>6. conn.key = job[sets].key /\ conn.val = v /\ At = "replied"
  BY <1>1, <1>5 DEF SingleInv, Course
<1>7. Recorded(sets) /\ ~ Written(sets) /\ obj.stripe = curStripe
  BY <1>1, <1>6 DEF Recorded, Written, SingleInv, Course, HasObject
<1>8. /\ obj.idx = i /\ obj.size = Size[v] /\ obj.off = ShardSize - bufRest[i] - Size[v]
      /\ i \in Buffers /\ obj.off \in Nat /\ obj.size \in Nat
  BY <1>7, PlaceOf DEF Planned
<1>9. bufOffset[a][i] = obj.off
  <2>1. Owed(i) = Size[v]
    BY <1>1, <1>6 DEF Owed, HasObject
  <2>2. bufOffset[a][i] = ShardSize - bufRest[i] - Owed(i)
    BY <1>4, <1>6, <1>8 DEF SingleInv, Offsets
  <2> QED BY <1>8, <2>1, <2>2
<1> HIDE DEF obj, v, a, conn, i
<1>10. PICK bytes \in Received(v) :
          proxyBuf' = [proxyBuf EXCEPT ![a][i] = Overwrite(@, obj.off, bytes)]
  BY <1>2, <1>6, <1>9
<1>11. bytes = [x \in 1..Size[v] |-> IF x <= Size[v] THEN <<v, x>> ELSE ZeroByte]
  BY DEF Received
<1>12. Len(bytes) = obj.size /\ \A x \in 1..obj.size : bytes[x] = <<v, x>>
  BY <1>8, <1>11
<1>13. proxyBuf \in [AZs -> Contents]
  BY DEF TypeOK, DataTypeOK
<1>14. /\ proxyBuf'[curProxy][i] = Overwrite(proxyBuf[curProxy][i], obj.off, bytes)
       /\ DOMAIN proxyBuf' = AZs /\ DOMAIN proxyBuf'[curProxy] = Buffers
       /\ \A x \in Buffers \ {i} : proxyBuf'[curProxy][x] = proxyBuf[curProxy][x]
       /\ \A x \in AZs \ {curProxy} : proxyBuf'[x] = proxyBuf[x]
  BY <1>3, <1>4, <1>8, <1>10, <1>13 DEF Contents
<1>15. proxyBuf'[curProxy][i] = [x \in Cells |->
              IF x \in obj.off..(obj.off + obj.size - 1) THEN <<v, x - obj.off + 1>>
              ELSE proxyBuf[curProxy][i][x]]
  <2>1. \A x \in Cells : x \in Int
    BY DEF Cells
  <2>2. \A x \in Cells : x - obj.off \in 0..(Len(bytes) - 1)
                           <=> x \in obj.off..(obj.off + obj.size - 1)
    BY <1>8, <1>12, <2>1
  <2>3. \A x \in Cells : x \in obj.off..(obj.off + obj.size - 1)
                           => bytes[x - obj.off + 1] = <<v, x - obj.off + 1>>
    BY <1>8, <1>12, <2>1
  <2> QED BY <1>14, <2>2, <2>3 DEF Overwrite
<1> QED BY <1>1, <1>6, <1>7, <1>8, <1>14, <1>15 DEF obj, v


LEMMA WhereWrite ==
  ASSUME ShortReads = FALSE, TypeOK, Inv, SingleInv, Planned, Rolls, Whereabouts,
         sets \in Jobs, WriteBuffer(sets)
  PROVE  Whereabouts' /\ Emptied'
<1> DEFINE new == job[sets].obj
           v == job[sets].val
           cells(obj) == obj.off..(obj.off + obj.size - 1)
<1>1. /\ At = "replied" /\ Thread = "accept" /\ Recorded(sets)
      /\ new.stripe = curStripe
      /\ \A i \in Buffers \ {new.idx} : proxyBuf'[curProxy][i] = proxyBuf[curProxy][i]
      /\ proxyBuf'[curProxy][new.idx] = [x \in Cells |->
              IF x \in cells(new) THEN <<v, x - new.off + 1>>
              ELSE proxyBuf[curProxy][new.idx][x]]
  BY Puts
<1>2. JobStep(sets) /\ Moves /\ UNCHANGED <<enc, curStripe, curProxy>>
  BY JobMoves DEF JobStep, WriteBuffer
<1>3. At' = "replied" /\ ~ Rolling
  <2>1. job' = [job EXCEPT ![sets].tpc = "report"] /\ DOMAIN job = Jobs /\ HasFields(job[sets])
    BY DEF WriteBuffer, SingleInv, Shape
  <2>2. job'[sets].upc = job[sets].upc
    BY <2>1 DEF HasFields
  <2> QED BY <1>1, <1>2, <2>2 DEF Moves, Rolling
<1>4. \A i \in Jobs : enc[i].pc # "none" => enc[i].stripe < curStripe
  BY <1>3 DEF Rolls
<1>5. \A i \in Jobs : enc[i].pc = "save" => enc[i].stripe # new.stripe
  BY <1>1, <1>4 DEF Inv, CountShape
<1>6. /\ new.off \in Nat /\ new.size \in Nat /\ new.size = Size[v] /\ new.idx \in Buffers
      /\ new.off + new.size <= ShardSize
  BY <1>1, PlaceOf
<1> HIDE DEF new, v
<1>7. Fits(proxyBuf'[curProxy][new.idx], new, v)
  <2> SUFFICES ASSUME NEW x \in 1..new.size
               PROVE  proxyBuf'[curProxy][new.idx][new.off + x - 1] = <<v, x>>
    BY <1>6 DEF Fits
  <2>1. /\ new.off + x - 1 \in Cells /\ new.off + x - 1 \in cells(new)
        /\ (new.off + x - 1) - new.off + 1 = x
    BY <1>6, SizeType DEF Cells
  <2> QED BY <1>1, <2>1
<1>8. ASSUME NEW j \in Jobs, Written(j), job[j].obj.stripe = curStripe
      PROVE  Fits(proxyBuf'[curProxy][job[j].obj.idx], job[j].obj, job[j].val)
  <2> DEFINE obj == job[j].obj
             w == job[j].val
  <2>1. Recorded(j) /\ j # sets
    BY <1>1, <1>2, <1>8, WrittenIsRecorded DEF Moves
  <2>2. /\ obj.off \in Nat /\ obj.size \in Nat /\ obj.size = Size[w] /\ obj.idx \in Buffers
        /\ obj.off + obj.size <= ShardSize
    BY <2>1, PlaceOf
  <2>3. Apart(obj, new)
    BY <1>1, <2>1 DEF Inv, SlotInv, new
  <2>4. Fits(proxyBuf[curProxy][obj.idx], obj, w)
    BY <1>1, <1>8 DEF Whereabouts
  <2>5. obj.stripe = new.stripe
    BY <1>1, <1>8
  <2> HIDE DEF obj, w
  <2> SUFFICES ASSUME NEW x \in 1..obj.size
               PROVE  proxyBuf'[curProxy][obj.idx][obj.off + x - 1] = <<w, x>>
    BY <2>2 DEF Fits, obj, w
  <2>6. proxyBuf[curProxy][obj.idx][obj.off + x - 1] = <<w, x>>
    BY <2>2, <2>4 DEF Fits
  <2>7. CASE obj.idx # new.idx
    BY <1>1, <2>2, <2>6, <2>7
  <2>8. CASE obj.idx = new.idx
    <3>1. obj.off + x - 1 \in Cells /\ obj.off + x - 1 \notin cells(new)
      BY <1>6, <2>2, <2>3, <2>5, <2>8, SizeType DEF Apart, Cells
    <3> QED BY <1>1, <2>6, <2>8, <3>1
  <2> QED BY <2>7, <2>8
<1>9. \A j \in Jobs : Written(j)' =>
        /\ job'[j].obj = job[j].obj /\ job'[j].val = job[j].val
        /\ Written(j) \/ j = sets
  BY <1>1, <1>2, NewlyWritten DEF Moves
<1>10. Emptied'
  BY <1>3 DEF Emptied
<1> SUFFICES ASSUME NEW j \in Jobs, Written(j)'
             PROVE  LET obj == job[j].obj IN
      /\ obj.stripe = curStripe /\ At' # "renew" =>
           Fits(proxyBuf'[curProxy][obj.idx], obj, job[j].val)
      /\ \A i \in Jobs : enc[i].pc = "save" /\ enc[i].stripe = obj.stripe =>
           Fits(enc[i].data[obj.idx], obj, job[j].val)
      /\ obj.stripe # curStripe \/ At' = "renew" =>
           \E i \in Jobs : enc[i].pc = "save" /\ enc[i].stripe = obj.stripe
  BY <1>2, <1>9, <1>10, WhereNext
<1>11. CASE Written(j)
  BY <1>1, <1>3, <1>8, <1>11 DEF Whereabouts
<1>12. CASE j = sets
  BY <1>1, <1>3, <1>5, <1>7, <1>12 DEF new, v
<1> QED BY <1>9, <1>11, <1>12

LEMMA WhereReinit ==
  ASSUME TypeOK, Inv, SingleInv, Rolls, Whereabouts, sets \in Jobs, ReinitBuffers(sets)
  PROVE  Whereabouts' /\ Emptied'
<1>1. /\ job[sets].upc = "wait" /\ sem[enc[sets].proxy] > 0
      /\ proxyBuf' = [proxyBuf EXCEPT ![enc[sets].proxy] = EmptyBuffers]
      /\ job' = [job EXCEPT ![sets].upc = "renew"]
      /\ UNCHANGED <<enc, curStripe, curProxy>>
  BY DEF ReinitBuffers
<1>2. JobStep(sets) /\ Moves /\ At = "wait" /\ DOMAIN job = Jobs /\ HasFields(job[sets])
  BY <1>1, JobMoves DEF JobStep, Moves, SingleInv, Shape
<1>3. At' = "renew"
  BY <1>1, <1>2 DEF Moves, HasFields
<1>4. enc[sets].proxy = curProxy /\ curProxy \in AZs
  BY <1>2 DEF SingleInv, Posts, Shape
<1>5. enc[sets].pc # "copy" /\ enc[sets].pc # "none" /\ enc[sets].stripe = curStripe
  <2>1. sem[curProxy] > 0
    BY <1>1, <1>4
  <2> QED BY <1>2, <1>4, <2>1 DEF SingleInv, Posts, Rolls, Rolling
<1>6. enc[sets].pc = "save"
  BY <1>5 DEF TypeOK, DataTypeOK
<1>7. Emptied'
  BY <1>1, <1>4 DEF Emptied, TypeOK, DataTypeOK
<1>8. \A j \in Jobs : Written(j)' =>
        Written(j) /\ job'[j].obj = job[j].obj /\ job'[j].val = job[j].val
  <2>1. ~ WriteBuffer(sets)
    BY <1>1, <1>2, <1>3 DEF WriteBuffer, Moves, SingleInv, Course, Before
  <2> QED BY <1>2, <2>1, NewlyWritten
<1> SUFFICES ASSUME NEW j \in Jobs, Written(j)'
             PROVE  LET obj == job[j].obj IN
      /\ \A i \in Jobs : enc[i].pc = "save" /\ enc[i].stripe = obj.stripe =>
           Fits(enc[i].data[obj.idx], obj, job[j].val)
      /\ \E i \in Jobs : enc[i].pc = "save" /\ enc[i].stripe = obj.stripe
  BY <1>1, <1>3, <1>7, <1>8, WhereNext
<1>9. Written(j)
  BY <1>8
<1>10. CASE job[j].obj.stripe = curStripe
  BY <1>5, <1>6, <1>9, <1>10 DEF Whereabouts
<1>11. CASE job[j].obj.stripe # curStripe
  BY <1>9, <1>11 DEF Whereabouts
<1> QED BY <1>10, <1>11

LEMMA WhereRenew ==
  ASSUME Inv, SingleInv, Planned, Whereabouts, sets \in Jobs, NewStripe(sets)
  PROVE  Whereabouts' /\ Emptied'
<1>1. /\ job[sets].upc = "renew" /\ curStripe' = nextStripe
      /\ job' = [job EXCEPT ![sets].upc = "write"]
      /\ UNCHANGED <<enc, proxyBuf>>
  BY DEF NewStripe
<1>2. JobStep(sets) /\ Moves /\ At = "renew" /\ DOMAIN job = Jobs /\ HasFields(job[sets])
  BY <1>1, JobMoves DEF JobStep, Moves, SingleInv, Shape
<1>3. At' = "write"
  BY <1>1, <1>2 DEF Moves, HasFields
<1>4. \A j \in Jobs : Written(j)' =>
        Written(j) /\ job'[j].obj = job[j].obj /\ job'[j].val = job[j].val
  <2>1. ~ WriteBuffer(sets)
    BY <1>1, <1>2 DEF WriteBuffer, Moves, SingleInv, Course, Before
  <2> QED BY <1>2, <2>1, NewlyWritten
<1>5. \A j \in Jobs : Written(j) => job[j].obj.stripe # nextStripe
  BY WrittenIsRecorded, PlaceOf DEF Inv, CountShape
<1>6. Emptied'
  BY <1>3 DEF Emptied
<1> SUFFICES ASSUME NEW j \in Jobs, Written(j)'
             PROVE  LET obj == job[j].obj IN
      /\ \A i \in Jobs : enc[i].pc = "save" /\ enc[i].stripe = obj.stripe =>
           Fits(enc[i].data[obj.idx], obj, job[j].val)
      /\ \E i \in Jobs : enc[i].pc = "save" /\ enc[i].stripe = obj.stripe
  BY <1>1, <1>3, <1>4, <1>5, <1>6, WhereNext
<1>7. Written(j)
  BY <1>4
<1> QED BY <1>2, <1>7 DEF Whereabouts

LEMMA WhereCopy ==
  ASSUME Rolls, Whereabouts, Copying
  PROVE  Whereabouts' /\ Emptied'
<1>1. /\ At = "wait" /\ At' = "wait" /\ UNCHANGED <<curStripe, curProxy, proxyBuf, job>>
      /\ sets \in Jobs /\ enc[sets].pc = "copy"
      /\ \A i \in Jobs \ {sets} : enc'[i] = enc[i]
      /\ enc'[sets].pc = "save" /\ enc'[sets].stripe = enc[sets].stripe
      /\ enc'[sets].data = proxyBuf[curProxy]
  BY DEF Copying
<1>2. enc[sets].stripe = curStripe
  BY <1>1 DEF Rolls, Rolling
<1>3. Emptied'
  BY <1>1, SMTT(30) DEF Emptied
<1> SUFFICES ASSUME NEW j \in Jobs, Written(j)
             PROVE  LET obj == job[j].obj IN
      /\ obj.stripe = curStripe /\ At' # "renew" =>
           Fits(proxyBuf[curProxy][obj.idx], obj, job[j].val)
      /\ \A i \in Jobs : enc'[i].pc = "save" /\ enc'[i].stripe = obj.stripe =>
           Fits(enc'[i].data[obj.idx], obj, job[j].val)
      /\ obj.stripe # curStripe \/ At' = "renew" =>
           \E i \in Jobs : enc'[i].pc = "save" /\ enc'[i].stripe = obj.stripe
  BY <1>1, <1>3, ZenonT(60) DEF Whereabouts, Written, Fits
<1> DEFINE obj == job[j].obj
<1>4. obj.stripe = curStripe => Fits(proxyBuf[curProxy][obj.idx], obj, job[j].val)
  BY <1>1 DEF Whereabouts
<1>5. \A i \in Jobs : enc'[i].pc = "save" /\ enc'[i].stripe = obj.stripe =>
           Fits(enc'[i].data[obj.idx], obj, job[j].val)
  BY <1>1, <1>2, <1>4 DEF Whereabouts
<1>6. obj.stripe # curStripe =>
        \E i \in Jobs : enc'[i].pc = "save" /\ enc'[i].stripe = obj.stripe
  BY <1>1 DEF Whereabouts
<1> QED BY <1>1, <1>4, <1>5, <1>6

LEMMA WhereStep ==
  ASSUME ShortReads = FALSE, OneClient, TypeOK, Inv, SingleInv, Planned, Rolls,
         Whereabouts, Emptied, [Next]_vars
  PROVE  Whereabouts' /\ Emptied'
<1>1. ASSUME NEW k \in KeysOf[client], NEW v \in Vals, Set(client, k, v)
      PROVE  Whereabouts' /\ Emptied'
  <2>1. Begins(k, v)
    BY <1>1, SetBegins
  <2>2. \A j \in Jobs : Written(j)' => Written(j) /\ job'[j] = job[j]
    BY <2>1 DEF Begins, Written
  <2> QED BY <2>1, <2>2, WhereKept DEF Begins
<1>2. ASSUME JobStep(sets), sets \in Jobs
      PROVE  Whereabouts' /\ Emptied'
  <2>1. CASE WriteBuffer(sets)
    BY <1>2, <2>1, WhereWrite
  <2>2. CASE ReinitBuffers(sets)
    BY <1>2, <2>2, WhereReinit
  <2>3. CASE NewStripe(sets)
    BY <1>2, <2>3, WhereRenew
  <2>4. CASE Roll(sets)
    <3>1. /\ enc' = [enc EXCEPT ![sets].pc = "copy", ![sets].stripe = curStripe,
                                ![sets].proxy = curProxy]
          /\ job' = [job EXCEPT ![sets].upc = "wait"]
          /\ UNCHANGED <<curStripe, curProxy, proxyBuf>>
      BY <2>4 DEF Roll
    <3>2. /\ DOMAIN enc = Jobs /\ IsEnc(enc[sets]) /\ At = "roll" /\ Moves
          /\ DOMAIN job = Jobs /\ HasFields(job[sets])
      BY <1>2, <2>4, JobMoves DEF Roll, Moves, SingleInv, Shape
    <3>3. /\ \A i \in Jobs \ {sets} : enc'[i] = enc[i]
          /\ enc'[sets].pc = "copy" /\ job'[sets].upc = "wait"
      BY <1>2, <3>1, <3>2 DEF IsEnc, HasFields
    <3>4. enc[sets].pc = "none" /\ At' = "wait"
      BY <3>2, <3>3 DEF Rolls, Moves
    <3>5. ~ WriteBuffer(sets)
      BY <2>4, <3>2 DEF Roll, WriteBuffer, Moves, SingleInv, Course, Before
    <3>6. \A j \in Jobs : Written(j)' =>
            Written(j) /\ job'[j].obj = job[j].obj /\ job'[j].val = job[j].val
      BY <1>2, <3>5, NewlyWritten
    <3>7. \A i \in Jobs : /\ enc[i].pc = "save" <=> enc'[i].pc = "save"
                          /\ enc[i].pc = "save" => enc'[i] = enc[i]
      BY <3>3, <3>4
    <3> QED BY <3>1, <3>2, <3>4, <3>6, <3>7, WhereKept
  <2>5. CASE ~WriteBuffer(sets) /\ ~ReinitBuffers(sets) /\ ~NewStripe(sets) /\ ~Roll(sets)
    <3>1. proxyBuf' = proxyBuf
      BY <1>2, <2>5 DEF JobStep, UploadErase, ChooseBuffer, StartWrite, RecordObject,
         UploadPublish, ReportCommitAbort
    <3>2. \A j \in Jobs : Written(j)' =>
            Written(j) /\ job'[j].obj = job[j].obj /\ job'[j].val = job[j].val
      BY <1>2, <2>5, NewlyWritten
    <3> QED BY <1>2, <2>5, <3>1, <3>2, NoRoll, WhereKept
  <2> QED BY <2>1, <2>2, <2>3, <2>4, <2>5
<1>3. ASSUME EncodeCopy(sets), sets \in Jobs
      PROVE  Whereabouts' /\ Emptied'
  BY <1>3, CopyIsMade, WhereCopy
<1>4. ASSUME NEW j \in Jobs, NEW x \in Buffers, SetToMemcached(j, x)
      PROVE  Whereabouts' /\ Emptied'
  <2>1. Saving(j, x)
    BY <1>4, BlockIsSent
  <2>2. UNCHANGED <<curStripe, curProxy, proxyBuf, job>> /\ At' = At
    BY <2>1 DEF Saving
  <2>3. \A i \in Jobs : /\ enc[i].pc = "save" <=> enc'[i].pc = "save"
                        /\ enc'[i].stripe = enc[i].stripe /\ enc'[i].data = enc[i].data
    BY <2>1 DEF Saving
  <2>4. \A i \in Jobs : Written(i)' => Written(i)
    BY <2>2 DEF Written
  <2> QED BY <2>2, <2>3, <2>4, WhereKept
<1>5. CASE \/ ClientStep(client) \/ \E k \in KeysOf[client] : Get(client, k)
           \/ UNCHANGED vars
  <2>1. Quiet
    BY <1>5, ClientIsQuiet DEF TypeOK, DataTypeOK
  <2>2. \A i \in Jobs : Written(i)' => Written(i)
    BY <2>1 DEF Quiet, Written
  <2>3. UNCHANGED <<curStripe, curProxy, proxyBuf, job, enc>>
        /\ (At = "renew" <=> At' = "renew")
    BY <2>1 DEF Quiet
  <2> QED BY <2>2, <2>3, WhereKept
<1> QED BY <1>1, <1>2, <1>3, <1>4, <1>5, Steps


-----------------------------------------------------------------------------
(* What a key is committed as                                              *)

LEMMA EntryKept ==
  ASSUME SingleInv, Moves, Entries, NEW k \in Keys, commit'[k] = commit[k],
         At # "erase" \/ Cur.key # k
  PROVE  Entry(k)'
<1>1. /\ DOMAIN job' = Jobs /\ \A i \in Jobs \ {sets} : job'[i] = job[i]
      /\ job'[sets].key = job[sets].key /\ job'[sets].val = job[sets].val
      /\ Cur = job[sets] /\ Cur' = job'[sets] /\ Busy /\ Busy' /\ sets \in Jobs
      /\ UNCHANGED <<keyValues, sets>>
      /\ At' \notin {"unused", "erase"} /\ job[sets].tpc # "done"
      /\ At = job[sets].upc /\ At # "unused"
  BY DEF Moves
<1>2. Resetting(k)' <=> Resetting(k)
  BY <1>1 DEF Resetting
<1>3. Current(k)' = Current(k)
  BY <1>1, <1>2 DEF Current
<1>4. ASSUME commit'[k] # Absent
      PROVE  \E j \in Jobs :
              /\ Recorded(j)' /\ job'[j].tpc = "done" /\ Latest(j)'
              /\ job'[j].key = k /\ job'[j].val = Current(k)'
              /\ commit'[k] = job'[j].obj
  <2>1. PICK j \in Jobs :
            /\ Recorded(j) /\ job[j].tpc = "done" /\ Latest(j)
            /\ job[j].key = k /\ job[j].val = Current(k)
            /\ commit[k] = job[j].obj
    BY <1>4 DEF Entries, Entry
  <2>2. j # sets /\ job'[j] = job[j] /\ Recorded(j)'
    BY <1>1, <2>1 DEF Recorded
  <2>3. ASSUME NEW i \in Jobs, job'[i].key = job'[j].key,
               job'[i].upc \notin {"unused", "erase"}
        PROVE  i <= j
    <3>1. CASE i # sets
      BY <1>1, <2>1, <2>2, <2>3, <3>1 DEF Latest
    <3>2. CASE i = sets
      BY <1>1, <2>1, <2>2, <2>3, <3>2 DEF Latest
    <3> QED BY <3>1, <3>2
  <2>4. Latest(j)'
    BY <2>3 DEF Latest
  <2> QED BY <1>3, <2>1, <2>2, <2>4
<1> QED BY <1>1, <1>2, <1>4 DEF Entries, Entry

LEMMA EntriesJob ==
  ASSUME TypeOK, SingleInv, Entries, sets \in Jobs, JobStep(sets)
  PROVE  Entries'
<1>1. Moves /\ DOMAIN job = Jobs /\ HasFields(job[sets])
      /\ DOMAIN commit = Keys /\ DOMAIN updating = Keys
  BY JobMoves DEF SingleInv, Shape
<1>2. /\ Cur = job[sets] /\ Cur' = job'[sets] /\ Busy /\ Busy'
      /\ At = job[sets].upc /\ At' = job'[sets].upc
      /\ Thread = job[sets].tpc /\ Thread' = job'[sets].tpc
      /\ job'[sets].key = job[sets].key /\ Cur.key \in Keys
      /\ Recorded(sets) => job'[sets].obj = job[sets].obj
      /\ Thread # "done" /\ UNCHANGED sets
  BY <1>1 DEF Moves
<1>3. CASE UploadErase(sets)
  <2>1. /\ commit' = [commit EXCEPT ![Cur.key] = Absent] /\ UNCHANGED updating
        /\ job' = [job EXCEPT ![sets].upc = "choose"]
    BY <1>2, <1>3 DEF UploadErase, Forget
  <2>2. At' = "choose"
    BY <1>1, <1>2, <2>1 DEF HasFields
  <2>3. commit'[Cur.key] = Absent /\ \A k \in Keys \ {Cur.key} : commit'[k] = commit[k]
    BY <1>1, <1>2, <2>1
  <2>4. Resetting(Cur.key)'
    BY <1>2, <2>2 DEF Resetting
  <2>5. ASSUME NEW k \in Keys
        PROVE  Entry(k)'
    <3>1. CASE k = Cur.key
      BY <1>2, <2>3, <2>4, <3>1 DEF Entry
    <3>2. CASE k # Cur.key
      BY <1>1, <2>3, <3>2, EntryKept
    <3> QED BY <3>1, <3>2
  <2> QED BY <2>2, <2>5 DEF Entries
<1>4. CASE ReportCommitAbort(sets)
  <2>1. /\ commit' = [commit EXCEPT ![Cur.key] = IF updating[Cur.key] = Absent
                                                 THEN NoObject ELSE updating[Cur.key]]
        /\ job' = [job EXCEPT ![sets].tpc = "done"] /\ Thread = "report"
    BY <1>2, <1>4 DEF ReportCommitAbort
  <2>2. Thread' = "done" /\ At' = At /\ job'[sets].tpc = "done"
    BY <1>1, <1>2, <2>1 DEF HasFields
  <2>3. At = "replied" /\ Recorded(sets)
    BY <1>2, <2>1 DEF SingleInv, Course, Recorded, Busy
  <2>4. updating[Cur.key] = Cur.obj /\ Cur.obj # Absent
    BY <1>2, <2>1, <2>3, AbsentAssumption DEF Entries, TypeOK, CallTypeOK
  <2>5. commit'[Cur.key] = Cur.obj /\ \A k \in Keys \ {Cur.key} : commit'[k] = commit[k]
    BY <1>1, <1>2, <2>1, <2>4
  <2>6. Latest(sets)' /\ Recorded(sets)'
    <3>1. ASSUME NEW i \in Jobs, job'[i].upc \notin {"unused", "erase"}
          PROVE  i <= sets
      <4>1. CASE i # sets
        BY <1>1, <3>1, <4>1, Others DEF Moves
      <4>2. CASE i = sets
        BY <4>2, NumberOfSets
      <4> QED BY <4>1, <4>2
    <3>2. Latest(sets)'
      BY <1>2, <3>1 DEF Latest
    <3> QED BY <1>2, <2>2, <2>3, <3>2 DEF Recorded
  <2>7. ASSUME NEW k \in Keys
        PROVE  Entry(k)'
    <3>1. CASE k = Cur.key
      <4>1. job'[sets].val = Current(k)'
        BY <1>2, <2>2, <2>3, <3>1 DEF Current, Resetting
      <4>2. /\ job'[sets].tpc = "done" /\ job'[sets].key = k
            /\ commit'[k] = job'[sets].obj /\ commit'[k] # Absent
        BY <1>2, <2>2, <2>3, <2>4, <2>5, <3>1
      <4> QED BY <1>2, <2>6, <4>1, <4>2 DEF Entry
    <3>2. CASE k # Cur.key
      BY <1>1, <2>5, <3>2, EntryKept
    <3> QED BY <3>1, <3>2
  <2> QED BY <2>2, <2>7 DEF Entries
<1>5. CASE ~UploadErase(sets) /\ ~ReportCommitAbort(sets)
  <2>1. UNCHANGED commit
    <3>1. CASE ChooseBuffer(sets) \/ Roll(sets) \/ ReinitBuffers(sets) \/ NewStripe(sets)
      BY <3>1 DEF ChooseBuffer, Roll, ReinitBuffers, NewStripe, tableVars
    <3>2. CASE StartWrite(sets) \/ RecordObject(sets)
      BY <3>2 DEF StartWrite, RecordObject, tableVars
    <3>3. CASE UploadPublish(sets)
      BY <3>3 DEF UploadPublish
    <3>4. CASE WriteBuffer(sets)
      <4>1. UNCHANGED coordVars
        BY <3>4 DEF WriteBuffer
      <4> QED BY <4>1, Zenon DEF coordVars, tableVars
    <3> QED BY <1>5, <3>1, <3>2, <3>3, <3>4 DEF JobStep
  <2>2. At # "erase"
    <3>1. Thread = "accept" => At # "erase"
      BY <1>2 DEF SingleInv, Course, Before, Busy
    <3> QED BY <1>2, <1>5, <3>1 DEF JobStep, ChooseBuffer, Roll, ReinitBuffers, NewStripe,
               StartWrite, RecordObject, UploadPublish, WriteBuffer
  <2>3. At' = "replied" => updating'[Cur'.key] = Cur'.obj
    <3>1. CASE UploadPublish(sets)
      <4>1. /\ updating' = [updating EXCEPT ![Cur.key] = Cur.obj]
            /\ Recorded(sets)
        BY <1>2, <3>1 DEF UploadPublish, Recorded
      <4> QED BY <1>1, <1>2, <4>1
    <3>2. CASE WriteBuffer(sets)
      <4>1. UNCHANGED updating /\ job' = [job EXCEPT ![sets].tpc = "report"]
        BY <3>2 DEF WriteBuffer
      <4>2. At' = At
        BY <1>1, <1>2, <4>1 DEF HasFields
      <4> QED BY <1>2, <4>1, <4>2 DEF Entries, Recorded
    <3>3. CASE ~UploadPublish(sets) /\ ~WriteBuffer(sets)
      <4>1. CASE ChooseBuffer(sets) \/ Roll(sets) \/ ReinitBuffers(sets)
        BY <1>1, <1>2, <4>1 DEF ChooseBuffer, Roll, ReinitBuffers, HasFields
      <4>2. CASE NewStripe(sets) \/ StartWrite(sets)
        BY <1>1, <1>2, <4>2 DEF NewStripe, StartWrite, HasFields
      <4>3. CASE RecordObject(sets)
        BY <1>1, <1>2, <4>3 DEF RecordObject, HasFields
      <4> QED BY <1>5, <3>3, <4>1, <4>2, <4>3 DEF JobStep
    <3> QED BY <3>1, <3>2, <3>3
  <2>4. \A k \in Keys : Entry(k)'
    BY <1>1, <2>1, <2>2, EntryKept
  <2> QED BY <2>3, <2>4, SMTT(30) DEF Entries
<1> QED BY <1>3, <1>4, <1>5


LEMMA EntriesStill ==
  ASSUME Entries, UNCHANGED <<job, commit, updating, keyValues, sets>>,
         Busy' = Busy, At' = At, Thread' = Thread
  PROVE  Entries'
BY DEF Entries, Entry, Resetting, Current, Latest, Recorded, Cur

LEMMA EntriesChecked ==
  ASSUME OneClient, TypeOK, SingleInv, Entries, CheckCommitAbort(client), Busy, ~Busy',
         At = "replied", At' = "idle", Thread' = "done"
  PROVE  Entries'
<1>1. /\ cjob[client] = sets /\ Cur.key \in Keys /\ client \in Clients
      /\ keyValues \in [Clients -> [Keys -> Vals \cup {None}]]
  BY DEF SingleInv, OneAtATime, OneClient, TypeOK, ClientTypeOK
<1>2. /\ keyValues' = [keyValues EXCEPT ![client][Cur.key] = Cur.val]
      /\ commit[Cur.key] # Absent /\ UNCHANGED <<job, commit, updating, sets>>
  BY <1>1 DEF CheckCommitAbort, Cur
<1>3. /\ keyValues'[client][Cur.key] = Cur.val
      /\ \A k \in Keys \ {Cur.key} : keyValues'[client][k] = keyValues[client][k]
  BY <1>1, <1>2
<1>4. \A k \in Keys : Current(k)' = Current(k) /\ ~ Resetting(k)'
  BY <1>3 DEF Current, Resetting
<1>5. ASSUME NEW k \in Keys
      PROVE  Entry(k)'
  <2>1. ASSUME commit'[k] # Absent
        PROVE  \E j \in Jobs :
                 /\ Recorded(j)' /\ job'[j].tpc = "done" /\ Latest(j)'
                 /\ job'[j].key = k /\ job'[j].val = Current(k)'
                 /\ commit'[k] = job'[j].obj
    <3>1. PICK j \in Jobs :
                 /\ Recorded(j) /\ job[j].tpc = "done" /\ Latest(j)
                 /\ job[j].key = k /\ job[j].val = Current(k)
                 /\ commit[k] = job[j].obj
      BY <1>2, <2>1 DEF Entries, Entry
    <3> QED BY <1>2, <1>4, <3>1 DEF Recorded, Latest
  <2>2. keyValues'[client][k] # None => commit'[k] # Absent
    BY <1>2, <1>3 DEF Entries, Entry, Resetting
  <2> QED BY <2>1, <2>2 DEF Entry
<1> QED BY <1>5 DEF Entries

LEMMA EntriesStep ==
  ASSUME OneClient, TypeOK, SingleInv, Entries, [Next]_vars
  PROVE  Entries'
<1>1. ASSUME NEW k \in KeysOf[client], NEW v \in Vals, Set(client, k, v)
      PROVE  Entries'
  <2>1. Begins(k, v)
    BY <1>1, SetBegins
  <2>2. \A j \in Jobs : job'[j].upc \notin {"unused", "erase"} => job'[j] = job[j]
    BY <2>1 DEF Begins
  <2>3. \A x \in Keys : /\ Current(x) = keyValues[client][x] /\ Current(x)' = Current(x)
                        /\ ~Resetting(x) /\ ~Resetting(x)'
    BY <2>1 DEF Begins, Current, Resetting
  <2>4. ASSUME NEW x \in Keys, commit'[x] # Absent
        PROVE  \E j \in Jobs :
                 /\ Recorded(j)' /\ job'[j].tpc = "done" /\ Latest(j)'
                 /\ job'[j].key = x /\ job'[j].val = Current(x)'
                 /\ commit'[x] = job'[j].obj
    <3>1. UNCHANGED commit
      BY <2>1 DEF Begins
    <3>2. PICK j \in Jobs :
                 /\ Recorded(j) /\ job[j].tpc = "done" /\ Latest(j)
                 /\ job[j].key = x /\ job[j].val = Current(x)
                 /\ commit[x] = job[j].obj
      BY <2>4, <3>1 DEF Entries, Entry
    <3>3. job'[j] = job[j]
      BY <2>1, <3>2 DEF Begins, Recorded
    <3>4. Latest(j)'
      BY <2>2, <3>2, <3>3 DEF Latest
    <3> QED BY <2>3, <3>1, <3>2, <3>3, <3>4 DEF Recorded
  <2>5. \A x \in Keys : keyValues'[client][x] # None => commit'[x] # Absent
    BY <2>1, <2>3 DEF Begins, Entries, Entry
  <2>6. \A x \in Keys : Entry(x)'
    BY <2>4, <2>5 DEF Entry
  <2> QED BY <2>1, <2>6 DEF Entries, Begins
<1>2. ASSUME JobStep(sets), sets \in Jobs
      PROVE  Entries'
  BY <1>2, EntriesJob
<1>3. ASSUME EncodeCopy(sets), sets \in Jobs
      PROVE  Entries'
  BY <1>3, CopyIsMade, EntriesStill DEF Copying
<1>4. ASSUME NEW j \in Jobs, NEW x \in Buffers, SetToMemcached(j, x)
      PROVE  Entries'
  <2>1. Saving(j, x)
    BY <1>4, BlockIsSent
  <2> QED BY <2>1, EntriesStill DEF Saving
<1>5. CASE \/ ClientStep(client) \/ \E k \in KeysOf[client] : Get(client, k)
           \/ UNCHANGED vars
  <2>1. Quiet
    BY <1>5, ClientIsQuiet DEF TypeOK, DataTypeOK
  <2>2. CASE Busy /\ ~Busy'
    BY <2>1, <2>2, EntriesChecked DEF Quiet
  <2>3. CASE ~(Busy /\ ~Busy')
    <3>1. ~ CheckCommitAbort(client)
      <4>1. CheckCommitAbort(client) => cpc'[client] = "idle" /\ cpc[client] = "check"
        BY DEF CheckCommitAbort, SingleInv, Shape, OneClient
      <4> QED BY <2>3, <4>1 DEF Busy
    <3>2. UNCHANGED keyValues
      BY <1>5, <3>1 DEF ClientStep, Connect, GetValue, Route, GetObjectFromBuffer,
         GetFromMemcached, Get, vars
    <3>3. At' = At /\ Thread' = Thread /\ (Busy' <=> Busy)
      BY <2>1, <2>3 DEF Quiet
    <3>4. Busy' = Busy
      BY <3>3 DEF Busy
    <3> QED BY <2>1, <3>2, <3>3, <3>4, EntriesStill DEF Quiet
  <2> QED BY <2>2, <2>3
<1> QED BY <1>1, <1>2, <1>3, <1>4, <1>5, Steps

LEMMA AskedStep ==
  ASSUME OneClient, TypeOK, SingleInv, Asked, [Next]_vars
  PROVE  Asked'
<1>1. client \in Clients /\ DOMAIN cpc = Clients /\ DOMAIN ckey = Clients
  BY DEF OneClient, TypeOK, ClientTypeOK
<1>2. ASSUME NEW k \in KeysOf[client], NEW v \in Vals, Set(client, k, v)
      PROVE  Asked'
  BY <1>2, SetBegins DEF Begins, Asked, InGet
<1>3. CASE JobStep(sets) /\ sets \in Jobs
  BY <1>3, JobMoves DEF Moves, Asked
<1>4. CASE EncodeCopy(sets) \/ (\E j \in Jobs, i \in Buffers : SetToMemcached(j, i))
           \/ UNCHANGED vars
  BY <1>4 DEF EncodeCopy, SetToMemcached, Asked, vars
<1>5. ASSUME NEW k \in KeysOf[client], Get(client, k)
      PROVE  Asked'
  <2>1. k \in Keys
    BY <1>1, KeysOfAssumption
  <2> QED BY <1>1, <1>5, <2>1 DEF Get, Asked
<1>6. CASE ClientStep(client)
  <2>1. ckey' = ckey /\ (cpc'[client] \in InGet => cpc[client] \in InGet)
    <3>1. CASE Connect(client) \/ CheckCommitAbort(client)
      BY <1>1, <3>1 DEF Connect, CheckCommitAbort, InGet
    <3>2. CASE GetValue(client) \/ Route(client)
      BY <1>1, <3>2 DEF GetValue, Route, InGet
    <3>3. CASE GetObjectFromBuffer(client) \/ GetFromMemcached(client)
      BY <1>1, <3>3 DEF GetObjectFromBuffer, GetFromMemcached, InGet
    <3> QED BY <1>6, <3>1, <3>2, <3>3 DEF ClientStep
  <2> QED BY <2>1 DEF Asked
<1> QED BY <1>2, <1>3, <1>4, <1>5, <1>6, Steps


-----------------------------------------------------------------------------
(* Types                                                                   *)

LEMMA InitTypes == Init => TypeOK
<1> SUFFICES ASSUME Init PROVE TypeOK
  OBVIOUS
<1>1. /\ SemInit \in Nat /\ MaxSets \in Nat /\ MaxGets \in Nat
      /\ 0 \in Buffers /\ ShardSize \in Nat
  BY SizeAssumption, LimitAssumption DEF Buffers
<1>2. NoObject \in ObjectType
  BY DEF ObjectType
<1>3. EmptyBuffers \in Contents
  BY DEF EmptyBuffers, Contents, Bytes
<1>4. ClientTypeOK
  BY <1>1 DEF Init, ClientTypeOK
<1>5. CoordTypeOK
  BY <1>1 DEF Init, CoordTypeOK
<1>6. CallTypeOK
  BY <1>1, <1>2 DEF Init, CallTypeOK, Unused
<1>7. DataTypeOK
  BY <1>1, <1>3 DEF Init, DataTypeOK, NoEncoder
<1> QED BY <1>4, <1>5, <1>6, <1>7 DEF TypeOK

LEMMA ReadType ==
  ASSUME NEW shard, NEW obj
  PROVE  ReadAt(shard, obj) \in Vals \cup {Garbage}
BY DEF ReadAt, ValueOf

LEMMA ClientTypes ==
  ASSUME OneClient, TypeOK, SingleInv, Asked, [Next]_vars
  PROVE  ClientTypeOK'
<1> USE DEF ClientTypeOK
<1>1. client \in Clients /\ ClientTypeOK /\ MaxSets \in Nat
  BY LimitAssumption DEF OneClient, TypeOK
<1>2. ASSUME UNCHANGED clientVars
      PROVE  ClientTypeOK'
  BY <1>1, <1>2
<1>3. ASSUME NEW k \in KeysOf[client], NEW v \in Vals, Set(client, k, v)
      PROVE  ClientTypeOK'
  <2>1. sets + 1 \in 0..MaxSets
    <3>1. Begins(k, v)
      BY <1>3, SetBegins
    <3>2. sets + 1 \in 1..MaxSets
      BY <3>1, NumberOfSets DEF Begins
    <3> QED BY <3>2
  <2>2. /\ cpc' = [cpc EXCEPT ![client] = "upload"]
        /\ cjob' = [cjob EXCEPT ![client] = sets + 1]
        /\ cgot' = [cgot EXCEPT ![client] = None]
        /\ UNCHANGED <<ckey, keyValues>>
    BY <1>3 DEF Set
  <2> QED BY <1>1, <2>1, <2>2
<1>4. CASE JobStep(sets) /\ sets \in Jobs
  BY <1>2, <1>4, JobMoves DEF Moves
<1>5. CASE EncodeCopy(sets) \/ (\E j \in Jobs, i \in Buffers : SetToMemcached(j, i))
           \/ UNCHANGED vars
  BY <1>2, <1>5 DEF EncodeCopy, SetToMemcached, vars
<1>6. ASSUME NEW k \in KeysOf[client], Get(client, k)
      PROVE  ClientTypeOK'
  <2>1. k \in Keys
    BY <1>1, KeysOfAssumption
  <2> QED BY <1>1, <1>6, <2>1 DEF Get
<1>7. CASE Connect(client)
  BY <1>1, <1>7 DEF Connect
<1>8. CASE CheckCommitAbort(client)
  <2>1. /\ keyValues' = [keyValues EXCEPT ![client][Cur.key] = Cur.val]
        /\ Cur.key \in Keys /\ Cur.val \in Vals
    BY <1>8 DEF CheckCommitAbort, Busy, Cur, SingleInv, OneAtATime
  <2>2. keyValues' \in [Clients -> [Keys -> Vals \cup {None}]]
    BY <1>1, <2>1
  <2>3. cpc' = [cpc EXCEPT ![client] = "idle"] /\ UNCHANGED <<cjob, ckey, cgot>>
    BY <1>8 DEF CheckCommitAbort
  <2> QED BY <1>1, <2>2, <2>3
<1>9. CASE GetValue(client) \/ Route(client)
  BY <1>1, <1>9 DEF GetValue, Route
<1>10. CASE GetObjectFromBuffer(client) \/ GetFromMemcached(client)
  BY <1>1, <1>10, ReadType DEF GetObjectFromBuffer, GetFromMemcached
<1> QED BY <1>3, <1>4, <1>5, <1>6, <1>7, <1>8, <1>9, <1>10, Steps DEF ClientStep

JobType == [key : Keys \cup {None}, val : Vals \cup {None},
            upc : {"unused", "erase", "choose", "publish", "replied"} \cup Placing,
            tpc : {"none", "accept", "report", "done"},
            idx : Buffers, obj : ObjectType,
            proxy : AZs \cup {None}, reply : AZs \cup {None}]

LEMMA CoordTypes ==
  ASSUME OneClient, TypeOK, SingleInv, [Next]_vars, Inv', SingleInv'
  PROVE  CoordTypeOK'
<1> USE DEF CoordTypeOK
<1>1. CoordTypeOK /\ up \in [Nodes -> BOOLEAN]
  BY DEF TypeOK, DataTypeOK
<1>2. nextStripe' \in Nat /\ curStripe' \in Nat /\ bufRest' \in [Buffers -> 0..ShardSize]
  BY DEF Inv, CountShape
<1>3. curProxy' \in AZs
  BY DEF SingleInv, Shape
<1>4. CASE UNCHANGED coordVars
  BY <1>1, <1>4
<1>5. CASE Quiet /\ coordUp' \in BOOLEAN
  BY <1>1, <1>5 DEF Quiet
<1>6. ASSUME JobStep(sets), sets \in Jobs
      PROVE  CoordTypeOK'
  <2>1. job[sets].key \in Keys /\ job[sets].obj \in ObjectType
    BY <1>6, JobMoves DEF Moves, TypeOK, CallTypeOK
  <2>2. NoObject \in ObjectType
    BY SMTT(30) DEF ObjectType
  <2>3. coordUp' \in BOOLEAN
    BY <1>1, <1>6, ZenonT(60) DEF JobStep, UploadErase, ChooseBuffer, Roll, ReinitBuffers, NewStripe,
       StartWrite, RecordObject, UploadPublish, WriteBuffer, ReportCommitAbort
  <2>4. updating' \in [Keys -> ObjectType \cup {Absent}]
    BY <1>1, <1>6, <2>1, ZenonT(60) DEF JobStep, UploadErase, ChooseBuffer, Roll, ReinitBuffers,
       NewStripe, StartWrite, RecordObject, UploadPublish, WriteBuffer, ReportCommitAbort
  <2>5. commit' \in [Keys -> ObjectType \cup {Absent}]
    BY <1>1, <1>6, <2>1, <2>2, ZenonT(60) DEF JobStep, UploadErase, ChooseBuffer, Roll,
       ReinitBuffers, NewStripe, StartWrite, RecordObject, UploadPublish, WriteBuffer,
       ReportCommitAbort, Forget
  <2>6. keyInBuffer' \subseteq Keys
    BY <1>1, <1>6, <2>1, Zenon DEF JobStep, UploadErase, ChooseBuffer, Roll, ReinitBuffers,
       NewStripe, StartWrite, RecordObject, UploadPublish, WriteBuffer,
       ReportCommitAbort, ClearKeys
  <2>7. \A s \in DOMAIN stripeInfo' : s \in Nat /\ stripeInfo'[s] \in Placements
    <3>1. CASE Roll(sets)
      BY <1>1, <3>1 DEF Roll
    <3>2. CASE NewStripe(sets)
      BY <1>1, <3>2, SMTT(30) DEF NewStripe
    <3> QED BY <1>1, <1>6, <3>1, <3>2, NoRoll
  <2> QED BY <1>2, <1>3, <2>3, <2>4, <2>5, <2>6, <2>7
<1>7. CASE EncodeCopy(sets) \/ (\E j \in Jobs, i \in Buffers : SetToMemcached(j, i))
           \/ UNCHANGED vars
           \/ \E k \in KeysOf[client], v \in Vals : Set(client, k, v)
  BY <1>4, <1>7, Zenon DEF EncodeCopy, SetToMemcached, vars, Set
<1>8. CASE ClientStep(client) \/ \E k \in KeysOf[client] : Get(client, k)
  <2>1. coordUp' \in BOOLEAN
    BY <1>1, <1>8 DEF ClientStep, Connect, CheckCommitAbort, GetValue, Route,
       GetObjectFromBuffer, GetFromMemcached, Get
  <2> QED BY <1>1, <1>5, <1>8, <2>1, ClientIsQuiet
<1> QED BY <1>6, <1>7, <1>8, Steps

LEMMA CallTypes ==
  ASSUME OneClient, TypeOK, Inv, SingleInv, Asked, [Next]_vars, SingleInv'
  PROVE  CallTypeOK'
<1>1. /\ CallTypeOK /\ CoordTypeOK /\ ClientTypeOK /\ client \in Clients
      /\ job \in [Jobs -> JobType] /\ up \in [Nodes -> BOOLEAN]
      /\ MaxGets \in Nat
  BY LimitAssumption DEF TypeOK, OneClient, CallTypeOK, DataTypeOK, JobType
<1>2. sets' \in 0..MaxSets
  BY DEF SingleInv, Shape
<1>3. job' \in [Jobs -> JobType]
  <2>1. ASSUME NEW k \in KeysOf[client], NEW v \in Vals, Set(client, k, v)
        PROVE  job' \in [Jobs -> JobType]
    <3>1. k \in Keys
      BY <1>1, KeysOfAssumption
    <3>2. /\ job' = [job EXCEPT ![sets + 1].key = k, ![sets + 1].val = v,
                                ![sets + 1].upc = "erase"]
          /\ job'[sets + 1] = [job[sets + 1] EXCEPT !.key = k, !.val = v, !.upc = "erase"]
          /\ sets + 1 \in Jobs
      BY <2>1, SetBegins DEF Set, Begins
    <3>3. job'[sets + 1] \in JobType
      BY <1>1, <3>1, <3>2 DEF JobType
    <3> QED BY <1>1, <3>2, <3>3
  <2>2. ASSUME JobStep(sets), sets \in Jobs
        PROVE  job' \in [Jobs -> JobType]
    <3>1. /\ curProxy \in AZs /\ curStripe \in Nat /\ bufRest \in [Buffers -> 0..ShardSize]
      BY <1>1 DEF CoordTypeOK
    <3>2. CASE ChooseBuffer(sets)
      <4>1. /\ job[sets].val \in Vals /\ 0 \in Buffers
        BY <2>2, JobMoves, SizeFacts DEF Moves
      <4>2. Roomy(Size[job[sets].val]) # {} => Chosen(Size[job[sets].val]) \in Buffers
        <5>1. Size[job[sets].val] \in Nat
          BY <4>1, SizeType
        <5>2. Roomy(Size[job[sets].val]) # {}
                => Chosen(Size[job[sets].val]) \in Roomy(Size[job[sets].val])
          BY <5>1, ChosenIsRoomy DEF Inv
        <5> QED BY <5>2 DEF Roomy
      <4>3. CASE Roomy(Size[job[sets].val]) # {}
        <5>1. job' = [job EXCEPT ![sets].upc = "write",
                                 ![sets].idx = Chosen(Size[job[sets].val])]
          BY <3>2, <4>3 DEF ChooseBuffer
        <5>2. job'[sets] = [job[sets] EXCEPT !.upc = "write",
                                             !.idx = Chosen(Size[job[sets].val])]
          BY <1>1, <2>2, <5>1 DEF JobType
        <5>3. job'[sets] \in JobType
          BY <1>1, <2>2, <4>2, <4>3, <5>2 DEF JobType, Placing
        <5> QED BY <1>1, <2>2, <5>1, <5>3
      <4>4. CASE Roomy(Size[job[sets].val]) = {}
        <5>1. job' = [job EXCEPT ![sets].upc = "roll", ![sets].idx = 0]
          BY <3>2, <4>4 DEF ChooseBuffer
        <5>2. job'[sets] = [job[sets] EXCEPT !.upc = "roll", !.idx = 0]
          BY <1>1, <2>2, <5>1 DEF JobType
        <5>3. job'[sets] \in JobType
          BY <1>1, <2>2, <4>1, <5>2 DEF JobType, Placing
        <5> QED BY <1>1, <2>2, <5>1, <5>3
      <4> QED BY <4>3, <4>4
    <3>3. CASE RecordObject(sets)
      <4>1. /\ job[sets].idx \in Buffers /\ Size[job[sets].val] \in 1..ShardSize
            /\ ShardSize - bufRest[job[sets].idx] \in Int
        BY <1>1, <2>2, <3>1, JobMoves, SizeAssumption DEF Moves, JobType
      <4>2. [stripe |-> curStripe, idx |-> job[sets].idx,
             off |-> ShardSize - bufRest[job[sets].idx], size |-> Size[job[sets].val]]
              \in ObjectType
        BY <3>1, <4>1 DEF ObjectType
      <4>3. PICK obj \in ObjectType :
               job' = [job EXCEPT ![sets].upc = "publish", ![sets].reply = curProxy,
                                  ![sets].obj = obj]
        BY <3>3, <4>2 DEF RecordObject
      <4>4. job'[sets] = [job[sets] EXCEPT !.upc = "publish", !.reply = curProxy,
                                           !.obj = obj]
        BY <1>1, <2>2, <4>3 DEF JobType
      <4>5. job'[sets] \in JobType
        BY <1>1, <2>2, <3>1, <4>4 DEF JobType
      <4> QED BY <1>1, <2>2, <4>3, <4>5
    <3>4. CASE UploadErase(sets) \/ Roll(sets) \/ ReinitBuffers(sets)
      BY <1>1, <2>2, <3>4 DEF UploadErase, Roll, ReinitBuffers, JobType, Placing
    <3>5. CASE NewStripe(sets) \/ StartWrite(sets) \/ UploadPublish(sets)
      BY <1>1, <2>2, <3>1, <3>5 DEF NewStripe, StartWrite, UploadPublish, JobType, Placing
    <3>6. CASE WriteBuffer(sets) \/ ReportCommitAbort(sets)
      BY <1>1, <2>2, <3>6 DEF WriteBuffer, ReportCommitAbort, JobType
    <3> QED BY <2>2, <3>2, <3>3, <3>4, <3>5, <3>6 DEF JobStep
  <2>3. CASE EncodeCopy(sets) \/ (\E j \in Jobs, i \in Buffers : SetToMemcached(j, i))
    BY <1>1, <2>3 DEF EncodeCopy, SetToMemcached
  <2>4. CASE \/ ClientStep(client) \/ \E k \in KeysOf[client] : Get(client, k)
             \/ UNCHANGED vars
    BY <1>1, <2>4, ClientIsQuiet DEF Quiet
  <2> QED BY <2>1, <2>2, <2>3, <2>4, Steps
<1>4. gets' \in 0..MaxGets /\ cobj' \in [Clients -> ObjectType]
      /\ csource' \in [Clients -> AZs \cup Nodes \cup {None}]
  <2>1. CASE UNCHANGED getVars
    BY <1>1, <2>1 DEF CallTypeOK
  <2>2. ASSUME NEW k \in KeysOf[client], Get(client, k)
        PROVE  <1>4
    BY <1>1, <2>2 DEF Get, CallTypeOK
  <2>3. CASE GetValue(client)
    <3>1. commit[ckey[client]] \in ObjectType
      BY <1>1, <2>3 DEF GetValue, Asked, InGet, CoordTypeOK
    <3> QED BY <1>1, <2>3, <3>1 DEF GetValue, CallTypeOK
  <2>4. CASE Route(client)
    <3>1. cobj[client] \in ObjectType /\ cobj[client].idx \in Buffers
      BY <1>1, SizeFacts DEF CallTypeOK, ObjectType, NoObject
    <3>2. cobj[client].stripe \in DOMAIN stripeInfo =>
            stripeInfo[cobj[client].stripe][cobj[client].idx] \in Nodes
      BY <3>1, Placed
    <3>3. curProxy \in AZs
      BY <1>1 DEF CoordTypeOK
    <3> QED BY <1>1, <2>4, <3>2, <3>3 DEF Route, CallTypeOK
  <2>5. CASE JobStep(sets) /\ sets \in Jobs
    BY <2>1, <2>5, JobMoves DEF Moves
  <2>6. CASE \/ EncodeCopy(sets) \/ UNCHANGED vars
             \/ \E j \in Jobs, i \in Buffers : SetToMemcached(j, i)
    BY <2>1, <2>6, SMTT(30) DEF EncodeCopy, SetToMemcached, vars
  <2>7. CASE \/ Connect(client) \/ CheckCommitAbort(client)
             \/ GetObjectFromBuffer(client) \/ GetFromMemcached(client)
             \/ \E k \in KeysOf[client], v \in Vals : Set(client, k, v)
    BY <2>1, <2>7, Zenon DEF Connect, CheckCommitAbort, GetObjectFromBuffer, GetFromMemcached, Set
  <2> QED BY <2>2, <2>3, <2>4, <2>5, <2>6, <2>7, Steps DEF ClientStep
<1> QED BY <1>2, <1>3, <1>4 DEF CallTypeOK, JobType


LEMMA OffsetsTypedNext == (Inv /\ SingleInv /\ Planned)' => OffsetsFit'
BY OffsetsTyped, PTL

EncType == [pc : {"none", "copy", "save"}, stripe : Nat, proxy : AZs \cup {None},
            data : Contents, todo : SUBSET Buffers]
Connection == [key : Keys, val : Vals]

(* What a shard holds after a value is put into it.                        *)
LEMMA BufferTypes ==
  ASSUME ShortReads = FALSE, TypeOK, Inv, SingleInv, Planned, sets \in Jobs,
         JobStep(sets)
  PROVE  proxyBuf' \in [AZs -> Contents]
<1>1. proxyBuf \in [AZs -> Contents]
  BY DEF TypeOK, DataTypeOK
<1>2. CASE WriteBuffer(sets)
  <2> DEFINE obj == job[sets].obj
             v == job[sets].val
  <2>1. /\ Recorded(sets) /\ curProxy \in AZs
        /\ \A a \in AZs \ {curProxy} : proxyBuf'[a] = proxyBuf[a]
        /\ \A i \in Buffers \ {obj.idx} : proxyBuf'[curProxy][i] = proxyBuf[curProxy][i]
        /\ proxyBuf'[curProxy][obj.idx] = [x \in Cells |->
              IF x \in obj.off..(obj.off + obj.size - 1) THEN <<v, x - obj.off + 1>>
              ELSE proxyBuf[curProxy][obj.idx][x]]
    BY <1>2, Puts DEF SingleInv, Shape
  <2>2. /\ v \in Vals /\ obj.off \in Nat /\ obj.size \in Nat /\ obj.idx \in Buffers
        /\ obj.off + obj.size <= ShardSize
    BY <2>1, PlaceOf
  <2> HIDE DEF obj, v
  <2>3. proxyBuf'[curProxy][obj.idx] \in [Cells -> Bytes]
    <3>1. ASSUME NEW x \in Cells, x \in obj.off..(obj.off + obj.size - 1)
          PROVE  <<v, x - obj.off + 1>> \in Bytes
      <4>1. x - obj.off + 1 \in 1..ShardSize
        BY <2>2, <3>1, SizeType DEF Cells
      <4> QED BY <2>2, <4>1 DEF Bytes
    <3>2. \A x \in Cells : proxyBuf[curProxy][obj.idx][x] \in Bytes
      BY <1>1, <2>1, <2>2 DEF Contents
    <3> QED BY <2>1, <3>1, <3>2
  <2>4. \A i \in Buffers : proxyBuf'[curProxy][i] \in [Cells -> Bytes]
    BY <1>1, <2>1, <2>3 DEF Contents
  <2>5. \/ proxyBuf' = proxyBuf
        \/ \E i, shard : proxyBuf' = [proxyBuf EXCEPT ![curProxy][i] = shard]
    <3>1. job[sets].proxy = curProxy
      <4>1. /\ Busy /\ Cur = job[sets] /\ Thread = "accept"
        BY <1>2, TheSet DEF WriteBuffer
      <4> QED BY <4>1 DEF SingleInv, Course
    <3> QED BY <1>2, <3>1 DEF WriteBuffer
  <2>6. \A a \in AZs : proxyBuf'[a] \in Contents
    <3>1. proxyBuf'[curProxy] \in Contents
      <4>1. CASE proxyBuf' = proxyBuf
        BY <1>1, <2>1, <4>1
      <4>2. ASSUME NEW i, NEW shard, proxyBuf' = [proxyBuf EXCEPT ![curProxy][i] = shard]
            PROVE  proxyBuf'[curProxy] \in Contents
        <5>1. proxyBuf'[curProxy] = [proxyBuf[curProxy] EXCEPT ![i] = shard]
          BY <1>1, <2>1, <4>2
        <5>2. proxyBuf[curProxy] \in [Buffers -> [Cells -> Bytes]]
          BY <1>1, <2>1 DEF Contents
        <5> QED BY <2>4, <5>1, <5>2 DEF Contents
      <4> QED BY <2>5, <4>1, <4>2
    <3> QED BY <1>1, <2>1, <3>1
  <2> QED BY <1>1, <2>5, <2>6
<1>3. CASE ReinitBuffers(sets)
  <2>1. EmptyBuffers \in Contents
    BY DEF EmptyBuffers, Contents, Bytes
  <2> QED BY <1>1, <1>3, <2>1 DEF ReinitBuffers
<1>4. CASE ~WriteBuffer(sets) /\ ~ReinitBuffers(sets)
  BY <1>1, <1>4 DEF JobStep, UploadErase, ChooseBuffer, Roll, NewStripe,
     StartWrite, RecordObject, UploadPublish, ReportCommitAbort
<1> QED BY <1>2, <1>3, <1>4

LEMMA DataTypes ==
  ASSUME ShortReads = FALSE, OneClient, TypeOK, Inv, SingleInv, Planned, Rolls, Saved,
         [Next]_vars, Inv', SingleInv', Planned', Saved'
  PROVE  DataTypeOK'
<1>1. /\ DataTypeOK /\ client \in Clients
      /\ enc \in [Jobs -> EncType] /\ up \in [Nodes -> BOOLEAN]
      /\ proxyBuf \in [AZs -> Contents]
      /\ backlog \in [AZs -> Seq(Connection)] /\ DOMAIN disk = Nodes
      /\ curStripe \in Nat /\ curProxy \in AZs
  BY DEF TypeOK, OneClient, DataTypeOK, EncType, Connection, CoordTypeOK
<1>2. bufOffset' \in [AZs -> [Buffers -> 0..ShardSize]] /\ sem' \in [AZs -> Nat]
  <2>1. bufOffset' \in [AZs -> [Buffers -> 0..ShardSize]]
    BY OffsetsTypedNext DEF OffsetsFit
  <2> QED BY <2>1 DEF SingleInv, Shape
<1>3. /\ enc' \in [Jobs -> EncType] /\ proxyBuf' \in [AZs -> Contents]
      /\ up' \in [Nodes -> BOOLEAN] /\ DOMAIN disk' = Nodes
  <2>1. ASSUME JobStep(sets), sets \in Jobs
        PROVE  <1>3
    <3>1. UNCHANGED <<up, disk>>
      BY <2>1, JobMoves DEF Moves
    <3>2. proxyBuf' \in [AZs -> Contents]
      BY <2>1, BufferTypes
    <3>3. CASE Roll(sets)
      <4>1. enc' = [enc EXCEPT ![sets].pc = "copy", ![sets].stripe = curStripe,
                               ![sets].proxy = curProxy]
        BY <3>3 DEF Roll
      <4>2. enc'[sets] = [enc[sets] EXCEPT !.pc = "copy", !.stripe = curStripe,
                                           !.proxy = curProxy]
        BY <1>1, <2>1, <4>1 DEF EncType
      <4>3. enc'[sets] \in EncType
        BY <1>1, <2>1, <4>2 DEF EncType
      <4>4. enc' \in [Jobs -> EncType]
        BY <1>1, <2>1, <4>1, <4>3
      <4> QED BY <1>1, <3>1, <3>2, <4>4
    <3>4. CASE ~Roll(sets)
      <4>1. UNCHANGED enc
        BY <2>1, <3>4, NoRoll DEF NewStripe
      <4> QED BY <1>1, <3>1, <3>2, <4>1
    <3> QED BY <3>3, <3>4
  <2>2. ASSUME EncodeCopy(sets), sets \in Jobs
        PROVE  <1>3
    <3>1. /\ enc' = [enc EXCEPT ![sets].pc = "save", ![sets].data = proxyBuf[enc[sets].proxy],
                                ![sets].todo = Buffers]
          /\ UNCHANGED <<proxyBuf, up, disk>>
      BY <2>2 DEF EncodeCopy, ToSend
    <3>2. /\ enc'[sets] = [enc[sets] EXCEPT !.pc = "save",
                                     !.data = proxyBuf[enc[sets].proxy], !.todo = Buffers]
          /\ proxyBuf[enc[sets].proxy] \in Contents
      BY <1>1, <2>2, <3>1, CopyIsMade DEF EncType, Copying
    <3>3. enc'[sets] \in EncType
      BY <1>1, <2>2, <3>2 DEF EncType
    <3>4. enc' \in [Jobs -> EncType]
      BY <1>1, <2>2, <3>1, <3>3
    <3> QED BY <1>1, <3>1, <3>4
  <2>3. ASSUME NEW j \in Jobs, NEW i \in Buffers, SetToMemcached(j, i)
        PROVE  <1>3
    <3>1. enc' = [enc EXCEPT ![j].todo = @ \ {i}] /\ UNCHANGED <<proxyBuf, up>>
      BY <2>3 DEF SetToMemcached
    <3>2. enc' \in [Jobs -> EncType]
      BY <1>1, <3>1 DEF EncType
    <3>3. DOMAIN disk' = Nodes
      BY <1>1, <2>3 DEF SetToMemcached
    <3> QED BY <1>1, <3>1, <3>2, <3>3
  <2>4. CASE \E k \in KeysOf[client], v \in Vals : Set(client, k, v)
    BY <1>1, <2>4 DEF Set
  <2>5. CASE \/ ClientStep(client) \/ \E k \in KeysOf[client] : Get(client, k)
             \/ UNCHANGED vars
    BY <1>1, <2>5, ClientIsQuiet DEF Quiet
  <2> QED BY <2>1, <2>2, <2>3, <2>4, <2>5, Steps
<1>4. backlog' \in [AZs -> Seq(Connection)]
  <2>1. CASE Connect(client)
    <3>1. Busy /\ cjob[client] = sets /\ Cur.key \in Keys /\ Cur.val \in Vals
      BY <2>1 DEF Connect, Busy, SingleInv, OneAtATime
    <3>2. [key |-> Cur.key, val |-> Cur.val] \in Connection
      BY <3>1 DEF Connection
    <3>3. backlog' = [backlog EXCEPT ![Cur.reply] =
                        Append(@, [key |-> Cur.key, val |-> Cur.val])]
      BY <2>1, <3>1 DEF Connect, Cur
    <3>4. \A a \in AZs : Append(backlog[a], [key |-> Cur.key, val |-> Cur.val])
                           \in Seq(Connection)
      BY <1>1, <3>2
    <3> HIDE DEF Connection
    <3> QED BY <1>1, <3>3, <3>4
  <2>2. CASE WriteBuffer(sets)
    <3>1. /\ backlog' = [backlog EXCEPT ![job[sets].proxy] = Tail(@)]
          /\ backlog[job[sets].proxy] # <<>>
      BY <2>2 DEF WriteBuffer
    <3>2. \A a \in AZs : backlog[a] # <<>> => Tail(backlog[a]) \in Seq(Connection)
      BY <1>1
    <3> QED BY <1>1, <3>1, <3>2
  <2>3. CASE ~Connect(client) /\ ~WriteBuffer(sets)
    <3>1. UNCHANGED backlog
      <4>1. CASE JobStep(sets)
        BY <2>3, <4>1 DEF JobStep, UploadErase, ChooseBuffer, Roll, ReinitBuffers,
           NewStripe, StartWrite, RecordObject, UploadPublish, ReportCommitAbort
      <4>2. CASE ClientStep(client)
        BY <2>3, <4>2 DEF ClientStep, CheckCommitAbort, GetValue, Route,
           GetObjectFromBuffer, GetFromMemcached
      <4> QED BY <4>1, <4>2, Steps DEF EncodeCopy, SetToMemcached, Set, Get, vars
    <3> QED BY <1>1, <3>1
  <2> QED BY <2>1, <2>2, <2>3
<1>5. \A n \in Nodes : \A b \in disk'[n] :
        b.stripe \in Nat /\ b.idx \in Buffers /\ b.data \in [Cells -> Bytes]
  <2> SUFFICES ASSUME NEW n \in Nodes, NEW b \in disk'[n]
               PROVE  b.stripe \in Nat /\ b.idx \in Buffers /\ b.data \in [Cells -> Bytes]
    OBVIOUS
  <2>1. PICK i \in Jobs : /\ b.stripe = enc'[i].stripe /\ b.idx \in Buffers
                          /\ b.data = enc'[i].data[b.idx]
    BY DEF Saved
  <2>2. enc'[i] \in EncType
    BY <1>3
  <2> QED BY <2>1, <2>2 DEF EncType, Contents
<1> QED BY <1>2, <1>3, <1>4, <1>5 DEF DataTypeOK, EncType, Connection


-----------------------------------------------------------------------------
(* The invariant of the bytes                                              *)

Setting == OneClient /\ SemInit = 0 /\ ShortReads = FALSE

LEMMA InitData == Setting /\ Init => DataInv
<1> SUFFICES ASSUME Setting, Init PROVE DataInv
  OBVIOUS
<1>1. TypeOK /\ Inv /\ SingleInv /\ client \in Clients /\ cpc[client] = "idle"
  BY InitTypes, InitInv, InitSingle DEF Setting, OneClient, Init
<1>2. \A j \in Jobs : job[j].upc = "unused" /\ job[j].tpc = "none"
                      /\ enc[j].pc = "none" /\ enc[j].todo = {}
  BY DEF Init, Unused, NoEncoder
<1>3. ~Busy /\ At = "idle" /\ sets = 0 /\ Thread = "done"
  BY <1>1 DEF Busy, At, Thread, Init
<1>4. Asked /\ Planned /\ Rolls
  BY <1>1, <1>2, <1>3 DEF Asked, InGet, Planned, Recorded, Rolls, Rolling
<1>5. Saved /\ Whereabouts /\ Emptied
  BY <1>2, <1>3 DEF Saved, Whereabouts, Written, Emptied, Init
<1>6. Entries
  BY <1>1, <1>3 DEF Entries, Entry, Init
<1> QED BY <1>1, <1>4, <1>5, <1>6 DEF DataInv

LEMMA DataStep == Setting /\ DataInv /\ [Next]_vars => DataInv'
<1> SUFFICES ASSUME Setting, DataInv, [Next]_vars PROVE DataInv'
  OBVIOUS
<1> USE DEF Setting, DataInv
<1>1. Inv' /\ SingleInv'
  BY InvSteps, SingleStep
<1>2. Planned' /\ Rolls' /\ Saved'
  BY PlannedStep, RollsStep, SavedStep
<1>3. Whereabouts' /\ Emptied'
  BY WhereStep
<1>4. Entries' /\ Asked'
  BY EntriesStep, AskedStep
<1>5. ClientTypeOK' /\ CoordTypeOK' /\ CallTypeOK' /\ DataTypeOK'
  BY <1>1, <1>2, ClientTypes, CoordTypes, CallTypes, DataTypes
<1>6. TypeOK'
  BY <1>5 DEF TypeOK
<1> QED BY <1>1, <1>2, <1>3, <1>4, <1>6

(* With one client every variable of the small objects keeps its type: no  *)
(* buffer of a proxy is ever said to hold more than it has room for.       *)
THEOREM TypeCorrect ==
  ASSUME Setting
  PROVE  Spec => []TypeOK
<1>1. DataInv => TypeOK
  BY DEF DataInv
<1> QED BY <1>1, InitData, DataStep, PTL DEF Spec

-----------------------------------------------------------------------------
(* Copies                                                                  *)

LEMMA ImageIsRead ==
  ASSUME NEW v \in Vals
  PROVE  ValueOf(Image(v)) = v
<1>1. ASSUME NEW w \in Vals, Image(v) = Image(w)
      PROVE  w = v
  <2>1. 1 \in 1..Size[v] /\ 1 \in 1..Size[w]
    BY SizeAssumption
  <2>2. Image(v)[1] = <<v, 1>> /\ Image(w)[1] = <<w, 1>>
    BY <2>1 DEF Image
  <2> QED BY <1>1, <2>2
<1>2. \E w \in Vals : Image(v) = Image(w)
  OBVIOUS
<1> HIDE DEF Image
<1> QED BY <1>1, <1>2 DEF ValueOf

(* A value that is where its object says is what a read of it yields.      *)
LEMMA FitIsRead ==
  ASSUME NEW v \in Vals, NEW obj, NEW shard, Fits(shard, obj, v),
         obj.size = Size[v], obj.off \in Nat, obj.off + obj.size <= ShardSize
  PROVE  ReadAt(shard, obj) = v
<1>1. \A i \in 1..Size[v] : /\ obj.off + i - 1 \in Cells
                            /\ shard[obj.off + i - 1] = <<v, i>>
  BY SizeType DEF Fits, Cells
<1>2. [i \in 1..obj.size |-> IF obj.off + i - 1 \in Cells
                             THEN shard[obj.off + i - 1] ELSE JunkByte] = Image(v)
  BY <1>1 DEF Image
<1> QED BY <1>2, ImageIsRead DEF ReadAt

(* An emptied buffer holds no value.                                       *)
LEMMA EmptyIsGarbage ==
  ASSUME NEW obj, NEW i \in Buffers, obj.off \in Nat, obj.size \in Nat
  PROVE  ReadAt(EmptyBuffers[i], obj) = Garbage
<1> DEFINE bytes == [x \in 1..obj.size |-> IF obj.off + x - 1 \in Cells
                       THEN EmptyBuffers[i][obj.off + x - 1] ELSE JunkByte]
<1>1. ASSUME NEW v \in Vals
      PROVE  bytes # Image(v)
  <2>1. 1 \in 1..Size[v]
    BY SizeAssumption
  <2>2. Image(v)[1] = <<v, 1>> /\ DOMAIN Image(v) = 1..Size[v]
    BY <2>1 DEF Image
  <2>3. 1 \in 1..obj.size => bytes[1] \in {<<None, 0>>, <<Garbage, 0>>}
    BY DEF EmptyBuffers, ZeroByte, JunkByte
  <2>4. DOMAIN bytes = 1..obj.size
    OBVIOUS
  <2>5. \A x : <<v, 1>> # <<x, 0>>
    OBVIOUS
  <2> HIDE DEF bytes
  <2>6. CASE 1 \in 1..obj.size
    BY <2>2, <2>3, <2>5, <2>6
  <2>7. CASE 1 \notin 1..obj.size
    BY <2>1, <2>2, <2>4, <2>7
  <2> QED BY <2>6, <2>7
<1>2. ReadAt(EmptyBuffers[i], obj) = ValueOf(bytes)
  BY DEF ReadAt
<1> HIDE DEF bytes
<1> QED BY <1>1, <1>2 DEF ValueOf

(* Every copy there is of the block of a written value holds the value,    *)
(* but for the buffers that have been emptied and not yet begun anew.      *)
LEMMA CopiesHold ==
  ASSUME DataInv, NEW j \in Jobs, Written(j), NEW shard \in Copies(job[j].obj)
  PROVE  \/ ReadAt(shard, job[j].obj) = job[j].val
         \/ At = "renew" /\ ReadAt(shard, job[j].obj) = Garbage
<1> DEFINE obj == job[j].obj
           v == job[j].val
<1> USE DEF DataInv
<1>1. Recorded(j)
  BY WrittenIsRecorded
<1>2. /\ v \in Vals /\ obj.off \in Nat /\ obj.size \in Nat /\ obj.idx \in Buffers
      /\ obj.size = Size[v] /\ obj.off + obj.size <= ShardSize
  BY <1>1, PlaceOf
<1>3. /\ obj.stripe = curStripe /\ At # "renew" =>
           Fits(proxyBuf[curProxy][obj.idx], obj, v)
      /\ \A i \in Jobs : enc[i].pc = "save" /\ enc[i].stripe = obj.stripe =>
           Fits(enc[i].data[obj.idx], obj, v)
  BY DEF Whereabouts
<1>4. ASSUME Fits(shard, obj, v)
      PROVE  ReadAt(shard, obj) = v
  BY <1>2, <1>4, FitIsRead
<1>5. CASE shard \in {proxyBuf[curProxy][obj.idx] : s \in {obj.stripe} \cap {curStripe}}
  <2>1. CASE At = "renew"
    BY <1>2, <1>5, <2>1, EmptyIsGarbage DEF Emptied
  <2>2. CASE At # "renew"
    BY <1>3, <1>4, <1>5, <2>2
  <2> QED BY <2>1, <2>2
<1>6. ASSUME NEW i \in Jobs, enc[i].pc = "copy", enc[i].stripe = obj.stripe,
             shard = proxyBuf[enc[i].proxy][obj.idx]
      PROVE  ReadAt(shard, obj) = v
  <2>1. At = "wait" /\ i = sets /\ enc[i].proxy = curProxy
    BY <1>6 DEF SingleInv, Posts
  <2>2. enc[i].stripe = curStripe
    BY <2>1 DEF Rolls, Rolling
  <2> QED BY <1>3, <1>4, <1>6, <2>1, <2>2
<1>7. ASSUME NEW i \in Jobs, obj.idx \in enc[i].todo, enc[i].stripe = obj.stripe,
             shard = enc[i].data[obj.idx]
      PROVE  ReadAt(shard, obj) = v
  <2>1. enc[i].pc = "save"
    BY <1>7 DEF Rolls
  <2> QED BY <1>3, <1>4, <1>7, <2>1
<1>8. ASSUME obj.stripe \in DOMAIN stripeInfo,
             NEW b \in Held(stripeInfo[obj.stripe][obj.idx], obj), shard = b.data
      PROVE  ReadAt(shard, obj) = v
  <2>1. stripeInfo[obj.stripe][obj.idx] \in Nodes
    BY <1>2, <1>8, Placed
  <2>2. PICK i \in Jobs : /\ enc[i].pc = "save" /\ b.stripe = enc[i].stripe
                          /\ b.data = enc[i].data[b.idx]
    BY <1>8, <2>1 DEF Saved, Held
  <2>3. b.stripe = obj.stripe /\ b.idx = obj.idx
    BY <1>8 DEF Held
  <2> QED BY <1>3, <1>4, <1>8, <2>2, <2>3
<1> HIDE DEF obj, v
<1>9. shard \in Copies(obj)
  BY DEF obj
<1>10. \/ shard \in {proxyBuf[curProxy][obj.idx] : s \in {obj.stripe} \cap {curStripe}}
       \/ \E i \in Jobs : /\ enc[i].pc = "copy" /\ enc[i].stripe = obj.stripe
                          /\ shard = proxyBuf[enc[i].proxy][obj.idx]
       \/ \E i \in Jobs : /\ obj.idx \in enc[i].todo /\ enc[i].stripe = obj.stripe
                          /\ shard = enc[i].data[obj.idx]
       \/ shard \in UNION {{b.data : b \in Held(stripeInfo[s][obj.idx], obj)} :
                             s \in {obj.stripe} \cap DOMAIN stripeInfo}
  BY <1>9 DEF Copies
<1>11. ASSUME shard \in UNION {{b.data : b \in Held(stripeInfo[s][obj.idx], obj)} :
                                 s \in {obj.stripe} \cap DOMAIN stripeInfo}
       PROVE  ReadAt(shard, obj) = v
  BY <1>8, <1>11
<1> QED BY <1>5, <1>6, <1>7, <1>10, <1>11 DEF obj, v

(* And some copy does, or its datanode is down.                            *)
LEMMA CopyThere ==
  ASSUME DataInv, NEW j \in Jobs, Written(j)
  PROVE  LET obj == job[j].obj IN
         \/ \E shard \in Copies(obj) : ReadAt(shard, obj) = job[j].val
         \/ obj.stripe \in DOMAIN stripeInfo /\ ~ up[stripeInfo[obj.stripe][obj.idx]]
<1> DEFINE obj == job[j].obj
           v == job[j].val
<1> USE DEF DataInv
<1>1. Recorded(j)
  BY WrittenIsRecorded
<1>2. /\ v \in Vals /\ obj.off \in Nat /\ obj.size \in Nat /\ obj.idx \in Buffers
      /\ obj.size = Size[v] /\ obj.off + obj.size <= ShardSize
  BY <1>1, PlaceOf
<1>3. \A shard : Fits(shard, obj, v) => ReadAt(shard, obj) = v
  BY <1>2, FitIsRead
<1>4. CASE obj.stripe = curStripe /\ At # "renew"
  <2>1. Fits(proxyBuf[curProxy][obj.idx], obj, v)
    BY <1>4 DEF Whereabouts
  <2>2. proxyBuf[curProxy][obj.idx] \in Copies(obj)
    BY <1>4 DEF Copies
  <2> QED BY <1>3, <2>1, <2>2
<1>5. CASE ~(obj.stripe = curStripe /\ At # "renew")
  <2>1. PICK i \in Jobs : enc[i].pc = "save" /\ enc[i].stripe = obj.stripe
    BY <1>5 DEF Whereabouts
  <2>2. Fits(enc[i].data[obj.idx], obj, v)
    BY <2>1 DEF Whereabouts
  <2>3. CASE obj.idx \in enc[i].todo
    <3>1. enc[i].data[obj.idx] \in Copies(obj)
      BY <2>1, <2>3 DEF Copies
    <3>2. ReadAt(enc[i].data[obj.idx], obj) = v
      BY <1>3, <2>2, Zenon
    <3>3. \E shard \in Copies(obj) : ReadAt(shard, obj) = v
      <4> HIDE DEF DataInv
      <4> WITNESS enc[i].data[obj.idx] \in Copies(obj)
      <4> QED BY <3>2, Zenon
    <3> HIDE DEF DataInv
    <3> QED BY <3>3, Zenon
  <2>4. CASE obj.idx \notin enc[i].todo
    <3> DEFINE n == stripeInfo[obj.stripe][obj.idx]
               b == [stripe |-> enc[i].stripe, idx |-> obj.idx,
                     data |-> enc[i].data[obj.idx]]
    <3>1. obj.stripe \in DOMAIN stripeInfo
      BY <2>1 DEF Rolls
    <3>2. CASE up[n]
      <4>1. b \in disk[n]
        <5>1. obj.idx \in Buffers \ enc[i].todo /\ n = stripeInfo[enc[i].stripe][obj.idx]
          BY <1>2, <2>1, <2>4
        <5> QED BY <2>1, <3>2, <5>1 DEF Saved
      <4>2. b \in Held(n, obj) /\ b.data = enc[i].data[obj.idx]
        <5>1. /\ b.stripe = obj.stripe /\ b.idx = obj.idx
              /\ b.data = enc[i].data[obj.idx]
          BY <2>1, SMTT(30)
        <5> HIDE DEF b, n
        <5> QED BY <4>1, <5>1 DEF Held
      <4>3. b.data \in {y.data : y \in Held(stripeInfo[obj.stripe][obj.idx], obj)}
        BY <4>2, Zenon
      <4>4. b.data \in Copies(obj)
        <5> HIDE DEF b, n
        <5> QED BY <3>1, <4>3 DEF Copies
      <4> QED BY <1>3, <2>2, <4>2, <4>4
    <3> QED BY <3>1, <3>2
  <2> QED BY <2>3, <2>4
<1> QED BY <1>4, <1>5

LEMMA LatestIsLast ==
  ASSUME NEW j \in Jobs, Latest(j), job[j].upc \notin {"unused", "erase"}
  PROVE  LastVal(job[j].key) = job[j].val
<1> DEFINE mine == {i \in Jobs : job[i].key = job[j].key
                                 /\ job[i].upc \notin {"unused", "erase"}}
<1>1. j \in mine /\ \A i \in mine : i <= j
  BY DEF Latest
<1>2. mine \subseteq Int
  BY NumberOfSets
<1>3. \A x \in mine : (\A i \in mine : i <= x) => x = j
  BY <1>1, <1>2
<1>4. (CHOOSE x \in mine : \A i \in mine : i <= x) = j
  <2> HIDE DEF mine
  <2> QED BY <1>1, <1>3
<1> QED BY <1>4 DEF LastVal

LEMMA DataIsKept == DataInv => NoByteLost
<1> SUFFICES ASSUME DataInv, NEW k \in Committed
             PROVE  LET obj == commit[k] IN
                    \/ \E shard \in Copies(obj) : ReadAt(shard, obj) = LastVal(k)
                    \/ /\ obj.stripe \in DOMAIN stripeInfo
                       /\ ~ up[stripeInfo[obj.stripe][obj.idx]]
  BY DEF NoByteLost
<1>1. PICK j \in Jobs : /\ Recorded(j) /\ job[j].tpc = "done" /\ Latest(j)
                        /\ job[j].key = k /\ commit[k] = job[j].obj
  BY DEF Committed, DataInv, Entries, Entry
<1>2. LastVal(k) = job[j].val
  BY <1>1, LatestIsLast DEF Recorded
<1>3. Written(j)
  BY <1>1 DEF Written
<1> QED BY <1>1, <1>2, <1>3, CopyThere

(* However sets, rolls of the buffers and the threads that save the old    *)
(* ones interleave, with one client a committed value is whole in the      *)
(* current buffer, in the copy of a thread or on its datanode, until the   *)
(* datanode goes down.                                                     *)
THEOREM NothingLost ==
  ASSUME Setting
  PROVE  Spec => []NoByteLost
BY InitData, DataStep, DataIsKept, PTL DEF Spec


-----------------------------------------------------------------------------
(* Gets, also while the stripes they read are being saved                  *)

(* A committed key has the object of a set whose value has been written.   *)
LEMMA CommittedJob ==
  ASSUME DataInv, NEW k \in Keys, commit[k] # Absent
  PROVE  \E j \in Jobs :
           /\ Written(j) /\ job[j].key = k /\ commit[k] = job[j].obj
           /\ job[j].val = Current(k) /\ job[j].val \in Vals
           /\ commit[k] # NoObject /\ commit[k].idx \in Buffers
           /\ commit[k].stripe \in Nat /\ commit[k].stripe <= curStripe
<1>1. PICK j \in Jobs : /\ Recorded(j) /\ job[j].tpc = "done" /\ job[j].key = k
                        /\ job[j].val = Current(k) /\ commit[k] = job[j].obj
  BY DEF DataInv, Entries, Entry
<1>2. /\ job[j].val \in Vals /\ job[j].obj.size > 0 /\ job[j].obj.idx \in Buffers
      /\ job[j].obj.stripe \in Nat /\ job[j].obj.stripe <= curStripe
  BY <1>1, PlaceOf DEF DataInv
<1>3. job[j].obj # NoObject
  BY <1>2 DEF NoObject
<1> QED BY <1>1, <1>2, <1>3 DEF Written

LEMMA BufferedKept ==
  ASSUME Buffered, UNCHANGED <<commit, curStripe, keyInBuffer>>,
         At' \in {"record"} \cup HasObject =>
           At \in {"record"} \cup HasObject /\ Cur'.key = Cur.key
  PROVE  Buffered'
BY DEF Buffered

LEMMA BufferedJob ==
  ASSUME DataInv, Buffered, sets \in Jobs, JobStep(sets)
  PROVE  Buffered'
<1>1. /\ Moves /\ DOMAIN job = Jobs /\ HasFields(job[sets])
      /\ DOMAIN commit = Keys /\ CountShape
  BY JobMoves DEF DataInv, SingleInv, Shape, Inv
<1>2. /\ At = job[sets].upc /\ At' = job'[sets].upc /\ Cur'.key = Cur.key
      /\ Cur = job[sets] /\ Thread = job[sets].tpc /\ Busy
  BY <1>1 DEF Moves
<1>3. CASE UploadErase(sets)
  <2>1. /\ commit' = [commit EXCEPT ![Cur.key] = Absent]
        /\ UNCHANGED <<curStripe, keyInBuffer>>
        /\ job' = [job EXCEPT ![sets].upc = "choose"]
    BY <1>2, <1>3 DEF UploadErase, Forget
  <2>2. At' = "choose"
    BY <1>1, <1>2, <2>1 DEF HasFields
  <2> QED BY <1>1, <2>1, <2>2 DEF Buffered, HasObject
<1>4. CASE ReportCommitAbort(sets)
  <2>1. /\ \A k \in Keys \ {Cur.key} : commit'[k] = commit[k]
        /\ UNCHANGED <<curStripe, keyInBuffer>> /\ Thread = "report"
        /\ job' = [job EXCEPT ![sets].tpc = "done"]
    BY <1>1, <1>2, <1>4 DEF ReportCommitAbort
  <2>2. At' = At
    BY <1>1, <1>2, <2>1 DEF HasFields
  <2>3. At = "replied"
    BY <1>2, <2>1 DEF DataInv, SingleInv, Course, Busy
  <2>4. Cur.key \in keyInBuffer
    BY <2>3 DEF Buffered, HasObject
  <2> QED BY <1>2, <2>1, <2>2, <2>4 DEF Buffered
<1>5. CASE NewStripe(sets)
  <2>1. /\ curStripe' = nextStripe /\ UNCHANGED commit
        /\ job' = [job EXCEPT ![sets].upc = "write"]
    BY <1>5 DEF NewStripe
  <2>2. At' = "write"
    BY <1>1, <1>2, <2>1 DEF HasFields
  <2>3. \A k \in Keys : commit[k] # Absent => commit[k].stripe # nextStripe
    BY <1>1, CommittedJob DEF CountShape
  <2> QED BY <2>1, <2>2, <2>3 DEF Buffered, HasObject
<1>6. CASE StartWrite(sets)
  <2>1. keyInBuffer' = keyInBuffer \cup {Cur.key} /\ UNCHANGED <<commit, curStripe>>
    BY <1>2, <1>6 DEF StartWrite
  <2> QED BY <1>2, <2>1 DEF Buffered
<1>7. CASE ChooseBuffer(sets) \/ Roll(sets) \/ ReinitBuffers(sets)
  <2>1. /\ At' \notin {"record"} \cup HasObject
    BY <1>1, <1>2, <1>7 DEF ChooseBuffer, Roll, ReinitBuffers, HasFields, HasObject
  <2>2. UNCHANGED <<commit, curStripe, keyInBuffer>>
    BY <1>7 DEF ChooseBuffer, Roll, ReinitBuffers
  <2> QED BY <2>1, <2>2, BufferedKept
<1>8. CASE RecordObject(sets) \/ UploadPublish(sets)
  <2>1. At \in {"record"} \cup HasObject
    BY <1>2, <1>8 DEF RecordObject, UploadPublish, HasObject
  <2>2. UNCHANGED <<commit, curStripe, keyInBuffer>>
    BY <1>8 DEF RecordObject, UploadPublish
  <2> QED BY <1>2, <2>1, <2>2, BufferedKept
<1>9. CASE WriteBuffer(sets)
  <2>1. job' = [job EXCEPT ![sets].tpc = "report"]
        /\ UNCHANGED <<commit, curStripe, keyInBuffer>>
    BY <1>9 DEF WriteBuffer
  <2>2. At' = At
    BY <1>1, <1>2, <2>1 DEF HasFields
  <2> QED BY <1>2, <2>1, <2>2, BufferedKept
<1> QED BY <1>3, <1>4, <1>5, <1>6, <1>7, <1>8, <1>9 DEF JobStep

LEMMA BufferedStep ==
  ASSUME OneClient, DataInv, Buffered, [Next]_vars
  PROVE  Buffered'
<1> USE DEF DataInv
<1>1. ASSUME NEW k \in KeysOf[client], NEW v \in Vals, Set(client, k, v)
      PROVE  Buffered'
  <2>1. Begins(k, v)
    BY <1>1, SetBegins
  <2> QED BY <2>1, BufferedKept DEF Begins, HasObject
<1>2. ASSUME JobStep(sets), sets \in Jobs
      PROVE  Buffered'
  BY <1>2, BufferedJob
<1>3. ASSUME EncodeCopy(sets), sets \in Jobs
      PROVE  Buffered'
  BY <1>3, CopyIsMade, BufferedKept DEF Copying
<1>4. ASSUME NEW j \in Jobs, NEW x \in Buffers, SetToMemcached(j, x)
      PROVE  Buffered'
  <2>1. Saving(j, x)
    BY <1>4, BlockIsSent
  <2> QED BY <2>1, BufferedKept DEF Saving
<1>5. CASE \/ ClientStep(client) \/ \E k \in KeysOf[client] : Get(client, k)
           \/ UNCHANGED vars
  <2>1. Quiet
    BY <1>5, ClientIsQuiet DEF TypeOK, DataTypeOK
  <2> QED BY <2>1, BufferedKept DEF Quiet, HasObject, Cur
<1> QED BY <1>1, <1>2, <1>3, <1>4, <1>5, Steps

(* While a get is under way nothing else is but the saving of stripes.     *)
LEMMA AloneInGet ==
  ASSUME OneClient, DataInv, Reading, cpc[client] \in InGet, [Next]_vars
  PROVE  \/ UNCHANGED vars
         \/ GetValue(client) \/ Route(client)
         \/ GetObjectFromBuffer(client) \/ GetFromMemcached(client)
         \/ \E j \in Jobs, i \in Buffers : SetToMemcached(j, i)
<1>1. ~Busy /\ At = "idle"
  BY DEF Busy, At, InGet
<1>2. ~EncodeCopy(sets) \/ sets \notin Jobs
  BY <1>1 DEF EncodeCopy, DataInv, SingleInv, Posts
<1>3. ~JobStep(sets) \/ sets \notin Jobs
  BY <1>1, JobMoves DEF Moves, DataInv
<1>4. \A k, v : ~Set(client, k, v) /\ ~Get(client, k)
  BY DEF Set, Get, InGet
<1>5. ~Connect(client) /\ ~CheckCommitAbort(client)
  BY DEF Connect, CheckCommitAbort, InGet
<1>6. \/ \E k \in KeysOf[client] :
           Get(client, k) \/ \E v \in Vals : Set(client, k, v)
      \/ ClientStep(client)
      \/ JobStep(sets) /\ sets \in Jobs
      \/ EncodeCopy(sets) /\ sets \in Jobs
      \/ \E j \in Jobs, i \in Buffers : SetToMemcached(j, i)
      \/ UNCHANGED vars
  BY Steps DEF DataInv
<1>7. ClientStep(client) =>
        \/ GetValue(client) \/ Route(client)
        \/ GetObjectFromBuffer(client) \/ GetFromMemcached(client)
  BY <1>5 DEF ClientStep
<1> QED BY <1>2, <1>3, <1>4, <1>6, <1>7

(* The object that is read is there; where a copy is it is read whole, and *)
(* the datanode of a stripe that has been rolled has its block unless it is*)
(* down or a thread has yet to send the block.                             *)
LEMMA GetReads ==
  ASSUME DataInv, Reading, cpc[client] \in InGet,
         commit[ckey[client]] # Absent
  PROVE  LET obj == commit[ckey[client]]
             v == keyValues[client][ckey[client]]
         IN
         /\ obj # NoObject
         /\ obj.stripe = curStripe => ReadAt(proxyBuf[curProxy][obj.idx], obj) = v
         /\ obj.stripe # curStripe =>
              /\ obj.stripe \in DOMAIN stripeInfo
              /\ LET n == stripeInfo[obj.stripe][obj.idx] IN
                 /\ n \in Nodes
                 /\ up[n] /\ Held(n, obj) = {} => \E j \in Jobs : Unsent(j, obj)
                 /\ \A b \in Held(n, obj) : ReadAt(b.data, obj) = v
<1> DEFINE k == ckey[client]
           obj == commit[k]
           v == keyValues[client][k]
           n == stripeInfo[obj.stripe][obj.idx]
<1>1. k \in Keys /\ ~Busy /\ At = "idle"
  BY DEF Reading, Busy, InGet, At
<1>2. Current(k) = v
  BY <1>1 DEF Current, Resetting
<1>3. PICK j \in Jobs : /\ Written(j) /\ obj = job[j].obj
                        /\ job[j].val = v /\ obj # NoObject /\ obj.idx \in Buffers
  BY <1>1, <1>2, CommittedJob
<1>4. \A shard \in Copies(obj) : ReadAt(shard, obj) = v
  BY <1>1, <1>3, CopiesHold
<1>5. ASSUME obj.stripe = curStripe
      PROVE  ReadAt(proxyBuf[curProxy][obj.idx], obj) = v
  <2>1. proxyBuf[curProxy][obj.idx] \in Copies(obj)
    BY <1>5 DEF Copies
  <2> QED BY <1>4, <2>1
<1>6. ASSUME obj.stripe # curStripe
      PROVE  /\ obj.stripe \in DOMAIN stripeInfo
             /\ n \in Nodes
             /\ up[n] /\ Held(n, obj) = {} => \E i \in Jobs : Unsent(i, obj)
             /\ \A b \in Held(n, obj) : ReadAt(b.data, obj) = v
  <2>1. PICK i \in Jobs : enc[i].pc = "save" /\ enc[i].stripe = obj.stripe
    BY <1>3, <1>6 DEF DataInv, Whereabouts
  <2>2. obj.stripe \in DOMAIN stripeInfo
    BY <2>1 DEF DataInv, Rolls
  <2>3. n \in Nodes
    BY <1>3, <2>2, Placed DEF DataInv
  <2>4. ASSUME up[n], obj.idx \notin enc[i].todo
        PROVE  Held(n, obj) # {}
    <3> DEFINE b == [stripe |-> enc[i].stripe, idx |-> obj.idx,
                     data |-> enc[i].data[obj.idx]]
    <3>1. n = stripeInfo[enc[i].stripe][obj.idx]
      BY <2>1
    <3>2. obj.idx \in Buffers \ enc[i].todo
      BY <1>3, <2>4
    <3>3. b \in disk[n]
      BY <2>1, <2>4, <3>1, <3>2 DEF DataInv, Saved
    <3>4. b.stripe = obj.stripe /\ b.idx = obj.idx
      BY <2>1
    <3> HIDE DEF b, n
    <3> QED BY <3>3, <3>4 DEF Held
  <2>5. up[n] /\ Held(n, obj) = {} => Unsent(i, obj)
    BY <2>1, <2>4 DEF Unsent
  <2>6. ASSUME NEW b \in Held(n, obj)
        PROVE  ReadAt(b.data, obj) = v
    <3>1. b.data \in {y.data : y \in Held(stripeInfo[obj.stripe][obj.idx], obj)}
      BY <2>6
    <3>2. b.data \in Copies(obj)
      <4> HIDE DEF n, obj
      <4> QED BY <2>2, <3>1 DEF Copies
    <3> QED BY <1>4, <3>2
  <2> HIDE DEF n, obj, v
  <2> QED BY <2>2, <2>3, <2>5, <2>6
<1> QED BY <1>3, <1>5, <1>6


(* A key that is being got is committed.                                   *)
LEMMA GetFinds ==
  ASSUME DataInv, Reading, cpc[client] \in InGet
  PROVE  commit[ckey[client]] # Absent /\ ckey[client] \in Keys
BY DEF Reading, Busy, InGet, Resetting, DataInv, Entries, Entry

(* Where getValue sends the client, and what is there.                     *)
LEMMA GetGoes ==
  ASSUME OneClient, DataInv, Buffered, Reading,
         GetValue(client) \/ Route(client)
  PROVE  /\ coordUp' /\ UNCHANGED <<ckey, cgot, keyValues, commit, curStripe, curProxy,
                                    stripeInfo, enc, up>>
         /\ cpc[client] \in {"lookup", "route"}
         /\ cobj'[client] = commit[ckey[client]]
         /\ \/ cpc'[client] = "route"
            \/ /\ cpc'[client] = "buffer" /\ csource'[client] = curProxy
               /\ cobj'[client].stripe = curStripe
            \/ /\ cpc'[client] = "node"
               /\ cobj'[client].stripe \in DOMAIN stripeInfo \ {curStripe}
               /\ csource'[client] = stripeInfo[cobj'[client].stripe][cobj'[client].idx]
<1>1. /\ client \in Clients /\ DOMAIN cpc = Clients
      /\ DOMAIN cobj = Clients /\ DOMAIN csource = Clients
  BY DEF OneClient, DataInv, TypeOK, ClientTypeOK, CallTypeOK
<1>2. /\ UNCHANGED <<ckey, cgot, keyValues, commit, curStripe, curProxy, stripeInfo, enc, up>>
      /\ cpc[client] \in {"lookup", "route"}
  BY DEF GetValue, Route
<1>3. /\ cpc[client] \in InGet /\ ckey[client] \in Keys
      /\ commit[ckey[client]] # Absent
  BY <1>2, GetFinds DEF InGet
<1>4. /\ commit[ckey[client]] # NoObject
      /\ commit[ckey[client]].stripe # curStripe =>
           commit[ckey[client]].stripe \in DOMAIN stripeInfo
  BY <1>3, GetReads
<1>5. ckey[client] \in keyInBuffer <=> commit[ckey[client]].stripe = curStripe
  BY <1>3, <1>4 DEF Buffered, DataInv, SingleInv, Tables
<1>6. CASE GetValue(client)
  BY <1>1, <1>2, <1>4, <1>6 DEF GetValue
<1>7. CASE Route(client)
  <2>1. cobj[client] = commit[ckey[client]] /\ cobj' = cobj
    BY <1>7 DEF Route, Reading, InGet
  <2>2. CASE ckey[client] \in keyInBuffer
    BY <1>1, <1>2, <1>5, <1>7, <2>1, <2>2 DEF Route
  <2>3. CASE ckey[client] \notin keyInBuffer
    BY <1>1, <1>2, <1>4, <1>5, <1>7, <2>1, <2>3 DEF Route
  <2> QED BY <2>2, <2>3
<1> QED BY <1>6, <1>7

(* What the client gets, from the buffer or from a datanode: its value, or *)
(* garbage from a datanode that is down or, because a thread has yet to    *)
(* send it the block, goes down now.                                       *)
Brings ==
  LET k == ckey[client]
      n == csource[client]
  IN
  \/ cgot' = [cgot EXCEPT ![client] = keyValues[client][k]] /\ up' = up
  \/ /\ cgot' = [cgot EXCEPT ![client] = Garbage]
     /\ n \in Nodes /\ ~ up'[n] /\ BlockDown(k)'
     /\ \A m \in Nodes : up[m] /\ ~ up'[m] =>
          /\ m = n /\ cpc[client] = "node"
          /\ \E j \in Jobs : Unsent(j, cobj[client])

LEMMA GetBrings ==
  ASSUME OneClient, DataInv, Reading,
         GetObjectFromBuffer(client) \/ GetFromMemcached(client)
  PROVE  /\ UNCHANGED <<ckey, keyValues, commit, coordUp>>
         /\ cpc[client] \in InGet /\ cpc'[client] = "idle"
         /\ Brings
<1> DEFINE obj == commit[ckey[client]]
           v == keyValues[client][ckey[client]]
<1>1. client \in Clients /\ DOMAIN cpc = Clients /\ up \in [Nodes -> BOOLEAN]
  BY DEF OneClient, DataInv, TypeOK, ClientTypeOK, DataTypeOK
<1>2. cpc[client] \in InGet \ {"lookup"} /\ cobj[client] = obj /\ obj # Absent
  <2>1. cpc[client] \in InGet \ {"lookup"}
    BY DEF GetObjectFromBuffer, GetFromMemcached, InGet
  <2> QED BY <2>1, GetFinds DEF Reading
<1>3. /\ obj # NoObject
      /\ obj.stripe = curStripe => ReadAt(proxyBuf[curProxy][obj.idx], obj) = v
      /\ obj.stripe # curStripe =>
           /\ obj.stripe \in DOMAIN stripeInfo
           /\ LET n == stripeInfo[obj.stripe][obj.idx] IN
              /\ n \in Nodes
              /\ up[n] /\ Held(n, obj) = {} => \E j \in Jobs : Unsent(j, obj)
              /\ \A b \in Held(n, obj) : ReadAt(b.data, obj) = v
  BY <1>2, GetReads
<1> HIDE DEF v
<1>4. CASE GetObjectFromBuffer(client)
  <2>1. csource[client] = curProxy /\ obj.stripe = curStripe
    BY <1>2, <1>4 DEF GetObjectFromBuffer, Reading
  <2>2. /\ cgot' = [cgot EXCEPT ![client] = ReadAt(proxyBuf[curProxy][obj.idx], obj)]
        /\ UNCHANGED up
    BY <1>2, <1>4, <2>1 DEF GetObjectFromBuffer, nodeVars
  <2>3. /\ UNCHANGED <<ckey, keyValues, commit, coordUp>> /\ cpc'[client] = "idle"
    BY <1>1, <1>4 DEF GetObjectFromBuffer, coordVars, tableVars
  <2> QED BY <1>2, <1>3, <2>1, <2>2, <2>3 DEF Brings, v
<1>5. CASE GetFromMemcached(client)
  <2> DEFINE n == csource[client]
  <2>1. /\ n = stripeInfo[obj.stripe][obj.idx] /\ obj.stripe # curStripe
        /\ cpc[client] = "node"
    BY <1>2, <1>5 DEF GetFromMemcached, Reading
  <2>2. /\ n \in Nodes
        /\ up[n] /\ Held(n, obj) = {} => \E j \in Jobs : Unsent(j, cobj[client])
        /\ \A b \in Held(n, obj) : ReadAt(b.data, obj) = v
    BY <1>2, <1>3, <2>1
  <2>3. /\ UNCHANGED <<ckey, keyValues, commit, coordUp, stripeInfo>>
        /\ cpc'[client] = "idle"
        /\ up' = [up EXCEPT ![n] = up[n] /\ Held(n, obj) # {}]
        /\ cgot' = [cgot EXCEPT ![client] =
                      IF up[n] /\ Held(n, obj) # {}
                      THEN ReadAt((CHOOSE b \in Held(n, obj) : TRUE).data, obj)
                      ELSE Garbage]
    BY <1>1, <1>2, <1>5 DEF GetFromMemcached, coordVars, tableVars, stripeVars
  <2>4. CASE up[n] /\ Held(n, obj) # {}
    <3> HIDE DEF n, obj
    <3>1. ReadAt((CHOOSE b \in Held(n, obj) : TRUE).data, obj) = v
      BY <2>2, <2>4
    <3>2. up' = up
      BY <1>1, <2>2, <2>3, <2>4, Zenon
    <3> QED BY <1>2, <2>3, <2>4, <3>1, <3>2 DEF Brings, v
  <2>5. CASE ~ (up[n] /\ Held(n, obj) # {})
    <3>1. /\ ~ up'[n] /\ \A m \in Nodes \ {n} : up'[m] = up[m]
          /\ cgot' = [cgot EXCEPT ![client] = Garbage]
      <4> HIDE DEF n, obj
      <4> QED BY <1>1, <2>2, <2>3, <2>5, Zenon
    <3>2. BlockDown(ckey[client])'
      BY <1>2, <1>3, <2>1, <2>3, <3>1, Zenon DEF BlockDown
    <3>3. \A m \in Nodes : up[m] /\ ~ up'[m] =>
            m = n /\ \E j \in Jobs : Unsent(j, cobj[client])
      <4> HIDE DEF n, obj
      <4> QED BY <2>2, <2>5, <3>1
    <3> QED BY <1>2, <2>1, <2>2, <2>3, <3>1, <3>2, <3>3, Zenon DEF Brings
  <2> QED BY <2>4, <2>5
<1> QED BY <1>4, <1>5

(* What brings a datanode down, and that nothing brings the coordinator.   *)
LEMMA StopsStep ==
  ASSUME OneClient, DataInv, Buffered, coordUp, Reading, [Next]_vars
  PROVE  /\ coordUp'
         /\ \A n \in Nodes : up[n] /\ ~ up'[n] =>
              /\ cpc[client] = "node" /\ csource[client] = n
              /\ \E j \in Jobs : Unsent(j, cobj[client])
         /\ \A n \in Nodes : up'[n] => up[n]
<1>1. CASE GetValue(client) \/ Route(client)
  BY <1>1, GetGoes
<1>2. CASE GetObjectFromBuffer(client) \/ GetFromMemcached(client)
  <2>1. Brings /\ coordUp'
    BY <1>2, GetBrings
  <2>2. up \in [Nodes -> BOOLEAN]
    BY DEF DataInv, TypeOK, DataTypeOK
  <2>3. \A n \in Nodes : up'[n] => up[n]
    <3>1. CASE GetObjectFromBuffer(client)
      BY <3>1 DEF GetObjectFromBuffer, nodeVars
    <3>2. CASE GetFromMemcached(client)
      BY <2>2, <3>2 DEF GetFromMemcached
    <3> QED BY <1>2, <3>1, <3>2
  <2> QED BY <2>1, <2>3 DEF Brings
<1>3. CASE \/ Connect(client) \/ CheckCommitAbort(client)
           \/ \E k \in KeysOf[client] :
                Get(client, k) \/ \E v \in Vals : Set(client, k, v)
           \/ UNCHANGED vars
  <2>1. UNCHANGED <<coordUp, up>>
    BY <1>3, Zenon DEF Connect, CheckCommitAbort, Get, Set, vars, coordVars, nodeVars
  <2> QED BY <2>1
<1>4. CASE \/ EncodeCopy(sets) /\ sets \in Jobs
           \/ \E j \in Jobs, i \in Buffers : SetToMemcached(j, i)
  <2>1. ASSUME EncodeCopy(sets)
        PROVE  UNCHANGED <<coordUp, up>>
    BY <2>1 DEF EncodeCopy, coordVars, nodeVars
  <2>2. ASSUME NEW j \in Jobs, NEW i \in Buffers, SetToMemcached(j, i)
        PROVE  UNCHANGED <<coordUp, up>>
    BY <2>2 DEF SetToMemcached, coordVars
  <2> QED BY <1>4, <2>1, <2>2
<1>5. CASE JobStep(sets) /\ sets \in Jobs
  <2>1. UNCHANGED <<coordUp, up>>
    BY <1>5, Zenon DEF JobStep, UploadErase, ChooseBuffer, Roll, ReinitBuffers, NewStripe,
       StartWrite, RecordObject, UploadPublish, WriteBuffer, ReportCommitAbort,
       coordVars, nodeVars
  <2> QED BY <2>1
<1> QED BY <1>1, <1>2, <1>3, <1>4, <1>5, Steps DEF DataInv, ClientStep

(* Where no get is under way nothing is said of one.                       *)
LEMMA NotReading ==
  ASSUME cpc[client] \notin InGet \cup {"stuck"},
         cpc[client] # "idle" => cgot[client] = None,
         cgot[client] # None => Answered
  PROVE  Reading
BY DEF Reading, InGet

LEMMA NotReadingNext ==
  ASSUME cpc'[client] \notin InGet \cup {"stuck"},
         cpc'[client] # "idle" => cgot'[client] = None,
         cgot'[client] # None => Answered'
  PROVE  Reading'
BY DEF Reading, InGet

(* A step of a get.                                                        *)
LEMMA ReadingGet ==
  ASSUME OneClient, DataInv, Buffered, Reading,
         cpc[client] \in InGet, [Next]_vars
  PROVE  Reading'
<1>1. client \in Clients /\ DOMAIN cgot = Clients
  BY DEF OneClient, DataInv, TypeOK, ClientTypeOK
<1>2. /\ ckey[client] \in Keys /\ keyValues[client][ckey[client]] # None
      /\ cgot[client] = None
  BY DEF Reading, InGet
<1>3. CASE UNCHANGED <<clientVars, commit, curStripe, curProxy, stripeInfo, getVars>>
  BY <1>2, <1>3 DEF clientVars, getVars, Reading, InGet
<1>4. CASE GetValue(client) \/ Route(client)
  <2> DEFINE obj == commit[ckey[client]]
  <2>1. /\ UNCHANGED <<ckey, cgot, keyValues, commit, curStripe, curProxy,
                       stripeInfo>>
        /\ cobj'[client] = obj
        /\ \/ cpc'[client] = "route"
           \/ /\ cpc'[client] = "buffer" /\ csource'[client] = curProxy
              /\ cobj'[client].stripe = curStripe
           \/ /\ cpc'[client] = "node"
              /\ cobj'[client].stripe \in DOMAIN stripeInfo \ {curStripe}
              /\ csource'[client] = stripeInfo[cobj'[client].stripe][cobj'[client].idx]
    BY <1>4, GetGoes
  <2> QED BY <1>2, <2>1 DEF Reading, InGet
<1>5. CASE GetObjectFromBuffer(client) \/ GetFromMemcached(client)
  <2>1. /\ cpc'[client] = "idle" /\ UNCHANGED <<ckey, keyValues>> /\ Brings
    BY <1>5, GetBrings
  <2>2. Answered'
    BY <1>1, <2>1 DEF Brings, Answered
  <2> QED BY <2>1, <2>2, NotReadingNext DEF InGet
<1>6. \A j, i : SetToMemcached(j, i) \/ UNCHANGED vars =>
        UNCHANGED <<clientVars, commit, curStripe, curProxy, stripeInfo, getVars>>
  BY DEF SetToMemcached, vars, coordVars, tableVars, stripeVars
<1> QED BY <1>3, <1>4, <1>5, <1>6, AloneInGet

(* Any other step.                                                         *)
LEMMA ReadingElse ==
  ASSUME OneClient, DataInv, Reading, cpc[client] \notin InGet, [Next]_vars
  PROVE  Reading'
<1>1. client \in Clients /\ DOMAIN cgot = Clients /\ DOMAIN cpc = Clients
  BY DEF OneClient, DataInv, TypeOK, ClientTypeOK
<1>2. /\ cpc[client] # "stuck"
      /\ cpc[client] # "idle" => cgot[client] = None
      /\ cgot[client] # None => Answered
  BY DEF Reading
<1>3. CASE UNCHANGED <<clientVars, commit, stripeInfo, up>>
  <2>1. Answered' <=> Answered
    BY <1>3 DEF Answered, BlockDown, clientVars
  <2> QED BY <1>2, <1>3, <2>1, NotReadingNext DEF clientVars
<1>4. ASSUME NEW k \in KeysOf[client], NEW v \in Vals, Set(client, k, v)
      PROVE  Reading'
  <2>1. cpc'[client] = "upload" /\ cgot'[client] = None
    BY <1>1, <1>4 DEF Set
  <2> QED BY <2>1, NotReadingNext DEF InGet
<1>5. ASSUME NEW k \in KeysOf[client], Get(client, k)
      PROVE  Reading'
  <2>1. /\ cpc'[client] = "lookup" /\ cgot'[client] = None /\ ckey'[client] = k
        /\ keyValues' = keyValues /\ keyValues[client][k] # None
    BY <1>1, <1>5 DEF Get, DataInv, TypeOK, ClientTypeOK
  <2>2. k \in Keys
    BY <1>1, KeysOfAssumption
  <2> QED BY <2>1, <2>2 DEF Reading, InGet
<1>6. CASE Connect(client) \/ CheckCommitAbort(client)
  <2>1. cpc[client] # "idle" /\ cpc'[client] \in {"check", "idle"} /\ cgot' = cgot
    BY <1>1, <1>6 DEF Connect, CheckCommitAbort
  <2> QED BY <1>2, <2>1, NotReadingNext DEF InGet
<1>7. ~GetValue(client) /\ ~Route(client)
      /\ ~GetObjectFromBuffer(client) /\ ~GetFromMemcached(client)
  BY DEF GetValue, Route, GetObjectFromBuffer, GetFromMemcached, InGet
<1>8. CASE JobStep(sets) /\ sets \in Jobs
  <2>1. UNCHANGED clientVars /\ Busy
    BY <1>8, JobMoves DEF Moves, DataInv
  <2>2. cgot[client] = None
    BY <1>2, <2>1 DEF Busy
  <2> QED BY <1>2, <2>1, <2>2, NotReadingNext DEF clientVars
<1>9. /\ EncodeCopy(sets) => UNCHANGED <<clientVars, commit, stripeInfo, up>>
      /\ \A j, i : SetToMemcached(j, i) => UNCHANGED <<clientVars, commit, stripeInfo, up>>
      /\ UNCHANGED vars => UNCHANGED <<clientVars, commit, stripeInfo, up>>
  BY DEF EncodeCopy, SetToMemcached, vars, coordVars, tableVars, stripeVars, nodeVars
<1> QED BY <1>3, <1>4, <1>5, <1>6, <1>7, <1>8, <1>9, Steps DEF DataInv, ClientStep

LEMMA InitGet == Setting /\ Init => GetInv
<1> SUFFICES ASSUME Setting, Init PROVE GetInv
  OBVIOUS
<1>1. DataInv /\ client \in Clients
  BY InitData DEF Setting, OneClient
<1>2. cpc[client] = "idle" /\ cgot[client] = None
  BY <1>1 DEF Init
<1>3. Reading
  BY <1>2, NotReading DEF InGet
<1>4. At = "idle"
  BY <1>2 DEF At, Busy
<1>5. Buffered /\ coordUp
  BY <1>4 DEF Init, Buffered, HasObject
<1> QED BY <1>1, <1>3, <1>5 DEF GetInv

LEMMA GetStep == Setting /\ GetInv /\ [Next]_vars => GetInv'
<1> SUFFICES ASSUME Setting, GetInv, [Next]_vars
             PROVE  GetInv'
  OBVIOUS
<1>1. DataInv'
  BY DataStep DEF GetInv
<1>2. Buffered' /\ coordUp'
  BY BufferedStep, StopsStep DEF Setting, GetInv
<1>3. Reading'
  BY ReadingGet, ReadingElse DEF Setting, GetInv
<1> QED BY <1>1, <1>2, <1>3 DEF GetInv

LEMMA GetAlways ==
  ASSUME Setting
  PROVE  Spec => []GetInv
BY InitGet, GetStep, PTL DEF Spec

(* What run_client tests, for a client that gets what it likes when it     *)
(* likes: it reads what it last wrote, from the buffers of the proxy or    *)
(* from a datanode, however often the buffers have been rolled between and *)
(* while they are being saved, or its get fails because the datanode of    *)
(* the block is down.                                                      *)
THEOREM ReadsItsWrites ==
  ASSUME Setting
  PROVE  Spec => []ReadsOrFails
<1>1. GetInv => ReadsOrFails
  <2>1. OneClient => \A c \in Clients : c = client
    BY DEF OneClient
  <2> QED BY <2>1 DEF GetInv, Reading, Answered, ReadsOrFails, Setting
<1> QED BY <1>1, GetAlways, PTL

(* A datanode goes down only of a get for a block that the thread saving   *)
(* its stripe has yet to send there, and the coordinator never.            *)
THEOREM EarlyGetsStop ==
  ASSUME Setting
  PROVE  Spec => OnlyEarlyGetsStop
<1> DEFINE Stops ==
             /\ coordUp => coordUp'
             /\ \A n \in Nodes : up[n] /\ ~up'[n] =>
                  \E c \in Clients : /\ cpc[c] = "node" /\ csource[c] = n
                                    /\ \E j \in Jobs : Unsent(j, cobj[c])
<1>1. GetInv /\ [Next]_vars => [Stops]_vars
  <2> SUFFICES ASSUME GetInv, [Next]_vars
               PROVE  Stops
    OBVIOUS
  <2>1. OneClient /\ client \in Clients
    BY DEF Setting, OneClient
  <2>2. /\ coordUp'
        /\ \A n \in Nodes : up[n] /\ ~ up'[n] =>
              /\ cpc[client] = "node" /\ csource[client] = n
              /\ \E j \in Jobs : Unsent(j, cobj[client])
    BY <2>1, StopsStep DEF GetInv
  <2> QED BY <2>1, <2>2
<1> QED BY <1>1, GetAlways, PTL DEF Spec, OnlyEarlyGetsStop

-----------------------------------------------------------------------------
(* Set and get implement ObjectStore                                       *)

(* What the copies of the committed objects hold is what the keys have for *)
(* the client.                                                             *)
Stored(k) == IF commit[k] = Absent THEN None ELSE Current(k)
Spelled == \A k \in Keys : StoredValues[k] = Stored(k)

LEMMA GetSpelled ==
  ASSUME GetInv, AllUp
  PROVE  Spelled
<1> SUFFICES ASSUME NEW k \in Keys
             PROVE  StoredValues[k] = Stored(k)
  BY DEF Spelled
<1>1. CASE commit[k] = Absent
  BY <1>1 DEF StoredValues, Stored
<1>2. CASE commit[k] # Absent
  <2> DEFINE obj == commit[k]
             v == Current(k)
             values == {ReadAt(shard, obj) : shard \in Copies(obj)} \ {Garbage}
  <2>1. PICK j \in Jobs : /\ Written(j) /\ obj = job[j].obj /\ job[j].val = v
                          /\ v \in Vals /\ obj.idx \in Buffers
    BY <1>2, CommittedJob DEF GetInv
  <2>2. v # Garbage
    BY <2>1, MarksAssumption
  <2>3. \A shard \in Copies(obj) : ReadAt(shard, obj) \in {v, Garbage}
    BY <2>1, CopiesHold DEF GetInv
  <2>4. \E shard \in Copies(obj) : ReadAt(shard, obj) = v
    <3>1. ASSUME obj.stripe \in DOMAIN stripeInfo
          PROVE  up[stripeInfo[obj.stripe][obj.idx]]
      BY <2>1, <3>1, Placed DEF GetInv, DataInv, AllUp
    <3> QED BY <2>1, <3>1, CopyThere DEF GetInv
  <2> HIDE DEF obj, v
  <2>5. values = {v}
    BY <2>2, <2>3, <2>4
  <2>6. Located(obj) = v
    BY <2>5 DEF Located
  <2> QED BY <1>2, <2>6 DEF StoredValues, Stored, obj, v
<1> QED BY <1>1, <1>2

LEMMA SameValues ==
  ASSUME Spelled, Spelled', \A k \in Keys : Stored(k)' = Stored(k)
  PROVE  StoredValues' = StoredValues
<1>1. \A k \in Keys : StoredValues'[k] = StoredValues[k]
  BY DEF Spelled
<1> QED BY <1>1 DEF StoredValues

(* The only client's call is the only call.                                *)
LEMMA TheCall ==
  ASSUME OneClient
  PROVE  /\ client \in Clients
         /\ Calls[client] = CallOf(client)
         /\ \A x : CallOf(client)' = x => Calls' = [Calls EXCEPT ![client] = x]
         /\ CallOf(client)' = CallOf(client) => Calls' = Calls
<1>1. \A d \in Clients : d = client
  BY DEF OneClient
<1> QED BY <1>1 DEF Calls, OneClient

(* What the client is doing in a set, and in a get.                        *)
LEMMA CallIs ==
  ASSUME SingleInv
  PROVE  /\ cpc[client] = "idle" => CallOf(client) = Promise!NoCall
         /\ Busy => CallOf(client) = Promise!Setting(Cur.key, Cur.val, Phase(Cur))
         /\ cpc[client] \in InGet => CallOf(client) = Promise!Getting(ckey[client])
<1>1. Busy => cjob[client] = sets
  BY DEF SingleInv, OneAtATime
<1> QED BY <1>1 DEF CallOf, Busy, Cur, InGet, Promise!NoCall, Promise!Setting,
                    Promise!Getting

LEMMA CallWillBe ==
  ASSUME SingleInv'
  PROVE  /\ cpc'[client] = "idle" => CallOf(client)' = Promise!NoCall
         /\ Busy' => CallOf(client)'
                       = Promise!Setting(Cur'.key, Cur'.val, Phase(Cur)')
         /\ cpc'[client] \in InGet => CallOf(client)' = Promise!Getting(ckey'[client])
<1>1. Busy' => cjob'[client] = sets'
  BY DEF SingleInv, OneAtATime
<1> QED BY <1>1 DEF CallOf, Busy, Cur, InGet, Promise!NoCall, Promise!Setting,
                    Promise!Getting

LEMMA PhaseIs ==
  ASSUME Busy
  PROVE  /\ At = "erase" => Phase(Cur) = "called"
         /\ At # "erase" /\ Thread # "done" => Phase(Cur) = "forgotten"
         /\ At # "erase" /\ Thread = "done" => Phase(Cur) = "stored"
BY DEF Phase, At, Thread

LEMMA PhaseWillBe ==
  ASSUME Busy'
  PROVE  /\ At' = "erase" => Phase(Cur)' = "called"
         /\ At' # "erase" /\ Thread' # "done" => Phase(Cur)' = "forgotten"
         /\ At' # "erase" /\ Thread' = "done" => Phase(Cur)' = "stored"
BY DEF Phase, At, Thread

(* The client calls set: the values stay.                                  *)
LEMMA PromiseBeginSet ==
  ASSUME Setting, GetInv, GetInv', Spelled, Spelled',
         NEW k \in KeysOf[client], NEW v \in Vals, Set(client, k, v)
  PROVE  Promise!BeginSet(client, k, v) /\ k \in Keys
<1>1. SingleInv /\ SingleInv' /\ OneClient
  BY DEF Setting, GetInv, DataInv
<1>2. Begins(k, v)
  BY <1>1, SetBegins
<1>3. CallOf(client) = Promise!NoCall
  BY <1>1, <1>2, CallIs DEF Begins
<1>4. CallOf(client)' = Promise!Setting(k, v, "called")
  BY <1>1, <1>2, CallWillBe, PhaseWillBe DEF Begins
<1>5. \A x \in Keys : Stored(x)' = Stored(x)
  BY <1>2 DEF Begins, Stored, Current, Resetting
<1>6. StoredValues' = StoredValues
  BY <1>5, SameValues
<1>7. cgot' = [cgot EXCEPT ![client] = None]
  BY DEF Set
<1> QED BY <1>1, <1>2, <1>3, <1>4, <1>6, <1>7, TheCall DEF Promise!BeginSet, Begins

(* The coordinator's handler erases the key: the old value is forgotten.   *)
LEMMA PromiseForget ==
  ASSUME Setting, GetInv, GetInv', Spelled, Spelled', sets \in Jobs,
         UploadErase(sets)
  PROVE  Promise!Forget(client, Cur.key, Cur.val)
<1>1. SingleInv /\ SingleInv' /\ OneClient /\ DOMAIN commit = Keys
      /\ DOMAIN job = Jobs /\ HasFields(job[sets])
  BY DEF Setting, GetInv, DataInv, SingleInv, Shape
<1>2. Moves
  BY <1>1, JobMoves DEF JobStep
<1>3. /\ Busy /\ Busy' /\ Cur = job[sets] /\ Cur' = job'[sets]
      /\ Cur'.key = Cur.key /\ Cur'.val = Cur.val /\ Cur.key \in Keys
      /\ At = job[sets].upc /\ At' = job'[sets].upc
      /\ Thread = job[sets].tpc /\ Thread' = job'[sets].tpc
      /\ UNCHANGED <<keyValues, cgot>>
  BY <1>2 DEF Moves, clientVars
<1>4. /\ commit' = [commit EXCEPT ![Cur.key] = Absent]
      /\ job' = [job EXCEPT ![sets].upc = "choose"] /\ At = "erase"
  BY <1>3 DEF UploadErase, Forget
<1>5. At' = "choose" /\ Thread' = Thread
  BY <1>1, <1>3, <1>4 DEF HasFields
<1>6. Thread = "none"
  BY <1>1, <1>3, <1>4 DEF SingleInv, Course, Before
<1>7. CallOf(client) = Promise!Setting(Cur.key, Cur.val, "called")
  BY <1>1, <1>3, <1>4, CallIs, PhaseIs
<1>8. CallOf(client)' = Promise!Setting(Cur.key, Cur.val, "forgotten")
  BY <1>1, <1>3, <1>5, <1>6, CallWillBe, PhaseWillBe
<1>9. /\ commit'[Cur.key] = Absent
      /\ \A x \in Keys \ {Cur.key} : commit'[x] = commit[x]
  BY <1>1, <1>3, <1>4
<1>10. StoredValues' = [StoredValues EXCEPT ![Cur.key] = None]
  <2>1. StoredValues'[Cur.key] = None
    BY <1>3, <1>9 DEF StoredValues
  <2>2. \A x \in Keys \ {Cur.key} : Stored(x)' = Stored(x)
    BY <1>3, <1>9 DEF Stored, Current, Resetting
  <2>3. \A x \in Keys \ {Cur.key} : StoredValues'[x] = StoredValues[x]
    BY <2>2 DEF Spelled
  <2> QED BY <1>3, <2>1, <2>3 DEF StoredValues
<1> QED BY <1>1, <1>3, <1>7, <1>8, <1>10, TheCall DEF Promise!Forget, Promise!Move

(* The thread reports its object: the new value is stored.                 *)
LEMMA PromiseStore ==
  ASSUME Setting, GetInv, GetInv', Spelled, Spelled', sets \in Jobs,
         ReportCommitAbort(sets)
  PROVE  Promise!Store(client, Cur.key, Cur.val)
<1>1. SingleInv /\ SingleInv' /\ OneClient /\ DOMAIN commit = Keys
      /\ DOMAIN job = Jobs /\ HasFields(job[sets])
  BY DEF Setting, GetInv, DataInv, SingleInv, Shape
<1>2. Moves
  BY <1>1, JobMoves DEF JobStep
<1>3. /\ Busy /\ Busy' /\ Cur = job[sets] /\ Cur' = job'[sets]
      /\ Cur'.key = Cur.key /\ Cur'.val = Cur.val /\ Cur.key \in Keys
      /\ At = job[sets].upc /\ At' = job'[sets].upc
      /\ Thread = job[sets].tpc /\ Thread' = job'[sets].tpc
      /\ UNCHANGED <<keyValues, cgot>>
  BY <1>2 DEF Moves, clientVars
<1>4. /\ commit' = [commit EXCEPT ![Cur.key] = IF updating[Cur.key] = Absent
                                               THEN NoObject ELSE updating[Cur.key]]
      /\ job' = [job EXCEPT ![sets].tpc = "done"] /\ Thread = "report"
  BY <1>3 DEF ReportCommitAbort
<1>5. Thread' = "done" /\ At' = At
  BY <1>1, <1>3, <1>4 DEF HasFields
<1>6. At # "erase"
  BY <1>1, <1>3, <1>4 DEF SingleInv, Course, Before
<1>7. CallOf(client) = Promise!Setting(Cur.key, Cur.val, "forgotten")
  BY <1>1, <1>3, <1>4, <1>6, CallIs, PhaseIs
<1>8. CallOf(client)' = Promise!Setting(Cur.key, Cur.val, "stored")
  BY <1>1, <1>3, <1>5, <1>6, CallWillBe, PhaseWillBe
<1>9. /\ commit'[Cur.key] # Absent
      /\ \A x \in Keys \ {Cur.key} : commit'[x] = commit[x]
  BY <1>1, <1>3, <1>4, AbsentAssumption DEF ObjectType
<1>10. StoredValues' = [StoredValues EXCEPT ![Cur.key] = Cur.val]
  <2>1. \A x \in Keys : x = Cur.key => Stored(x)' = Cur.val
    BY <1>3, <1>5, <1>6, <1>9 DEF Stored, Current, Resetting
  <2>2. \A x \in Keys \ {Cur.key} : Stored(x)' = Stored(x)
    BY <1>3, <1>9 DEF Stored, Current, Resetting
  <2>3. /\ StoredValues'[Cur.key] = Cur.val
        /\ \A x \in Keys \ {Cur.key} : StoredValues'[x] = StoredValues[x]
    BY <1>3, <2>1, <2>2 DEF Spelled
  <2> QED BY <1>3, <2>3 DEF StoredValues
<1> QED BY <1>1, <1>3, <1>7, <1>8, <1>10, TheCall DEF Promise!Store, Promise!Move

(* CheckCommitAbort finds the object: the client has its value.            *)
LEMMA PromiseEndSet ==
  ASSUME Setting, GetInv, GetInv', Spelled, Spelled', CheckCommitAbort(client)
  PROVE  Promise!EndSet(client, Cur.key, Cur.val) /\ Cur.key \in Keys /\ Cur.val \in Vals
<1>1. /\ SingleInv /\ SingleInv' /\ OneClient /\ TypeOK /\ client \in Clients
      /\ keyValues \in [Clients -> [Keys -> Vals \cup {None}]] /\ DOMAIN cpc = Clients
  BY DEF Setting, OneClient, GetInv, DataInv, TypeOK, ClientTypeOK
<1>2. cpc[client] = "check" /\ cpc'[client] = "idle" /\ Busy
  BY <1>1 DEF CheckCommitAbort, Busy
<1>3. Quiet
  BY <1>1, ClientIsQuiet DEF ClientStep, TypeOK, DataTypeOK
<1>4. At = "replied" /\ Thread = "done"
  <2>1. At = "replied"
    BY <1>1, <1>2 DEF SingleInv, Course
  <2>2. ~ Busy'
    BY <1>2 DEF Busy
  <2>3. At' = "idle"
    BY <2>2 DEF At
  <2> QED BY <1>3, <2>1, <2>3 DEF Quiet
<1>5. cjob[client] = sets /\ Cur.key \in Keys /\ Cur.val \in Vals
  BY <1>1, <1>2 DEF SingleInv, OneAtATime
<1>6. /\ keyValues' = [keyValues EXCEPT ![client][Cur.key] = Cur.val]
      /\ UNCHANGED <<commit, cgot, job, sets>>
  BY <1>3, <1>5 DEF CheckCommitAbort, Cur, coordVars, tableVars
<1>7. /\ keyValues'[client][Cur.key] = Cur.val
      /\ \A k \in Keys \ {Cur.key} : keyValues'[client][k] = keyValues[client][k]
  BY <1>1, <1>5, <1>6
<1>8. ~ Busy'
  BY <1>2 DEF Busy
<1>9. \A k \in Keys : Stored(k)' = Stored(k)
  BY <1>2, <1>4, <1>6, <1>7, <1>8 DEF Stored, Current, Resetting
<1>10. StoredValues' = StoredValues
  BY <1>9, SameValues
<1>11. CallOf(client) = Promise!Setting(Cur.key, Cur.val, "stored")
  BY <1>1, <1>2, <1>4, CallIs, PhaseIs
<1>12. CallOf(client)' = Promise!NoCall
  BY <1>1, <1>2, CallWillBe
<1> QED BY <1>1, <1>5, <1>6, <1>10, <1>11, <1>12, TheCall DEF Promise!EndSet

(* A key that has a value for the client has one in the table.             *)
LEMMA StoredIsKnown ==
  ASSUME GetInv, Spelled, ~ Busy, NEW k \in Keys, keyValues[client][k] # None
  PROVE  StoredValues[k] = keyValues[client][k]
BY DEF GetInv, DataInv, Entries, Entry, Resetting, Spelled, Stored, Current

(* The client calls get, and the get returns: the values stay.             *)
LEMMA PromiseGet ==
  ASSUME Setting, GetInv, GetInv', Spelled, Spelled', AllUp'
  PROVE  /\ \A k \in KeysOf[client] :
              Get(client, k) => Promise!BeginGet(client, k) /\ k \in Keys
         /\ GetObjectFromBuffer(client) \/ GetFromMemcached(client)
              => Promise!EndGet(client, ckey[client]) /\ ckey[client] \in Keys
<1>1. /\ SingleInv /\ SingleInv' /\ OneClient /\ client \in Clients
      /\ DOMAIN cpc = Clients /\ DOMAIN ckey = Clients
  BY DEF Setting, OneClient, GetInv, DataInv, TypeOK, ClientTypeOK
<1>2. ASSUME UNCHANGED <<commit, keyValues>>, ~Busy, ~Busy'
      PROVE  StoredValues' = StoredValues
  <2>1. \A k \in Keys : Stored(k)' = Stored(k)
    BY <1>2 DEF Stored, Current, Resetting
  <2> QED BY <2>1, SameValues
<1>3. ASSUME NEW k \in KeysOf[client], Get(client, k)
      PROVE  Promise!BeginGet(client, k) /\ k \in Keys
  <2>1. /\ cpc[client] = "idle" /\ cpc'[client] = "lookup" /\ ckey'[client] = k
        /\ keyValues[client][k] # None /\ cgot' = [cgot EXCEPT ![client] = None]
        /\ UNCHANGED <<commit, keyValues>>
    BY <1>1, <1>3 DEF Get, coordVars, tableVars
  <2>2. ~Busy /\ ~Busy' /\ k \in Keys
    BY <1>1, <2>1, KeysOfAssumption DEF Busy
  <2>3. StoredValues' = StoredValues /\ StoredValues[k] # None
    BY <1>2, <2>1, <2>2, StoredIsKnown
  <2>4. CallOf(client) = Promise!NoCall
    BY <1>1, <2>1, CallIs
  <2>5. CallOf(client)' = Promise!Getting(k)
    BY <1>1, <2>1, CallWillBe DEF InGet
  <2> QED BY <1>1, <2>1, <2>2, <2>3, <2>4, <2>5, TheCall DEF Promise!BeginGet
<1>4. ASSUME GetObjectFromBuffer(client) \/ GetFromMemcached(client)
      PROVE  Promise!EndGet(client, ckey[client]) /\ ckey[client] \in Keys
  <2> DEFINE k == ckey[client]
  <2>1. /\ UNCHANGED <<commit, keyValues>>
        /\ cpc[client] \in InGet /\ cpc'[client] = "idle"
        /\ cgot' = [cgot EXCEPT ![client] = keyValues[client][k]]
    <3>1. /\ UNCHANGED <<commit, keyValues>>
          /\ cpc[client] \in InGet /\ cpc'[client] = "idle" /\ Brings
      BY <1>1, <1>4, GetBrings DEF GetInv
    <3> QED BY <3>1 DEF Brings, AllUp
  <2>2. ~Busy /\ ~Busy'
    BY <2>1 DEF Busy, InGet
  <2>3. k \in Keys /\ keyValues[client][k] # None
    BY <2>1 DEF GetInv, Reading
  <2>4. StoredValues' = StoredValues /\ StoredValues[k] = keyValues[client][k]
    BY <1>2, <2>1, <2>2, <2>3, StoredIsKnown
  <2>5. CallOf(client) = Promise!Getting(k)
    BY <1>1, <2>1, CallIs
  <2>6. CallOf(client)' = Promise!NoCall
    BY <1>1, <2>1, CallWillBe
  <2> HIDE DEF k
  <2>7. Promise!EndGet(client, k)
    BY <1>1, <2>1, <2>4, <2>5, <2>6, TheCall DEF Promise!EndGet
  <2> QED BY <2>3, <2>7 DEF k
<1> QED BY <1>3, <1>4

(* Every other step is invisible: the client's connection and the steps by *)
(* which it finds what it gets, the steps of the handler between the       *)
(* erasure and the thread's report, and the saving of the old buffers.     *)
Hidden ==
  \/ Connect(client) \/ GetValue(client) \/ Route(client)
  \/ /\ sets \in Jobs
     /\ \/ ChooseBuffer(sets) \/ Roll(sets) \/ ReinitBuffers(sets) \/ NewStripe(sets)
        \/ StartWrite(sets) \/ RecordObject(sets) \/ UploadPublish(sets)
        \/ WriteBuffer(sets) \/ EncodeCopy(sets)
  \/ \E j \in Jobs, i \in Buffers : SetToMemcached(j, i)
  \/ UNCHANGED vars

LEMMA HiddenCall ==
  ASSUME Setting, GetInv, GetInv', Hidden
  PROVE  /\ UNCHANGED <<commit, keyValues, cgot>>
         /\ Busy' <=> Busy
         /\ Busy => /\ Cur'.key = Cur.key /\ Cur'.val = Cur.val
                    /\ Phase(Cur)' = Phase(Cur) /\ (At' = "erase" <=> At = "erase")
         /\ cpc'[client] \in InGet <=> cpc[client] \in InGet
         /\ ckey' = ckey /\ (cpc'[client] = "idle" <=> cpc[client] = "idle")
<1>1. /\ SingleInv /\ OneClient /\ client \in Clients
      /\ DOMAIN cpc = Clients /\ DOMAIN job = Jobs
  BY SMTT(30) DEF Setting, OneClient, GetInv, DataInv, TypeOK, ClientTypeOK, SingleInv, Shape
<1>2. UNCHANGED <<commit, keyValues, cgot, ckey, sets>>
  BY Zenon DEF Hidden, Connect, GetValue, Route, ChooseBuffer, Roll, ReinitBuffers, NewStripe,
     StartWrite, RecordObject, UploadPublish, WriteBuffer, EncodeCopy, SetToMemcached,
     vars, clientVars, coordVars, tableVars
<1>3. ASSUME UNCHANGED <<cpc, job>>
      PROVE  /\ Busy' <=> Busy
             /\ Cur'.key = Cur.key /\ Cur'.val = Cur.val
             /\ Phase(Cur)' = Phase(Cur) /\ (At' = "erase" <=> At = "erase")
  BY <1>2, <1>3 DEF Busy, Cur, Phase, At
<1>4. CASE \/ EncodeCopy(sets) \/ (\E j \in Jobs, i \in Buffers : SetToMemcached(j, i))
           \/ UNCHANGED vars
  <2>1. UNCHANGED <<cpc, job>>
    BY <1>4 DEF EncodeCopy, SetToMemcached, vars, clientVars
  <2> QED BY <1>2, <1>3, <2>1
<1>5. CASE Connect(client)
  <2>1. cpc[client] = "upload" /\ cpc'[client] = "check" /\ job' = job
    BY <1>1, <1>5 DEF Connect
  <2> QED BY <1>2, <2>1 DEF Busy, Cur, Phase, At, InGet
<1>6. CASE GetValue(client) \/ Route(client)
  <2>1. cpc[client] \in InGet /\ cpc'[client] \in InGet /\ job' = job
    BY <1>6, GetGoes DEF GetValue, Route, Setting, GetInv, InGet
  <2> QED BY <1>2, <2>1 DEF Busy, InGet
<1>7. CASE /\ sets \in Jobs
           /\ \/ ChooseBuffer(sets) \/ Roll(sets) \/ ReinitBuffers(sets)
              \/ NewStripe(sets) \/ StartWrite(sets) \/ RecordObject(sets)
              \/ UploadPublish(sets) \/ WriteBuffer(sets)
  <2>1. Moves /\ HasFields(job[sets])
    BY <1>1, <1>7, JobMoves DEF JobStep, SingleInv, Shape
  <2>2. /\ Busy /\ Busy' /\ UNCHANGED cpc
        /\ Cur'.key = Cur.key /\ Cur'.val = Cur.val /\ Thread # "done"
        /\ Cur = job[sets] /\ Cur' = job'[sets]
        /\ At = job[sets].upc /\ At' = job'[sets].upc /\ At' # "erase"
        /\ Thread = job[sets].tpc /\ Thread' = job'[sets].tpc
    BY <2>1 DEF Moves, clientVars
  <2>3. Thread' # "done"
    <3>1. CASE ChooseBuffer(sets) \/ Roll(sets) \/ ReinitBuffers(sets)
      BY <1>1, <1>7, <2>1, <2>2, <3>1 DEF ChooseBuffer, Roll, ReinitBuffers, HasFields
    <3>2. CASE NewStripe(sets) \/ StartWrite(sets)
      BY <1>1, <1>7, <2>1, <2>2, <3>2 DEF NewStripe, StartWrite, HasFields
    <3>3. CASE RecordObject(sets) \/ UploadPublish(sets)
      BY <1>1, <1>7, <2>1, <2>2, <3>3 DEF RecordObject, UploadPublish, HasFields
    <3>4. CASE WriteBuffer(sets)
      <4>1. job' = [job EXCEPT ![sets].tpc = "report"]
        BY <3>4 DEF WriteBuffer
      <4> QED BY <1>1, <1>7, <2>1, <2>2, <4>1 DEF HasFields
    <3> QED BY <1>7, <3>1, <3>2, <3>3, <3>4
  <2>4. At # "erase"
    <3>1. job[sets].upc # "erase"
      <4>1. CASE WriteBuffer(sets)
        <5>1. Thread = "accept"
          BY <2>2, <4>1 DEF WriteBuffer
        <5> QED BY <1>1, <2>2, <5>1 DEF SingleInv, Course, Before
      <4>2. CASE ~WriteBuffer(sets)
        BY <1>7, <4>2 DEF ChooseBuffer, Roll, ReinitBuffers, NewStripe, StartWrite,
           RecordObject, UploadPublish
      <4> QED BY <4>1, <4>2
    <3> QED BY <2>2, <3>1
  <2>5. Phase(Cur) = "forgotten" /\ Phase(Cur)' = "forgotten"
    BY <2>2, <2>3, <2>4, PhaseIs, PhaseWillBe
  <2> QED BY <1>2, <2>2, <2>4, <2>5
<1> QED BY <1>4, <1>5, <1>6, <1>7 DEF Hidden

LEMMA PromiseStutter ==
  ASSUME Setting, GetInv, GetInv', Spelled, Spelled', Hidden
  PROVE  UNCHANGED <<StoredValues, Calls, cgot>>
<1>1. /\ SingleInv /\ SingleInv' /\ OneClient /\ client \in Clients
      /\ cpc[client] = "idle" \/ Busy \/ cpc[client] \in InGet
  <2>1. cpc[client] # "stuck"
    BY DEF GetInv, Reading
  <2> QED BY <2>1 DEF Setting, OneClient, GetInv, DataInv, TypeOK, ClientTypeOK, Busy, InGet
<1>2. /\ UNCHANGED <<commit, keyValues, cgot>>
      /\ Busy' <=> Busy
      /\ Busy => /\ Cur'.key = Cur.key /\ Cur'.val = Cur.val
                 /\ Phase(Cur)' = Phase(Cur) /\ (At' = "erase" <=> At = "erase")
      /\ cpc'[client] \in InGet <=> cpc[client] \in InGet
      /\ ckey' = ckey /\ (cpc'[client] = "idle" <=> cpc[client] = "idle")
  BY HiddenCall
<1>3. \A k \in Keys : Stored(k)' = Stored(k)
  BY <1>2 DEF Stored, Current, Resetting
<1>4. StoredValues' = StoredValues
  BY <1>3, SameValues
<1>5. CallOf(client)' = CallOf(client)
  <2>1. CASE cpc[client] = "idle"
    BY <1>1, <1>2, <2>1, CallIs, CallWillBe
  <2>2. CASE Busy
    BY <1>1, <1>2, <2>2, CallIs, CallWillBe
  <2>3. CASE cpc[client] \in InGet
    BY <1>1, <1>2, <2>3, CallIs, CallWillBe
  <2> QED BY <1>1, <2>1, <2>2, <2>3
<1>6. Calls' = Calls
  BY <1>1, <1>5, TheCall
<1> QED BY <1>2, <1>4, <1>6

LEMMA PromiseStep ==
  ASSUME Setting, GetInv, GetInv', Spelled, Spelled', AllUp', [Next]_vars
  PROVE  [Promise!Next]_<<StoredValues, Calls, cgot>>
<1>1. client \in Clients /\ OneClient /\ SingleInv
  BY DEF Setting, OneClient, GetInv, DataInv
<1>2. ASSUME NEW k \in KeysOf[client], NEW v \in Vals, Set(client, k, v)
      PROVE  Promise!Next
  BY <1>1, <1>2, PromiseBeginSet DEF Promise!Next
<1>3. ASSUME NEW k \in KeysOf[client], Get(client, k)
      PROVE  Promise!Next
  BY <1>1, <1>3, PromiseGet DEF Promise!Next
<1>4. CASE GetObjectFromBuffer(client) \/ GetFromMemcached(client)
  <2>1. Promise!EndGet(client, ckey[client]) /\ ckey[client] \in Keys
    BY <1>4, PromiseGet
  <2> QED BY <1>1, <2>1 DEF Promise!Next
<1>5. CASE CheckCommitAbort(client)
  <2>1. Promise!EndSet(client, Cur.key, Cur.val) /\ Cur.key \in Keys /\ Cur.val \in Vals
    BY <1>5, PromiseEndSet
  <2> QED BY <1>1, <2>1 DEF Promise!Next
<1>6. CASE sets \in Jobs /\ (UploadErase(sets) \/ ReportCommitAbort(sets))
  <2>1. JobStep(sets)
    BY <1>6 DEF JobStep
  <2>2. Cur.key \in Keys /\ Cur.val \in Vals
    BY <1>1, <1>6, <2>1, JobMoves DEF Moves
  <2>3. Promise!Forget(client, Cur.key, Cur.val) \/ Promise!Store(client, Cur.key, Cur.val)
    BY <1>6, PromiseForget, PromiseStore
  <2> QED BY <1>1, <2>2, <2>3 DEF Promise!Next
<1>7. CASE Hidden
  BY <1>7, PromiseStutter
<1>8. \/ Hidden
      \/ \E k \in KeysOf[client] :
           Get(client, k) \/ \E v \in Vals : Set(client, k, v)
      \/ GetObjectFromBuffer(client) \/ GetFromMemcached(client)
      \/ CheckCommitAbort(client)
      \/ sets \in Jobs /\ (UploadErase(sets) \/ ReportCommitAbort(sets))
  BY <1>1, Steps DEF ClientStep, JobStep, Hidden
<1> QED BY <1>2, <1>3, <1>4, <1>5, <1>6, <1>7, <1>8

LEMMA PromiseInit ==
  ASSUME Init
  PROVE  Promise!Init
BY DEF Init, Promise!Init, Promise!NoCall, StoredValues, Calls, CallOf

(* Set and get keep the promise of ObjectStore to one client, whenever it  *)
(* gets: until a get has taken a datanode down buffers, rolls and the      *)
(* threads that save the old buffers behave, in every step, as one table   *)
(* of values.                                                              *)
THEOREM PromiseKept ==
  ASSUME Setting
  PROVE  Spec => KeepsPromise
<1>1. Init => Promise!Init
  BY PromiseInit
<1>2. GetInv /\ GetInv' /\ [Next]_vars
        => [AllUp' => [Promise!Next]_<<StoredValues, Calls, cgot>>]_vars
  <2> SUFFICES ASSUME GetInv, GetInv', [Next]_vars, AllUp'
               PROVE  [Promise!Next]_<<StoredValues, Calls, cgot>>
    OBVIOUS
  <2>1. AllUp
    BY StopsStep DEF AllUp, Setting, GetInv
  <2>2. Spelled /\ Spelled'
    <3>1. GetInv /\ AllUp => Spelled
      BY GetSpelled
    <3>2. (GetInv /\ AllUp => Spelled)'
      BY GetSpelled, PTL
    <3> QED BY <2>1, <3>1, <3>2
  <2> QED BY <2>2, PromiseStep
<1> QED BY <1>1, <1>2, GetAlways, PTL DEF Spec, KeepsPromise
=============================================================================
