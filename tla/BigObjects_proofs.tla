-------------------------- MODULE BigObjects_proofs --------------------------
(***************************************************************************)
(* Proofs about BigObjects: first for every number of clients, keys, jobs, *)
(* datanodes and blocks, then, in the setting of run_client, with one.     *)
(***************************************************************************)
EXTENDS BigObjectsInv, FiniteSetTheorems, SequenceTheorems, TLAPS

USE DEF clientVars, tableVars, allocVars, coordVars, paramVars, planVars,
        dataVars, readVars, nodeVars, vars

USE DEF Forget, Owed, Dequeue, CommitObject, Lacks,
        NodeOf, ClientPC, UploadPC, ThreadPC, InSet, InGet, Jobs, Objects

LEMMA InitShape == Init => ShapeInv
  BY KeysAssumption, ShardsAssumption, BoundsAssumption DEF Init, ShapeInv, TypeOK, ClientTypeOK, CoordTypeOK, JobTypeOK, PlanTypeOK, DataTypeOK, ReadTypeOK, NodeTypeOK, JobShape, ClientShape, SaveShape, KnownStripes, Known, Readers, Idle, Tokens

(* A reader stays a reader, of the same object, when only its progress     *)
(* changes.                                                                *)
LEMMA ReaderUpdates ==
  ASSUME NEW rd \in Readers
  PROVE  /\ \A n \in Nat : /\ [rd EXCEPT !.round = n] \in Readers
                           /\ [rd EXCEPT !.round = n].obj = rd.obj
         /\ [rd EXCEPT !.i = @ + 1, !.got = {}] \in Readers
         /\ [rd EXCEPT !.i = @ + 1, !.got = {}].obj = rd.obj
         /\ [rd EXCEPT !.pc = "send"] \in Readers
         /\ [rd EXCEPT !.pc = "send"].obj = rd.obj
<1>1. rd.i + 1 \in Nat
  BY DEF Readers
<1>2. ASSUME NEW n \in Nat
      PROVE  /\ [rd EXCEPT !.round = n] \in Readers
             /\ [rd EXCEPT !.round = n].obj = rd.obj
  BY DEF Readers
<1>3. /\ [rd EXCEPT !.i = @ + 1, !.got = {}] \in Readers
      /\ [rd EXCEPT !.i = @ + 1, !.got = {}].obj = rd.obj
  BY <1>1 DEF Readers
<1>4. /\ [rd EXCEPT !.pc = "send"] \in Readers
      /\ [rd EXCEPT !.pc = "send"].obj = rd.obj
  BY DEF Readers
<1> QED BY <1>2, <1>3, <1>4

LEMMA SetShape ==
  ASSUME ShapeInv, NEW c \in Clients, NEW k \in KeysOf[c], NEW v \in Vals,
         NEW n \in 1..MaxStripes, Set(c, k, v, n)
  PROVE  ShapeInv'
<1> k \in Keys
  BY KeysAssumption
<1> USE DEF ShapeInv, Set
<1>1. TypeOK'
  <2> USE DEF TypeOK
  <2>1. ClientTypeOK'
    BY BoundsAssumption DEF ClientTypeOK, JobTypeOK, Tokens
  <2>2. CoordTypeOK'
    BY DEF CoordTypeOK
  <2>3. JobTypeOK'
    BY BoundsAssumption DEF JobTypeOK
  <2>4. PlanTypeOK' /\ DataTypeOK' /\ ReadTypeOK' /\ NodeTypeOK'
    BY DEF PlanTypeOK, DataTypeOK, ReadTypeOK, NodeTypeOK
  <2> QED BY <2>1, <2>2, <2>3, <2>4
<1>2. JobShape'
  BY BoundsAssumption DEF TypeOK, ClientTypeOK, JobTypeOK, PlanTypeOK, JobShape
<1>3. ClientShape'
  BY BoundsAssumption DEF TypeOK, ClientTypeOK, JobTypeOK, JobShape, ClientShape
<1>4. SaveShape'
  BY BoundsAssumption DEF TypeOK, ClientTypeOK, JobTypeOK, JobShape, SaveShape
<1>5. KnownStripes'
  BY DEF KnownStripes, Known
<1> QED BY <1>1, <1>2, <1>3, <1>4, <1>5

LEMMA ConnectShape ==
  ASSUME ShapeInv, NEW c \in Clients, Connect(c)
  PROVE  ShapeInv'
<1> USE DEF ShapeInv, Connect
<1>1. TypeOK'
  <2> USE DEF TypeOK
  <2>1. ClientTypeOK'
    BY DEF ClientTypeOK
  <2>2. NodeTypeOK'
    <3> DEFINE conn == [key |-> jkey[cjob[c]], val |-> jval[cjob[c]]]
    <3>1. conn \in [key : Keys, val : Vals]
      BY BoundsAssumption DEF ClientTypeOK, JobTypeOK, JobShape, ClientShape
    <3>2. ASSUME NEW a \in AZs
          PROVE  Append(backlog[a], conn) \in Seq([key : Keys, val : Vals])
      BY <3>1, AppendProperties DEF NodeTypeOK
    <3> HIDE DEF conn
    <3>3. backlog' = [backlog EXCEPT ![jproxy[cjob[c]]] = Append(@, conn)]
      BY DEF conn
    <3>4. backlog \in [AZs -> Seq([key : Keys, val : Vals])]
      BY DEF NodeTypeOK
    <3>5. backlog' \in [AZs -> Seq([key : Keys, val : Vals])]
      BY <3>2, <3>3, <3>4, ZenonT(60)
    <3> QED BY <3>5 DEF NodeTypeOK
  <2>3. CoordTypeOK' /\ JobTypeOK' /\ PlanTypeOK' /\ DataTypeOK' /\ ReadTypeOK'
    BY DEF CoordTypeOK, JobTypeOK, PlanTypeOK, DataTypeOK, ReadTypeOK
  <2> QED BY <2>1, <2>2, <2>3
<1>2. JobShape'
  BY DEF JobShape
<1>3. ClientShape'
  BY DEF ClientShape, TypeOK, ClientTypeOK, JobTypeOK
<1>4. SaveShape'
  BY DEF SaveShape
<1>5. KnownStripes'
  BY DEF KnownStripes, Known
<1> QED BY <1>1, <1>2, <1>3, <1>4, <1>5

LEMMA CheckCommitAbortShape ==
  ASSUME ShapeInv, NEW c \in Clients, CheckCommitAbort(c)
  PROVE  ShapeInv'
<1> USE DEF ShapeInv, CheckCommitAbort
<1>1. TypeOK'
  <2> USE DEF TypeOK
  <2>1. ClientTypeOK'
    BY DEF ClientTypeOK, JobTypeOK, JobShape, ClientShape
  <2>2. CoordTypeOK' /\ JobTypeOK' /\ PlanTypeOK' /\ DataTypeOK' /\ ReadTypeOK' /\ NodeTypeOK'
    BY DEF CoordTypeOK, JobTypeOK, PlanTypeOK, DataTypeOK, ReadTypeOK, NodeTypeOK
  <2> QED BY <2>1, <2>2
<1>2. JobShape'
  BY DEF JobShape
<1>3. ClientShape'
  BY DEF ClientShape, TypeOK, ClientTypeOK
<1>4. SaveShape'
  BY DEF SaveShape
<1>5. KnownStripes'
  BY DEF KnownStripes, Known
<1> QED BY <1>1, <1>2, <1>3, <1>4, <1>5

LEMMA SetFailsShape ==
  ASSUME ShapeInv, NEW c \in Clients, SetFails(c)
  PROVE  ShapeInv'
<1> USE DEF ShapeInv, SetFails
<1>1. TypeOK'
  <2> USE DEF TypeOK
  <2>1. ClientTypeOK'
    BY DEF ClientTypeOK
  <2>2. CoordTypeOK' /\ JobTypeOK' /\ PlanTypeOK' /\ DataTypeOK' /\ ReadTypeOK' /\ NodeTypeOK'
    BY DEF CoordTypeOK, JobTypeOK, PlanTypeOK, DataTypeOK, ReadTypeOK, NodeTypeOK
  <2> QED BY <2>1, <2>2
<1>2. JobShape'
  BY DEF JobShape
<1>3. ClientShape'
  BY DEF ClientShape, TypeOK, ClientTypeOK
<1>4. SaveShape'
  BY DEF SaveShape
<1>5. KnownStripes'
  BY DEF KnownStripes, Known
<1> QED BY <1>1, <1>2, <1>3, <1>4, <1>5

LEMMA UploadEraseShape ==
  ASSUME ShapeInv, NEW j \in Jobs, UploadErase(j)
  PROVE  ShapeInv'
<1> USE DEF ShapeInv, UploadErase
<1>1. TypeOK'
  <2> USE DEF TypeOK
  <2>1. CoordTypeOK'
    BY DEF CoordTypeOK
  <2>2. JobTypeOK'
    BY DEF JobTypeOK
  <2>3. ClientTypeOK' /\ PlanTypeOK' /\ DataTypeOK' /\ ReadTypeOK' /\ NodeTypeOK'
    BY DEF ClientTypeOK, PlanTypeOK, DataTypeOK, ReadTypeOK, NodeTypeOK
  <2> QED BY <2>1, <2>2, <2>3
<1>2. JobShape'
  BY DEF JobShape, TypeOK, JobTypeOK
<1>3. ClientShape'
  BY DEF ClientShape, TypeOK, JobTypeOK, ClientTypeOK
<1>4. SaveShape'
  BY DEF SaveShape
<1>5. KnownStripes'
  BY DEF KnownStripes, Known, TypeOK, CoordTypeOK
<1> QED BY <1>1, <1>2, <1>3, <1>4, <1>5

LEMMA UploadLoadShape ==
  ASSUME ShapeInv, NEW j \in Jobs, UploadLoadStripeId(j)
  PROVE  ShapeInv'
<1> USE DEF ShapeInv, UploadLoadStripeId
<1>1. TypeOK'
  <2> USE DEF TypeOK
  <2>1. JobTypeOK'
    BY DEF JobTypeOK
  <2>2. PlanTypeOK'
    BY DEF PlanTypeOK, CoordTypeOK
  <2>3. ClientTypeOK' /\ CoordTypeOK' /\ DataTypeOK' /\ ReadTypeOK' /\ NodeTypeOK'
    BY DEF ClientTypeOK, CoordTypeOK, DataTypeOK, ReadTypeOK, NodeTypeOK
  <2> QED BY <2>1, <2>2, <2>3
<1>2. JobShape'
  BY DEF JobShape, TypeOK, JobTypeOK
<1>3. ClientShape'
  BY DEF ClientShape, TypeOK, JobTypeOK, ClientTypeOK
<1>4. SaveShape'
  BY DEF SaveShape
<1>5. KnownStripes'
  BY DEF KnownStripes, Known
<1> QED BY <1>1, <1>2, <1>3, <1>4, <1>5

LEMMA UploadStoreShape ==
  ASSUME ShapeInv, NEW j \in Jobs, UploadStoreStripeId(j)
  PROVE  ShapeInv'
<1> USE DEF ShapeInv, UploadStoreStripeId
<1>1. TypeOK'
  <2> USE DEF TypeOK
  <2> PICK p \in Placements :
        /\ stripeInfo' = [t \in DOMAIN stripeInfo \cup {jreg[j]} |->
                            IF t = jreg[j] THEN p ELSE stripeInfo[t]]
        /\ jplace' = [jplace EXCEPT ![j] = Append(@, p)]
    OBVIOUS
  <2>1. CoordTypeOK'
    <3>1. jreg[j] \in Nat /\ nextStripe' \in Nat
      <4>1. jreg[j] \in Nat
        BY DEF PlanTypeOK
      <4>2. nextStripe' = jreg[j] + 1
        OBVIOUS
      <4> QED BY <4>1, <4>2
    <3>2. /\ DOMAIN stripeInfo' \subseteq Nat
          /\ \A s \in DOMAIN stripeInfo' : stripeInfo'[s] \in Placements
      BY <3>1 DEF CoordTypeOK
    <3> QED BY <3>1, <3>2 DEF CoordTypeOK
  <2>2. JobTypeOK'
    BY DEF JobTypeOK
  <2>3. PlanTypeOK'
    <3>1. Append(jplace[j], p) \in Seq(Placements)
      BY AppendProperties DEF PlanTypeOK
    <3>2. Append(jstripes[j], jreg[j]) \in Seq(Nat)
      BY AppendProperties DEF PlanTypeOK
    <3> QED BY <3>1, <3>2 DEF PlanTypeOK
  <2>4. ClientTypeOK' /\ DataTypeOK' /\ ReadTypeOK' /\ NodeTypeOK'
    BY DEF ClientTypeOK, DataTypeOK, ReadTypeOK, NodeTypeOK
  <2> QED BY <2>1, <2>2, <2>3, <2>4
<1>2. JobShape'
  BY DEF JobShape, TypeOK, JobTypeOK, PlanTypeOK
<1>3. ClientShape'
  BY DEF ClientShape, TypeOK, JobTypeOK, ClientTypeOK
<1>4. SaveShape'
  BY DEF SaveShape, TypeOK, JobTypeOK, PlanTypeOK, JobShape, DataTypeOK
<1>5. KnownStripes'
  BY SMTT(30) DEF KnownStripes, Known, TypeOK, JobTypeOK, PlanTypeOK, CoordTypeOK, ReadTypeOK, Readers
<1> QED BY <1>1, <1>2, <1>3, <1>4, <1>5

LEMMA EncodeAndSetObjectShape ==
  ASSUME ShapeInv, NEW j \in Jobs, NEW a \in AZs, EncodeAndSetObject(j, a)
  PROVE  ShapeInv'
<1> USE DEF ShapeInv, EncodeAndSetObject
<1>1. TypeOK'
  <2> USE DEF TypeOK
  <2>1. JobTypeOK'
    BY DEF JobTypeOK
  <2>2. PlanTypeOK'
    BY DEF PlanTypeOK
  <2>3. ClientTypeOK' /\ CoordTypeOK' /\ DataTypeOK' /\ ReadTypeOK' /\ NodeTypeOK'
    BY DEF ClientTypeOK, CoordTypeOK, DataTypeOK, ReadTypeOK, NodeTypeOK
  <2> QED BY <2>1, <2>2, <2>3
<1>2. JobShape'
  BY DEF JobShape, TypeOK, JobTypeOK, PlanTypeOK
<1>3. ClientShape'
  BY DEF ClientShape, TypeOK, JobTypeOK, ClientTypeOK
<1>4. SaveShape'
  BY DEF SaveShape, TypeOK, JobTypeOK, JobShape
<1>5. KnownStripes'
  BY DEF KnownStripes, Known
<1> QED BY <1>1, <1>2, <1>3, <1>4, <1>5

LEMMA UploadPublishShape ==
  ASSUME ShapeInv, NEW j \in Jobs, UploadPublish(j)
  PROVE  ShapeInv'
<1> USE DEF ShapeInv, UploadPublish
<1>1. TypeOK'
  <2> USE DEF TypeOK
  <2>1. CoordTypeOK'
    BY DEF CoordTypeOK, PlanTypeOK, JobTypeOK
  <2>2. JobTypeOK'
    BY DEF JobTypeOK
  <2>3. ClientTypeOK' /\ PlanTypeOK' /\ DataTypeOK' /\ ReadTypeOK' /\ NodeTypeOK'
    BY DEF ClientTypeOK, PlanTypeOK, DataTypeOK, ReadTypeOK, NodeTypeOK
  <2> QED BY <2>1, <2>2, <2>3
<1>2. JobShape'
  BY DEF JobShape, TypeOK, JobTypeOK
<1>3. ClientShape'
  BY DEF ClientShape, TypeOK, JobTypeOK, ClientTypeOK
<1>4. SaveShape'
  BY DEF SaveShape
<1>5. KnownStripes'
  BY DEF KnownStripes, Known, TypeOK, JobTypeOK, CoordTypeOK
<1> QED BY <1>1, <1>2, <1>3, <1>4, <1>5

LEMMA AcceptShape ==
  ASSUME ShapeInv, NEW j \in Jobs, Accept(j)
  PROVE  ShapeInv'
<1> USE DEF ShapeInv, Accept
<1>1. /\ jproxy[j] \in AZs
      /\ Tail(backlog[jproxy[j]]) \in Seq([key : Keys, val : Vals])
      /\ jdata'[j] \in Content
  <2>1. jproxy[j] \in AZs
    BY DEF JobShape
  <2>2. /\ Head(backlog[jproxy[j]]) \in [key : Keys, val : Vals]
        /\ Tail(backlog[jproxy[j]]) \in Seq([key : Keys, val : Vals])
    BY <2>1, HeadTailProperties DEF TypeOK, NodeTypeOK
  <2> QED BY <2>1, <2>2 DEF TypeOK, DataTypeOK, Content
<1>2. TypeOK'
  <2> USE DEF TypeOK
  <2>1. JobTypeOK'
    BY DEF JobTypeOK
  <2>2. DataTypeOK'
    <3>1. (1..Len(jstripes[j])) \X Shards \subseteq Nat \X Shards
      BY LenProperties DEF PlanTypeOK
    <3> QED BY <1>1, <3>1 DEF DataTypeOK
  <2>3. NodeTypeOK'
    BY <1>1 DEF NodeTypeOK
  <2>4. ClientTypeOK' /\ CoordTypeOK' /\ PlanTypeOK' /\ ReadTypeOK'
    BY DEF ClientTypeOK, CoordTypeOK, PlanTypeOK, ReadTypeOK
  <2> QED BY <2>1, <2>2, <2>3, <2>4
<1>3. JobShape'
  BY DEF JobShape, TypeOK, JobTypeOK
<1>4. ClientShape'
  BY DEF ClientShape
<1>5. SaveShape'
  BY <1>1 DEF SaveShape, TypeOK, JobTypeOK, DataTypeOK
<1>6. KnownStripes'
  BY DEF KnownStripes, Known
<1> QED BY <1>2, <1>3, <1>4, <1>5, <1>6

LEMMA ReportShape ==
  ASSUME ShapeInv, NEW j \in Jobs, ReportCommitAbort(j)
  PROVE  ShapeInv'
<1> USE DEF ShapeInv, ReportCommitAbort
<1>1. TypeOK'
  <2> USE DEF TypeOK
  <2>1. CoordTypeOK'
    <3>1. ObjectOf(jkey[j]) \in Seq(Nat)
      BY DEF CoordTypeOK, JobShape, ObjectOf
    <3> QED BY <3>1 DEF CoordTypeOK
  <2>2. JobTypeOK'
    BY DEF JobTypeOK
  <2>3. ClientTypeOK' /\ PlanTypeOK' /\ DataTypeOK' /\ ReadTypeOK' /\ NodeTypeOK'
    BY DEF ClientTypeOK, PlanTypeOK, DataTypeOK, ReadTypeOK, NodeTypeOK
  <2> QED BY <2>1, <2>2, <2>3
<1>2. JobShape'
  BY DEF JobShape, TypeOK, JobTypeOK
<1>3. ClientShape'
  BY DEF ClientShape
<1>4. SaveShape'
  BY DEF SaveShape, TypeOK, JobTypeOK
<1>5. KnownStripes'
  BY DEF KnownStripes, Known, TypeOK, CoordTypeOK, ObjectOf
<1> QED BY <1>1, <1>2, <1>3, <1>4, <1>5

LEMMA GetShape ==
  ASSUME ShapeInv, NEW c \in Clients, NEW k \in KeysOf[c], Get(c, k)
  PROVE  ShapeInv'
<1> k \in Keys
  BY KeysAssumption
<1> USE DEF ShapeInv, Get
<1>1. TypeOK'
  <2> USE DEF TypeOK
  <2>1. ClientTypeOK'
    BY DEF ClientTypeOK, Tokens
  <2>2. ReadTypeOK'
    <3>1. [reader[c] EXCEPT !.round = gets + 1] \in Readers
      <4>1. reader[c] \in Readers /\ gets + 1 \in Nat
        BY BoundsAssumption DEF ReadTypeOK
      <4> QED BY <4>1, ReaderUpdates
    <3>2. gets' \in 0..MaxGets
      BY BoundsAssumption DEF ReadTypeOK
    <3> QED BY <3>1, <3>2 DEF ReadTypeOK
  <2>3. CoordTypeOK' /\ JobTypeOK' /\ PlanTypeOK' /\ DataTypeOK' /\ NodeTypeOK'
    BY DEF CoordTypeOK, JobTypeOK, PlanTypeOK, DataTypeOK, NodeTypeOK
  <2> QED BY <2>1, <2>2, <2>3
<1>2. JobShape'
  BY DEF JobShape
<1>3. ClientShape'
  BY DEF ClientShape, TypeOK, ClientTypeOK
<1>4. SaveShape'
  BY DEF SaveShape
<1>5. KnownStripes'
  BY DEF KnownStripes, Known, TypeOK, ReadTypeOK, Readers
<1> QED BY <1>1, <1>2, <1>3, <1>4, <1>5

LEMMA GetValueMissShape ==
  ASSUME ShapeInv, NEW c \in Clients, GetValueMiss(c)
  PROVE  ShapeInv'
<1> USE DEF ShapeInv, GetValueMiss
<1>1. TypeOK'
  <2> USE DEF TypeOK
  <2>1. ClientTypeOK'
    BY DEF ClientTypeOK
  <2>2. CoordTypeOK'
    BY DEF CoordTypeOK
  <2>3. JobTypeOK' /\ PlanTypeOK' /\ DataTypeOK' /\ ReadTypeOK' /\ NodeTypeOK'
    BY DEF JobTypeOK, PlanTypeOK, DataTypeOK, ReadTypeOK, NodeTypeOK
  <2> QED BY <2>1, <2>2, <2>3
<1>2. JobShape'
  BY DEF JobShape
<1>3. ClientShape'
  BY DEF ClientShape, TypeOK, ClientTypeOK
<1>4. SaveShape'
  BY DEF SaveShape
<1>5. KnownStripes'
  BY DEF KnownStripes, Known
<1> QED BY <1>1, <1>2, <1>3, <1>4, <1>5

LEMMA GetValueEmptyShape ==
  ASSUME ShapeInv, NEW c \in Clients, GetValueEmpty(c)
  PROVE  ShapeInv'
<1> USE DEF ShapeInv, GetValueEmpty
<1>1. TypeOK'
  <2> USE DEF TypeOK
  <2>1. ClientTypeOK'
    BY DEF ClientTypeOK
  <2>2. CoordTypeOK'
    BY DEF CoordTypeOK
  <2>3. JobTypeOK' /\ PlanTypeOK' /\ DataTypeOK' /\ ReadTypeOK' /\ NodeTypeOK'
    BY DEF JobTypeOK, PlanTypeOK, DataTypeOK, ReadTypeOK, NodeTypeOK
  <2> QED BY <2>1, <2>2, <2>3
<1>2. JobShape'
  BY DEF JobShape
<1>3. ClientShape'
  BY DEF ClientShape, TypeOK, ClientTypeOK
<1>4. SaveShape'
  BY DEF SaveShape
<1>5. KnownStripes'
  BY DEF KnownStripes, Known
<1> QED BY <1>1, <1>2, <1>3, <1>4, <1>5

LEMMA GetFailsShape ==
  ASSUME ShapeInv, NEW c \in Clients, GetFails(c)
  PROVE  ShapeInv'
<1> USE DEF ShapeInv, GetFails
<1>1. TypeOK'
  <2> USE DEF TypeOK
  <2>1. ClientTypeOK'
    BY DEF ClientTypeOK
  <2>2. CoordTypeOK' /\ JobTypeOK' /\ PlanTypeOK' /\ DataTypeOK' /\ ReadTypeOK' /\ NodeTypeOK'
    BY DEF CoordTypeOK, JobTypeOK, PlanTypeOK, DataTypeOK, ReadTypeOK, NodeTypeOK
  <2> QED BY <2>1, <2>2
<1>2. JobShape'
  BY DEF JobShape
<1>3. ClientShape'
  BY DEF ClientShape, TypeOK, ClientTypeOK
<1>4. SaveShape'
  BY DEF SaveShape
<1>5. KnownStripes'
  BY DEF KnownStripes, Known
<1> QED BY <1>1, <1>2, <1>3, <1>4, <1>5

LEMMA GetValueFoundShape ==
  ASSUME ShapeInv, NEW c \in Clients, GetValueFound(c)
  PROVE  ShapeInv'
<1> USE DEF ShapeInv, GetValueFound
<1>1. TypeOK'
  <2> USE DEF TypeOK
  <2>1. ClientTypeOK'
    BY DEF ClientTypeOK
  <2>2. ReadTypeOK'
    BY ShardsAssumption DEF ReadTypeOK, ClientTypeOK, CoordTypeOK, ClientShape, KnownStripes, Known, Readers, Requests, BlockReads, Tokens
  <2>3. CoordTypeOK' /\ JobTypeOK' /\ PlanTypeOK' /\ DataTypeOK' /\ NodeTypeOK'
    BY DEF CoordTypeOK, JobTypeOK, PlanTypeOK, DataTypeOK, NodeTypeOK
  <2> QED BY <2>1, <2>2, <2>3
<1>2. JobShape'
  BY DEF JobShape
<1>3. ClientShape'
  BY DEF ClientShape, TypeOK, ClientTypeOK
<1>4. SaveShape'
  BY DEF SaveShape
<1>5. KnownStripes'
  BY DEF KnownStripes, Known, TypeOK, ReadTypeOK, Readers, ClientShape
<1> QED BY <1>1, <1>2, <1>3, <1>4, <1>5

LEMMA GetFromMemcachedShape ==
  ASSUME ShapeInv, NEW r \in reads, GetFromMemcached(r)
  PROVE  ShapeInv'
<1> USE DEF ShapeInv, GetFromMemcached
<1>1. TypeOK'
  <2> USE DEF TypeOK
  <2>1. ReadTypeOK'
    <3>1. r \in Requests
      BY DEF ReadTypeOK
    <3>2. BlockRead(r) \in Tokens
      <4>1. Held(r) \subseteq Block
        BY <3>1 DEF Held, NodeTypeOK, Requests
      <4>2. ASSUME Held(r) # {}
            PROVE  (CHOOSE b \in Held(r) : TRUE).data \in Content
        BY <4>1, <4>2 DEF Block
      <4> QED BY <4>2 DEF BlockRead, Tokens
    <3>3. ASSUME NEW x \in Tokens, NEW acc \in Tokens
          PROVE  Merge(acc, x) \in Tokens
      BY DEF Merge, Tokens
    <3>4. /\ r.client \in Clients
          /\ [reader[r.client] EXCEPT !.got = @ \cup {r.shard},
                                     !.acc = Merge(@, BlockRead(r))] \in Readers
      BY <3>1, <3>2, <3>3 DEF ReadTypeOK, Readers, Requests
    <3> QED BY <3>4 DEF ReadTypeOK
  <2>2. NodeTypeOK'
    BY DEF NodeTypeOK, ReadTypeOK, Requests
  <2>3. ClientTypeOK' /\ CoordTypeOK' /\ JobTypeOK' /\ PlanTypeOK' /\ DataTypeOK'
    BY DEF ClientTypeOK, CoordTypeOK, JobTypeOK, PlanTypeOK, DataTypeOK
  <2> QED BY <2>1, <2>2, <2>3
<1>2. JobShape'
  BY DEF JobShape
<1>3. ClientShape'
  BY DEF ClientShape
<1>4. SaveShape'
  BY DEF SaveShape
<1>5. KnownStripes'
  BY DEF KnownStripes, Known, TypeOK, ReadTypeOK, Readers, Requests
<1> QED BY <1>1, <1>2, <1>3, <1>4, <1>5

LEMMA DecodeShape ==
  ASSUME ShapeInv, NEW c \in Clients, Decode(c)
  PROVE  ShapeInv'
<1> USE DEF ShapeInv, Decode
<1>1. TypeOK'
  <2> USE DEF TypeOK
  <2>1. ReadTypeOK'
    <3>1. /\ [reader[c] EXCEPT !.i = @ + 1, !.got = {}] \in Readers
          /\ [reader[c] EXCEPT !.pc = "send"] \in Readers
      <4>1. reader[c] \in Readers
        BY DEF ReadTypeOK
      <4> QED BY <4>1, ReaderUpdates
    <3>2. ASSUME reader[c].i < Len(reader[c].obj)
          PROVE  BlockReads(c, reader[c].obj, reader[c].i + 1) \subseteq Requests
      <4>1. reader[c].i + 1 \in 1..Len(reader[c].obj)
        BY <3>2 DEF ReadTypeOK, Readers
      <4>2. stripeInfo[reader[c].obj[reader[c].i + 1]] \in [Shards -> Nodes]
        BY <4>1, ShardsAssumption DEF KnownStripes, Known, CoordTypeOK
      <4> QED BY <4>1, <4>2 DEF BlockReads, Requests, ReadTypeOK, Readers
    <3> QED BY <3>1, <3>2 DEF ReadTypeOK
  <2>2. ClientTypeOK' /\ CoordTypeOK' /\ JobTypeOK' /\ PlanTypeOK' /\ DataTypeOK' /\ NodeTypeOK'
    BY DEF ClientTypeOK, CoordTypeOK, JobTypeOK, PlanTypeOK, DataTypeOK, NodeTypeOK
  <2> QED BY <2>1, <2>2
<1>2. JobShape'
  BY DEF JobShape
<1>3. ClientShape'
  BY DEF ClientShape
<1>4. SaveShape'
  BY DEF SaveShape
<1>5. KnownStripes'
  <2>1. ASSUME NEW d \in Clients
        PROVE  reader'[d].obj = reader[d].obj
    <3>1. reader \in [Clients -> Readers]
      BY DEF TypeOK, ReadTypeOK
    <3>2. \/ reader' = [reader EXCEPT ![c] = [reader[c] EXCEPT !.i = @ + 1, !.got = {}]]
          \/ reader' = [reader EXCEPT ![c] = [reader[c] EXCEPT !.pc = "send"]]
      BY <3>1
    <3>3. reader[c] \in Readers
      BY <3>1
    <3>4. CASE d = c
      BY <3>1, <3>2, <3>3, <3>4, ReaderUpdates
    <3>5. CASE d # c
      BY <3>1, <3>2, <3>5
    <3> QED BY <3>4, <3>5
  <2> QED BY <2>1 DEF KnownStripes, Known
<1> QED BY <1>1, <1>2, <1>3, <1>4, <1>5

LEMMA DeliverShape ==
  ASSUME ShapeInv, NEW c \in Clients, Deliver(c)
  PROVE  ShapeInv'
<1> USE DEF ShapeInv, Deliver
<1>1. TypeOK'
  <2> USE DEF TypeOK
  <2>1. ClientTypeOK'
    BY DEF ClientTypeOK, ReadTypeOK, Readers
  <2>2. ReadTypeOK'
    BY DEF ReadTypeOK, Readers, Idle, Tokens
  <2>3. CoordTypeOK' /\ JobTypeOK' /\ PlanTypeOK' /\ DataTypeOK' /\ NodeTypeOK'
    BY DEF CoordTypeOK, JobTypeOK, PlanTypeOK, DataTypeOK, NodeTypeOK
  <2> QED BY <2>1, <2>2, <2>3
<1>2. JobShape'
  BY DEF JobShape
<1>3. ClientShape'
  BY DEF ClientShape, TypeOK, ClientTypeOK
<1>4. SaveShape'
  BY DEF SaveShape
<1>5. KnownStripes'
  BY DEF KnownStripes, Known, TypeOK, ReadTypeOK, Readers, Idle
<1> QED BY <1>1, <1>2, <1>3, <1>4, <1>5

LEMMA CrashShape ==
  ASSUME ShapeInv, NEW n \in Nodes, Crash(n)
  PROVE  ShapeInv'
<1> USE DEF ShapeInv, Crash
<1>1. TypeOK'
  <2> USE DEF TypeOK
  <2>1. NodeTypeOK'
    BY DEF NodeTypeOK
  <2>2. ClientTypeOK' /\ CoordTypeOK' /\ JobTypeOK' /\ PlanTypeOK' /\ DataTypeOK' /\ ReadTypeOK'
    BY DEF ClientTypeOK, CoordTypeOK, JobTypeOK, PlanTypeOK, DataTypeOK, ReadTypeOK
  <2> QED BY <2>1, <2>2
<1>2. JobShape'
  BY DEF JobShape
<1>3. ClientShape'
  BY DEF ClientShape
<1>4. SaveShape'
  BY DEF SaveShape
<1>5. KnownStripes'
  BY DEF KnownStripes, Known
<1> QED BY <1>1, <1>2, <1>3, <1>4, <1>5

LEMMA SetToMemcachedShape ==
  ASSUME ShapeInv, NEW j \in Jobs, NEW t \in jtodo[j],
         SetToMemcached(j, t[1], t[2])
  PROVE  ShapeInv'
<1> USE DEF ShapeInv, SetToMemcached
<1> DEFINE b == [stripe |-> jstripes[j][t[1]], shard |-> t[2], data |-> jdata[j]]
<1>1. t[1] \in 1..Len(jstripes[j]) /\ t[2] \in Shards /\ t = <<t[1], t[2]>>
  BY DEF SaveShape
<1>2. b \in Block
  BY <1>1 DEF TypeOK, PlanTypeOK, SaveShape, Block
<1>3. TypeOK'
  <2> USE DEF TypeOK
  <2>1. DataTypeOK'
    BY DEF DataTypeOK
  <2>2. NodeTypeOK'
    BY <1>2 DEF NodeTypeOK, Replace
  <2>3. ClientTypeOK' /\ CoordTypeOK' /\ JobTypeOK' /\ PlanTypeOK' /\ ReadTypeOK'
    BY DEF ClientTypeOK, CoordTypeOK, JobTypeOK, PlanTypeOK, ReadTypeOK
  <2> QED BY <2>1, <2>2, <2>3
<1>4. JobShape' /\ ClientShape' /\ KnownStripes'
  BY DEF JobShape, ClientShape, KnownStripes, Known
<1>5. SaveShape'
  BY DEF SaveShape, TypeOK, DataTypeOK
<1> QED BY <1>3, <1>4, <1>5

LEMMA ShapeStep == ShapeInv /\ [Next]_vars => ShapeInv'
<1> SUFFICES ASSUME ShapeInv, [Next]_vars
             PROVE  ShapeInv'
  OBVIOUS
<1>1. ASSUME NEW c \in Clients, ClientStep(c) \/ GetValue(c) \/ Decode(c)
      PROVE  ShapeInv'
  BY <1>1, ConnectShape, CheckCommitAbortShape, SetFailsShape, DeliverShape,
     GetValueMissShape, GetValueEmptyShape, GetValueFoundShape, GetFailsShape,
     DecodeShape
     DEF ClientStep, GetValue
<1>2. ASSUME NEW c \in Clients, NEW k \in KeysOf[c], Get(c, k)
      PROVE  ShapeInv'
  BY <1>2, GetShape
<1>3. ASSUME NEW c \in Clients, NEW k \in KeysOf[c], NEW v \in Vals,
             NEW n \in 1..MaxStripes, Set(c, k, v, n)
      PROVE  ShapeInv'
  BY <1>3, SetShape
<1>4. ASSUME NEW j \in Jobs, UploadStep(j)
      PROVE  ShapeInv'
  BY <1>4, UploadEraseShape, UploadLoadShape, UploadStoreShape,
     EncodeAndSetObjectShape, UploadPublishShape
     DEF UploadStep
<1>5. ASSUME NEW j \in Jobs, ThreadStep(j)
      PROVE  ShapeInv'
  BY <1>5, AcceptShape, ReportShape, SetToMemcachedShape DEF ThreadStep
<1>6. ASSUME NEW r \in reads, GetFromMemcached(r)
      PROVE  ShapeInv'
  BY <1>6, GetFromMemcachedShape
<1>7. ASSUME NEW n \in Nodes, Crash(n)
      PROVE  ShapeInv'
  BY <1>7, CrashShape
<1>8. CASE UNCHANGED vars
  BY <1>8, Zenon DEF ShapeInv, TypeOK, ClientTypeOK, CoordTypeOK, JobTypeOK, PlanTypeOK,
     DataTypeOK, ReadTypeOK, NodeTypeOK, JobShape, ClientShape, SaveShape,
     KnownStripes, Known
<1> QED
  BY <1>1, <1>2, <1>3, <1>4, <1>5, <1>6, <1>7, <1>8 DEF Next, Finished

(* Every variable keeps its type, in every instance.                       *)
THEOREM TypeCorrect == Spec => []TypeOK
<1>1. ShapeInv => TypeOK
  BY DEF ShapeInv
<1> QED BY <1>1, InitShape, ShapeStep, PTL DEF Spec

-----------------------------------------------------------------------------
(* Safety, when the increments of the stripe counter do not overlap and no *)
(* two clients set the same key.                                           *)

(* The steps that are neither a new set nor a step of an upload handler.   *)
OtherStep ==
  \/ \E c \in Clients : \/ ClientStep(c) \/ GetValue(c) \/ Decode(c)
                        \/ \E k \in KeysOf[c] : Get(c, k)
  \/ \E j \in Jobs : ThreadStep(j)
  \/ \E r \in reads : GetFromMemcached(r)
  \/ \E n \in Nodes : Crash(n)
  \/ UNCHANGED vars

LEMMA NextCases ==
  ASSUME [Next]_vars
  PROVE  \/ \E c \in Clients : \E k \in KeysOf[c], v \in Vals, n \in 1..MaxStripes :
              Set(c, k, v, n)
         \/ \E j \in Jobs : UploadStep(j)
         \/ OtherStep
  BY Zenon DEF Next, OtherStep, Finished

LEMMA AllocFrame ==
  ASSUME OtherStep
  PROVE  UNCHANGED <<upc, allocVars, jstripes, jplace, jreg>>
  BY Zenon DEF OtherStep, ClientStep, ThreadStep, GetValue, Connect, CheckCommitAbort, SetFails, Deliver, Accept,
     ReportCommitAbort, SetToMemcached, GetValueMiss, GetValueEmpty,
     GetValueFound, GetFails, Get, GetFromMemcached, Decode, Crash

(* At most one handler is about to increment the counter of stripe ids, or *)
(* the increments do not overlap.                                          *)
Serial ==
  SerialAlloc \/ \A i, j \in Jobs : {upc[i], upc[j]} \subseteq {"load", "store"} => i = j

LEMMA AllocStep ==
  ASSUME ShapeInv, Serial, AllocInv, [Next]_vars
  PROVE  AllocInv'
<1> USE DEF ShapeInv, TypeOK, JobTypeOK, PlanTypeOK
<1>1. ASSUME NEW c \in Clients, NEW k \in KeysOf[c], NEW v \in Vals,
             NEW n \in 1..MaxStripes, Set(c, k, v, n)
      PROVE  AllocInv'
  BY <1>1 DEF Set, AllocInv
<1>2. ASSUME NEW j \in Jobs,
             \/ UploadErase(j) \/ UploadPublish(j)
             \/ \E a \in AZs : EncodeAndSetObject(j, a)
      PROVE  AllocInv'
  <2>1. /\ UNCHANGED <<allocVars, jstripes, jplace, jreg>>
        /\ \A i \in Jobs : upc'[i] = "store" => upc[i] = "store"
    BY <1>2 DEF UploadErase, UploadPublish, EncodeAndSetObject
  <2> QED BY <2>1 DEF AllocInv
<1>3. ASSUME NEW j \in Jobs, UploadLoadStripeId(j)
      PROVE  AllocInv'
  <2>1. \A i \in Jobs : upc[i] # "store"
    BY <1>3 DEF UploadLoadStripeId, Serial
  <2> QED BY <1>3, <2>1 DEF UploadLoadStripeId, AllocInv
<1>4. ASSUME NEW j \in Jobs, UploadStoreStripeId(j)
      PROVE  AllocInv'
  <2> USE DEF UploadStoreStripeId
  <2>1. PICK p \in Placements :
          /\ stripeInfo' = [t \in DOMAIN stripeInfo \cup {jreg[j]} |->
                              IF t = jreg[j] THEN p ELSE stripeInfo[t]]
          /\ jplace' = [jplace EXCEPT ![j] = Append(@, p)]
    BY <1>4
  <2>2. /\ jreg[j] = nextStripe /\ nextStripe' = nextStripe + 1 /\ nextStripe \in Nat
        /\ stripeInfo'[nextStripe] = p
    BY <1>4, <2>1 DEF AllocInv, CoordTypeOK
  <2>3. \A i \in Jobs : upc'[i] # "store"
    BY <1>4 DEF AllocInv
  <2>4. ASSUME NEW i \in Jobs, NEW x \in 1..Len(jstripes[i])
        PROVE  /\ jstripes[i][x] < nextStripe'
               /\ stripeInfo'[jstripes[i][x]] = jplace[i][x]
    <3>1. jstripes[i][x] \in DOMAIN stripeInfo /\ jstripes[i][x] \in Nat
      BY DEF KnownStripes, Known
    <3>2. jstripes[i][x] < nextStripe /\ stripeInfo[jstripes[i][x]] = jplace[i][x]
      BY DEF AllocInv
    <3> QED BY <2>1, <2>2, <3>1, <3>2
  <2>5. ASSUME NEW i \in Jobs, NEW x \in 1..Len(jstripes'[i])
        PROVE  /\ jstripes'[i][x] < nextStripe'
               /\ stripeInfo'[jstripes'[i][x]] = jplace'[i][x]
    <3>1. CASE i # j
      <4>1. jstripes'[i] = jstripes[i] /\ jplace'[i] = jplace[i]
        BY <1>4, <3>1
      <4> QED BY <2>4, <4>1
    <3>2. CASE i = j
      <4>1. /\ jstripes'[j] = Append(jstripes[j], nextStripe)
            /\ jplace'[j] = Append(jplace[j], p)
            /\ Len(jplace[j]) = Len(jstripes[j])
            /\ Len(jstripes'[j]) = Len(jstripes[j]) + 1
        BY <1>4, <2>1, <2>2 DEF JobShape
      <4>2. CASE x \in 1..Len(jstripes[j])
        <5>1. jstripes'[j][x] = jstripes[j][x] /\ jplace'[j][x] = jplace[j][x]
          BY <4>1, <4>2
        <5> QED BY <2>4, <3>2, <4>2, <5>1
      <4>3. CASE x = Len(jstripes[j]) + 1
        <5>1. jstripes'[j][x] = nextStripe /\ jplace'[j][x] = p
          BY <4>1, <4>3
        <5> QED BY <2>2, <3>2, <5>1
      <4>4. x \in 1..Len(jstripes[j]) \/ x = Len(jstripes[j]) + 1
        BY <3>2, <4>1
      <4> QED BY <4>2, <4>3, <4>4
    <3> QED BY <3>1, <3>2
  <2> QED BY <2>3, <2>5 DEF AllocInv
<1>5. CASE UNCHANGED <<upc, allocVars, jstripes, jplace, jreg>>
  BY <1>5 DEF AllocInv
<1> QED BY <1>1, <1>2, <1>3, <1>4, <1>5, NextCases, AllocFrame DEF UploadStep

(* A handler's new stripe id is larger than any handed out before.         *)
LEMMA OwnStep ==
  ASSUME ShapeInv, AllocInv, OwnInv, [Next]_vars
  PROVE  OwnInv'
<1> USE DEF ShapeInv, TypeOK, JobTypeOK, PlanTypeOK, CoordTypeOK
<1>1. CASE UNCHANGED jstripes
  BY <1>1 DEF OwnInv
<1>2. ASSUME NEW j \in Jobs, UploadStoreStripeId(j)
      PROVE  OwnInv'
  <2>1. /\ jstripes' = [jstripes EXCEPT ![j] = Append(@, nextStripe)]
        /\ nextStripe \in Nat
    BY <1>2 DEF UploadStoreStripeId, AllocInv
  <2>2. ASSUME NEW i \in Jobs, i # j,
               NEW x \in 1..Len(jstripes'[i]), NEW y \in 1..Len(jstripes'[j])
        PROVE  jstripes'[i][x] # jstripes'[j][y]
    <3>1. jstripes'[i] = jstripes[i] /\ jstripes'[j] = Append(jstripes[j], nextStripe)
      BY <2>1, <2>2
    <3>2. jstripes[i][x] \in Nat /\ jstripes[i][x] < nextStripe
      BY <2>2, <3>1 DEF AllocInv, KnownStripes, Known
    <3>3. CASE y \in 1..Len(jstripes[j])
      <4>1. jstripes'[j][y] = jstripes[j][y]
        BY <3>1, <3>3
      <4> QED BY <2>2, <3>1, <3>3, <4>1 DEF OwnInv
    <3>4. CASE y = Len(jstripes[j]) + 1
      <4>1. jstripes'[j][y] = nextStripe
        BY <3>1, <3>4
      <4> QED BY <3>1, <3>2, <4>1
    <3>5. y \in 1..Len(jstripes[j]) \/ y = Len(jstripes[j]) + 1
      BY <3>1
    <3> QED BY <3>3, <3>4, <3>5
  <2>3. ASSUME NEW i \in Jobs, NEW m \in Jobs, i # j, m # j, i # m,
               NEW x \in 1..Len(jstripes'[i]), NEW y \in 1..Len(jstripes'[m])
        PROVE  jstripes'[i][x] # jstripes'[m][y]
    <3>1. jstripes'[i] = jstripes[i] /\ jstripes'[m] = jstripes[m]
      BY <2>1, <2>3
    <3> QED BY <2>3, <3>1 DEF OwnInv
  <2> QED BY <2>2, <2>3 DEF OwnInv
<1>3. ASSUME NEW c \in Clients, NEW k \in KeysOf[c], NEW v \in Vals,
             NEW n \in 1..MaxStripes, Set(c, k, v, n)
      PROVE  UNCHANGED jstripes
  BY <1>3 DEF Set
<1>4. ASSUME NEW j \in Jobs,
             \/ UploadErase(j) \/ UploadLoadStripeId(j) \/ UploadPublish(j)
             \/ \E a \in AZs : EncodeAndSetObject(j, a)
      PROVE  UNCHANGED jstripes
  BY <1>4 DEF UploadErase, UploadLoadStripeId, UploadPublish, EncodeAndSetObject
<1> QED BY <1>1, <1>2, <1>3, <1>4, NextCases, AllocFrame DEF UploadStep

(* A block that is stored stays stored, and no datanode comes back.        *)
LEMMA NodeStep ==
  ASSUME ShapeInv, [Next]_vars
  PROVE  \A n \in Nodes :
           /\ up'[n] => up[n]
           /\ \A s, sh : Stored(s, sh, n) => Stored(s, sh, n)'
<1> USE DEF ShapeInv, TypeOK, NodeTypeOK
<1>1. ASSUME NEW j \in Jobs, NEW t \in jtodo[j], SetToMemcached(j, t[1], t[2]),
             NEW n \in Nodes
      PROVE  /\ up'[n] => up[n]
             /\ \A s, sh : Stored(s, sh, n) => Stored(s, sh, n)'
  BY <1>1, ZenonT(60) DEF SetToMemcached, Replace, Stored
<1>2. ASSUME NEW r \in reads, GetFromMemcached(r), NEW n \in Nodes
      PROVE  /\ up'[n] => up[n]
             /\ \A s, sh : Stored(s, sh, n) => Stored(s, sh, n)'
  <2>1. r.node \in Nodes /\ mem' = mem
    BY <1>2 DEF GetFromMemcached, ReadTypeOK, Requests
  <2>2. up' = [up EXCEPT ![r.node] = @ /\ Held(r) # {}]
    BY <1>2 DEF GetFromMemcached
  <2>3. up'[n] => up[n]
    BY <2>1, <2>2
  <2> QED BY <2>1, <2>3 DEF Stored
<1>3. ASSUME NEW m \in Nodes, Crash(m), NEW n \in Nodes
      PROVE  /\ up'[n] => up[n]
             /\ \A s, sh : Stored(s, sh, n) => Stored(s, sh, n)'
  BY <1>3 DEF Crash, Stored
<1>4. CASE UNCHANGED <<up, mem>>
  BY <1>4 DEF Stored
<1>5. \/ \E j \in Jobs : \E t \in jtodo[j] : SetToMemcached(j, t[1], t[2])
      \/ \E r \in reads : GetFromMemcached(r)
      \/ \E m \in Nodes : Crash(m)
      \/ UNCHANGED <<up, mem>>
  BY ZenonT(60) DEF Next, Connect, CheckCommitAbort, SetFails, Deliver, Accept,
     ReportCommitAbort, GetValueMiss, GetValueEmpty, GetValueFound, GetFails,
     Get, Set, UploadErase, UploadLoadStripeId, UploadStoreStripeId,
     EncodeAndSetObject, UploadPublish, Decode, Finished, ClientStep, GetValue,
     UploadStep, ThreadStep
<1> QED BY <1>1, <1>2, <1>3, <1>4, <1>5, SMTT(30)

(* The steps that change what a thread has to save.                        *)
LEMMA SaveFrame ==
  ASSUME [Next]_vars
  PROVE  \/ \E j \in Jobs : \/ UploadStoreStripeId(j) \/ Accept(j)
                            \/ ReportCommitAbort(j)
                            \/ \E a \in AZs : EncodeAndSetObject(j, a)
                            \/ \E t \in jtodo[j] : SetToMemcached(j, t[1], t[2])
         \/ UNCHANGED <<jstripes, jplace, tpc, jtodo>>
<1>1. ASSUME NEW c \in Clients, NEW k \in KeysOf[c], NEW v \in Vals,
             NEW n \in 1..MaxStripes, Set(c, k, v, n)
      PROVE  UNCHANGED <<jstripes, jplace, tpc, jtodo>>
  BY <1>1 DEF Set
<1>2. ASSUME NEW j \in Jobs, UploadStep(j)
      PROVE  \/ UploadStoreStripeId(j) \/ \E a \in AZs : EncodeAndSetObject(j, a)
             \/ UNCHANGED <<jstripes, jplace, tpc, jtodo>>
  BY <1>2 DEF UploadStep, UploadErase, UploadLoadStripeId, UploadPublish
<1>3. ASSUME OtherStep
      PROVE  \/ \E j \in Jobs : ThreadStep(j)
             \/ UNCHANGED <<jstripes, jplace, tpc, jtodo>>
  BY <1>3, ZenonT(60) DEF OtherStep, ClientStep, GetValue, Connect, CheckCommitAbort, SetFails,
     Deliver, GetValueMiss, GetValueEmpty, GetValueFound, GetFails, Get,
     GetFromMemcached, Decode, Crash
<1> QED BY <1>1, <1>2, <1>3, NextCases DEF ThreadStep

LEMMA SaveStep ==
  ASSUME ShapeInv, SaveInv, [Next]_vars
  PROVE  SaveInv'
<1>0. \A n \in Nodes : /\ up'[n] => up[n]
                      /\ \A st, sh : Stored(st, sh, n) => Stored(st, sh, n)'
  BY NodeStep
<1> USE DEF ShapeInv, TypeOK, JobTypeOK, PlanTypeOK, DataTypeOK
<1> DEFINE Safe(i, x, s) ==
      up[jplace[i][x][s]] => Stored(jstripes[i][x], s, jplace[i][x][s])
<1>1. ASSUME NEW i \in Jobs, NEW x \in 1..Len(jstripes[i]), NEW s \in Shards
      PROVE  jplace[i][x][s] \in Nodes
  <2>1. x \in 1..Len(jplace[i])
    BY DEF JobShape
  <2> QED BY <2>1, ShardsAssumption
<1>2. ASSUME NEW i \in Jobs, jstripes'[i] = jstripes[i], jplace'[i] = jplace[i],
             NEW x \in 1..Len(jstripes[i]), NEW s \in Shards, Safe(i, x, s)
      PROVE  Safe(i, x, s)'
  <2>1. jplace[i][x][s] \in Nodes /\ jstripes[i][x] \in Nat
    BY <1>1
  <2>2. PICK n \in Nodes, st \in Nat : n = jplace[i][x][s] /\ st = jstripes[i][x]
    BY <2>1
  <2>3. up[n] => Stored(st, s, n)
    BY <1>2, <2>2
  <2>4. up'[n] => \E b \in mem'[n] : b.stripe = st /\ b.shard = s
    <3> SUFFICES ASSUME up'[n]
                 PROVE  Stored(st, s, n)'
      BY DEF Stored
    <3> QED BY <1>0, <2>3
  <2>5. jplace'[i][x][s] = n /\ jstripes'[i][x] = st
    BY <1>2, <2>2
  <2> QED BY <2>4, <2>5 DEF Stored
<1>3. ASSUME NEW j \in Jobs,
             UploadStoreStripeId(j) \/ \E a \in AZs : EncodeAndSetObject(j, a)
      PROVE  SaveInv'
  <2>1. ASSUME NEW i \in Jobs, tpc'[i] \in {"save", "done"}
        PROVE  /\ i # j /\ tpc[i] = tpc'[i] /\ jtodo'[i] = jtodo[i]
               /\ jstripes'[i] = jstripes[i] /\ jplace'[i] = jplace[i]
    BY <1>3, <2>1 DEF UploadStoreStripeId, EncodeAndSetObject, JobShape
  <2> QED BY <1>2, <2>1 DEF SaveInv
<1>4. ASSUME NEW j \in Jobs, Accept(j)
      PROVE  SaveInv'
  <2>1. UNCHANGED <<jstripes, jplace>>
    BY <1>4 DEF Accept
  <2>2. jtodo'[j] = (1..Len(jstripes[j])) \X Shards
    BY <1>4 DEF Accept
  <2>3. ASSUME NEW i \in Jobs, i # j
        PROVE  tpc'[i] = tpc[i] /\ jtodo'[i] = jtodo[i]
    BY <1>4, <2>3 DEF Accept
  <2> QED BY <1>2, <2>1, <2>2, <2>3, ZenonT(60) DEF SaveInv
<1>5. ASSUME NEW j \in Jobs, NEW t \in jtodo[j], SetToMemcached(j, t[1], t[2])
      PROVE  SaveInv'
  <2>1. UNCHANGED <<jstripes, jplace, tpc>>
    BY <1>5 DEF SetToMemcached
  <2>2. /\ t[1] \in 1..Len(jstripes[j]) /\ t[2] \in Shards /\ t = <<t[1], t[2]>>
        /\ jplace[j][t[1]][t[2]] \in Nodes
    BY <1>1 DEF SaveShape
  <2>3. jtodo' = [jtodo EXCEPT ![j] = @ \ {t}]
    BY <1>5, <2>2 DEF SetToMemcached
  <2>4. Safe(j, t[1], t[2])'
    <3> DEFINE n == jplace[j][t[1]][t[2]]
               b == [stripe |-> jstripes[j][t[1]], shard |-> t[2], data |-> jdata[j]]
    <3>1. up' = up /\ (up[n] => mem' = [mem EXCEPT ![n] = Replace(@, b)])
      BY <1>5 DEF SetToMemcached
    <3>2. up[n] => b \in mem'[n]
      BY <2>2, <3>1 DEF Replace, NodeTypeOK
    <3>3. jplace'[j][t[1]][t[2]] = n /\ jstripes'[j][t[1]] = jstripes[j][t[1]]
      BY <2>1
    <3>4. up'[n] => \E y \in mem'[n] : y.stripe = jstripes[j][t[1]] /\ y.shard = t[2]
      BY <3>1, <3>2
    <3> HIDE DEF n
    <3> QED BY <3>3, <3>4 DEF Stored
  <2>5. ASSUME NEW i \in Jobs, tpc[i] \in {"save", "done"},
               NEW x \in 1..Len(jstripes[i]), NEW s \in Shards,
               <<x, s>> \notin jtodo'[i]
        PROVE  Safe(i, x, s)'
    <3>1. CASE i = j /\ <<x, s>> = t
      BY <2>4, <3>1
    <3>2. CASE <<x, s>> \notin jtodo[i]
      BY <1>2, <2>1, <2>5, <3>2 DEF SaveInv
    <3> QED BY <2>3, <2>5, <3>1, <3>2
  <2> QED BY <2>1, <2>5 DEF SaveInv
<1>6. ASSUME NEW j \in Jobs, ReportCommitAbort(j)
      PROVE  SaveInv'
  <2>1. UNCHANGED <<jstripes, jplace, jtodo>>
    BY <1>6 DEF ReportCommitAbort
  <2>2. \A i \in Jobs : tpc'[i] \in {"save", "done"} => tpc[i] \in {"save", "done"}
    BY <1>6 DEF ReportCommitAbort
  <2> QED BY <1>2, <2>1, <2>2 DEF SaveInv
<1>7. CASE UNCHANGED <<jstripes, jplace, tpc, jtodo>>
  BY <1>2, <1>7 DEF SaveInv
<1> QED BY <1>3, <1>4, <1>5, <1>6, <1>7, SaveFrame

(* Two jobs that are both unfinished are for different keys.               *)
LEMMA OneJobPerKey ==
  ASSUME ShapeInv, DisjointKeys, OwnerInv, coordUp,
         NEW i \in Jobs, NEW j \in Jobs, Owned(i), Owned(j), jkey[i] = jkey[j]
  PROVE  i = j
<1>1. PICK c \in Clients : cpc[c] \in InSet /\ cjob[c] = i
  BY DEF Owned
<1>2. PICK d \in Clients : cpc[d] \in InSet /\ cjob[d] = j
  BY DEF Owned
<1>3. jkey[i] \in KeysOf[c] /\ jkey[i] \in KeysOf[d]
  BY <1>1, <1>2 DEF OwnerInv
<1>4. c = d
  BY <1>3 DEF DisjointKeys
<1> QED BY <1>1, <1>2, <1>4

(* The steps OwnerInv does not notice.                                     *)
LEMMA OwnerFrame ==
  ASSUME OtherStep
  PROVE  \/ \E c \in Clients : CheckCommitAbort(c) \/ SetFails(c)
         \/ \E j \in Jobs : Accept(j) \/ ReportCommitAbort(j)
         \/ /\ UNCHANGED <<upc, tpc, jkey, commit, cjob>>
            /\ coordUp' => coordUp
            /\ \E c \in Clients :
                 /\ \/ cpc[c] \in InSet /\ cpc' = [cpc EXCEPT ![c] = "check"]
                    \/ cpc[c] \notin InSet
                       /\ \E pc \in {"idle", "lookup", "wait"} :
                            cpc' = [cpc EXCEPT ![c] = pc]
         \/ UNCHANGED <<upc, tpc, jkey, commit, cjob, cpc, coordUp>>
<1>1. ASSUME NEW c \in Clients,
             \/ Connect(c) \/ Deliver(c) \/ GetValue(c)
             \/ \E k \in KeysOf[c] : Get(c, k)
      PROVE  /\ UNCHANGED <<upc, tpc, jkey, commit, cjob>>
             /\ coordUp' => coordUp
             /\ \/ cpc[c] \in InSet /\ cpc' = [cpc EXCEPT ![c] = "check"]
                \/ cpc[c] \notin InSet
                   /\ \E pc \in {"idle", "lookup", "wait"} :
                        cpc' = [cpc EXCEPT ![c] = pc]
  BY <1>1, SMTT(30) DEF Connect, Deliver, GetValue, GetValueMiss, GetValueEmpty,
     GetValueFound, GetFails, Get
<1>2. ASSUME \/ \E c \in Clients : Decode(c)
             \/ \E j \in Jobs : \E t \in jtodo[j] : SetToMemcached(j, t[1], t[2])
             \/ \E r \in reads : GetFromMemcached(r)
             \/ \E n \in Nodes : Crash(n)
             \/ UNCHANGED vars
      PROVE  UNCHANGED <<upc, tpc, jkey, commit, cjob, cpc, coordUp>>
  BY <1>2 DEF Decode, SetToMemcached, GetFromMemcached, Crash
<1> QED BY <1>1, <1>2 DEF OtherStep, ClientStep, ThreadStep

LEMMA OwnerStep ==
  ASSUME ShapeInv, DisjointKeys, OwnerInv, [Next]_vars
  PROVE  OwnerInv'
<1>0. ShapeInv'
  BY ShapeStep
<1> USE DEF ShapeInv, TypeOK, ClientTypeOK, JobTypeOK, CoordTypeOK
<1>1. ASSUME NEW c \in Clients, NEW k \in KeysOf[c], NEW v \in Vals,
             NEW n \in 1..MaxStripes, Set(c, k, v, n)
      PROVE  OwnerInv'
  <2>1. \A d \in Clients : cpc[d] \in InSet => cjob[d] \in Jobs /\ cjob[d] # sets + 1
    BY BoundsAssumption DEF ClientShape
  <2>2. sets + 1 \in Jobs /\ cpc[c] = "idle"
    BY <1>1, BoundsAssumption DEF Set
  <2>3. /\ cpc' = [cpc EXCEPT ![c] = "upload"]
        /\ cjob' = [cjob EXCEPT ![c] = sets + 1]
        /\ upc' = [upc EXCEPT ![sets + 1] = "erase"]
        /\ jkey' = [jkey EXCEPT ![sets + 1] = k]
        /\ UNCHANGED <<commit, tpc, coordUp>>
    BY <1>1 DEF Set
  <2>4. ASSUME NEW j \in Jobs, Unfinished(j)', coordUp
        PROVE  Owned(j)'
    <3>1. CASE j = sets + 1
      BY <2>2, <2>3, <3>1 DEF Owned
    <3>2. CASE j # sets + 1
      <4>1. Owned(j)
        BY <2>3, <2>4, <3>2 DEF Unfinished, OwnerInv
      <4> QED BY <2>2, <2>3, <4>1 DEF Owned
    <3> QED BY <3>1, <3>2
  <2>5. ASSUME NEW d \in Clients, cpc'[d] \in InSet
        PROVE  /\ jkey'[cjob'[d]] \in KeysOf[d]
               /\ upc'[cjob'[d]] # "erase" /\ commit'[jkey'[cjob'[d]]] # Absent
                    => tpc'[cjob'[d]] = "done"
    <3>1. CASE d = c
      BY <2>2, <2>3, <3>1
    <3>2. CASE d # c
      BY <2>1, <2>3, <2>5, <3>2 DEF OwnerInv
    <3> QED BY <3>1, <3>2
  <2> QED BY <2>3, <2>4, <2>5 DEF OwnerInv
<1>2. ASSUME NEW c \in Clients, CheckCommitAbort(c) \/ SetFails(c)
      PROVE  OwnerInv'
  <2>1. /\ UNCHANGED <<upc, tpc, jkey, commit, cjob, coordUp>>
        /\ cpc' = [cpc EXCEPT ![c] = "idle"]
    BY <1>2 DEF CheckCommitAbort, SetFails
  <2>2. coordUp => ~ Unfinished(cjob[c])
    BY <1>2 DEF CheckCommitAbort, SetFails, Unfinished, OwnerInv, ClientShape
  <2>3. ASSUME NEW j \in Jobs, Unfinished(j), coordUp
        PROVE  Owned(j)'
    BY <2>1, <2>2, <2>3 DEF OwnerInv, Owned
  <2>4. \A j \in Jobs : Unfinished(j)' <=> Unfinished(j)
    BY <2>1 DEF Unfinished
  <2> QED BY <2>1, <2>3, <2>4 DEF OwnerInv
<1>3. ASSUME NEW j \in Jobs, UploadStep(j)
      PROVE  OwnerInv'
  <2>1. /\ UNCHANGED <<cpc, cjob, jkey, coordUp>>
        /\ \A i \in Jobs : i # j => upc'[i] = upc[i] /\ tpc'[i] = tpc[i]
        /\ upc[j] \notin {"unused", "replied"} /\ upc'[j] \notin {"unused", "erase"}
        /\ tpc[j] = "done" => tpc'[j] = "done"
    BY <1>3 DEF UploadStep, UploadErase, UploadLoadStripeId, UploadStoreStripeId,
       EncodeAndSetObject, UploadPublish, JobShape
  <2>2. \/ upc[j] = "erase" /\ commit' = [commit EXCEPT ![jkey[j]] = Absent]
        \/ upc[j] # "erase" /\ commit' = commit
    BY <1>3 DEF UploadStep, UploadErase, UploadLoadStripeId, UploadStoreStripeId,
       EncodeAndSetObject, UploadPublish
  <2>3. \A i \in Jobs : Unfinished(i)' => Unfinished(i)
    BY <2>1 DEF Unfinished
  <2>4. \A d \in Clients : cpc[d] \in InSet => cjob[d] \in Jobs /\ jkey[cjob[d]] \in Keys
    BY KeysAssumption, BoundsAssumption DEF ClientShape, OwnerInv
  <2>5. ASSUME NEW d \in Clients, cpc[d] \in InSet, upc'[cjob[d]] # "erase",
               commit'[jkey[cjob[d]]] # Absent
        PROVE  tpc'[cjob[d]] = "done"
    <3>1. commit[jkey[cjob[d]]] # Absent /\ upc[cjob[d]] # "erase"
      BY <2>1, <2>2, <2>4, <2>5
    <3>2. tpc[cjob[d]] = "done"
      BY <2>5, <3>1 DEF OwnerInv
    <3>3. cjob[d] \in Jobs
      BY <2>4, <2>5
    <3>4. CASE cjob[d] = j
      BY <2>1, <3>2, <3>4
    <3>5. CASE cjob[d] # j
      BY <2>1, <3>2, <3>3, <3>5
    <3> QED BY <3>4, <3>5
  <2>6. \A i \in Jobs : Owned(i)' <=> Owned(i)
    BY <2>1 DEF Owned
  <2>7. coordUp' => \A i \in Jobs : Unfinished(i)' => Owned(i)'
    BY <2>1, <2>3, <2>6 DEF OwnerInv
  <2>8. \A d \in Clients : cpc'[d] \in InSet =>
          /\ jkey'[cjob'[d]] \in KeysOf[d]
          /\ upc'[cjob'[d]] # "erase" /\ commit'[jkey'[cjob'[d]]] # Absent
               => tpc'[cjob'[d]] = "done"
    BY <2>1, <2>5 DEF OwnerInv
  <2> QED BY <2>7, <2>8 DEF OwnerInv
<1>4. ASSUME NEW j \in Jobs, Accept(j)
      PROVE  OwnerInv'
  <2>1. /\ UNCHANGED <<upc, jkey, commit, cjob, cpc, coordUp>>
        /\ tpc[j] = "accept" /\ tpc' = [tpc EXCEPT ![j] = "save"]
    BY <1>4 DEF Accept
  <2>2. \A i \in Jobs : Unfinished(i)' => Unfinished(i)
    BY <2>1 DEF Unfinished
  <2> QED BY <2>1, <2>2 DEF OwnerInv, Owned, ClientShape
<1>5. ASSUME NEW j \in Jobs, ReportCommitAbort(j)
      PROVE  OwnerInv'
  <2>1. /\ UNCHANGED <<upc, jkey, cjob, cpc>> /\ coordUp /\ coordUp'
        /\ tpc[j] = "save" /\ tpc' = [tpc EXCEPT ![j] = "done"]
        /\ \A k \in Keys : k # jkey[j] => commit'[k] = commit[k]
    BY <1>5 DEF ReportCommitAbort
  <2>2. \A i \in Jobs : Unfinished(i)' => Unfinished(i)
    BY <2>1 DEF Unfinished
  <2>3. Owned(j)
    BY <2>1 DEF OwnerInv, Unfinished, JobShape
  <2>4. \A d \in Clients : cpc[d] \in InSet => cjob[d] \in Jobs /\ jkey[cjob[d]] \in Keys
    BY KeysAssumption, BoundsAssumption DEF ClientShape, OwnerInv
  <2>5. ASSUME NEW d \in Clients, cpc[d] \in InSet, cjob[d] # j
        PROVE  jkey[cjob[d]] # jkey[j]
    <3>1. Owned(cjob[d])
      BY <2>5 DEF Owned
    <3> QED BY <2>1, <2>3, <2>4, <2>5, <3>1, OneJobPerKey
  <2> QED BY <2>1, <2>2, <2>4, <2>5 DEF OwnerInv, Owned
<1>6. ASSUME NEW c \in Clients, UNCHANGED <<upc, tpc, jkey, commit, cjob>>,
             coordUp' => coordUp,
             \/ cpc[c] \in InSet /\ cpc' = [cpc EXCEPT ![c] = "check"]
             \/ cpc[c] \notin InSet
                /\ \E pc \in {"idle", "lookup", "wait"} : cpc' = [cpc EXCEPT ![c] = pc]
      PROVE  OwnerInv'
  <2>1. \A d \in Clients : cpc'[d] \in InSet <=> cpc[d] \in InSet
    BY <1>6
  <2> QED BY <1>6, <2>1 DEF OwnerInv, Unfinished, Owned
<1>7. CASE UNCHANGED <<upc, tpc, jkey, commit, cjob, cpc, coordUp>>
  BY <1>7 DEF OwnerInv, Unfinished, Owned
<1>8. ASSUME OtherStep
      PROVE  OwnerInv'
  BY <1>2, <1>4, <1>5, <1>6, <1>7, <1>8, OwnerFrame
<1> QED BY <1>1, <1>3, <1>8, NextCases

(* The other steps TableInv does not notice.                               *)
LEMMA TableFrame ==
  ASSUME OtherStep
  PROVE  \/ \E j \in Jobs : ThreadStep(j)
         \/ UNCHANGED <<commit, updating, upc, tpc, jkey, jstripes>>
<1>1. ASSUME NEW c \in Clients,
             \/ ClientStep(c) \/ GetValue(c) \/ \E k \in KeysOf[c] : Get(c, k)
      PROVE  UNCHANGED <<commit, updating, upc, tpc, jkey, jstripes>>
  BY <1>1 DEF ClientStep, GetValue, Connect, CheckCommitAbort, SetFails, Deliver,
     GetValueMiss, GetValueEmpty, GetValueFound, GetFails, Get
<1>2. ASSUME \/ \E c \in Clients : Decode(c)
             \/ \E r \in reads : GetFromMemcached(r)
             \/ \E n \in Nodes : Crash(n)
             \/ UNCHANGED vars
      PROVE  UNCHANGED <<commit, updating, upc, tpc, jkey, jstripes>>
  BY <1>2 DEF Decode, GetFromMemcached, Crash
<1> QED BY <1>1, <1>2 DEF OtherStep

(* TableInv depends on no job that is neither replied nor done.            *)
LEMMA SameTables ==
  ASSUME TableInv, UNCHANGED <<commit, updating>>,
         \A j \in Jobs : tpc[j] = "done" \/ upc[j] = "replied" =>
           /\ jkey'[j] = jkey[j] /\ upc'[j] = upc[j]
           /\ tpc'[j] = tpc[j] /\ jstripes'[j] = jstripes[j]
  PROVE  TableInv'
<1>1. ASSUME NEW k \in Keys
      PROVE  \/ commit[k] \in {Absent, <<>>}
             \/ \E j \in Jobs : jkey'[j] = k /\ tpc'[j] = "done" /\ commit[k] = jstripes'[j]
  BY DEF TableInv
<1>2. ASSUME NEW k \in Keys
      PROVE  \/ updating[k] = Absent
             \/ \E j \in Jobs : jkey'[j] = k /\ upc'[j] = "replied" /\ updating[k] = jstripes'[j]
  BY DEF TableInv
<1> QED BY <1>1, <1>2 DEF TableInv

LEMMA TableStep ==
  ASSUME ShapeInv, DisjointKeys, OwnerInv, TableInv, [Next]_vars
  PROVE  TableInv'
<1> USE DEF ShapeInv, TypeOK, ClientTypeOK, JobTypeOK, CoordTypeOK, PlanTypeOK
<1>1. ASSUME NEW c \in Clients, NEW k \in KeysOf[c], NEW v \in Vals,
             NEW n \in 1..MaxStripes, Set(c, k, v, n)
      PROVE  TableInv'
  <2>1. /\ UNCHANGED <<commit, updating, tpc, jstripes>>
        /\ \A j \in Jobs : j # sets + 1 => jkey'[j] = jkey[j] /\ upc'[j] = upc[j]
    BY <1>1 DEF Set
  <2>2. \A j \in Jobs : j = sets + 1 => upc[j] = "unused" /\ tpc[j] = "none"
    <3> SUFFICES ASSUME NEW j \in Jobs, j = sets + 1
                 PROVE  upc[j] = "unused" /\ tpc[j] = "none"
      OBVIOUS
    <3>1. j > sets
      BY BoundsAssumption
    <3>2. upc[j] = "unused"
      BY <3>1 DEF JobShape
    <3> QED BY <3>2 DEF JobShape
  <2>3. \A j \in Jobs : tpc[j] = "done" \/ upc[j] = "replied" =>
          /\ jkey'[j] = jkey[j] /\ upc'[j] = upc[j]
          /\ tpc'[j] = tpc[j] /\ jstripes'[j] = jstripes[j]
    BY <2>1, <2>2
  <2> QED BY <2>1, <2>3, SameTables DEF TableInv
<1>2. ASSUME NEW j \in Jobs, UploadErase(j)
      PROVE  TableInv'
  BY <1>2 DEF UploadErase, TableInv
<1>3. ASSUME NEW j \in Jobs,
             \/ UploadLoadStripeId(j) \/ UploadStoreStripeId(j)
             \/ \E a \in AZs : EncodeAndSetObject(j, a)
      PROVE  TableInv'
  <2>1. /\ UNCHANGED <<commit, updating, jkey>>
        /\ \A i \in Jobs : i # j =>
             upc'[i] = upc[i] /\ tpc'[i] = tpc[i] /\ jstripes'[i] = jstripes[i]
        /\ upc[j] # "replied" /\ tpc[j] # "done"
    BY <1>3 DEF UploadLoadStripeId, UploadStoreStripeId, EncodeAndSetObject, JobShape
  <2>2. \A i \in Jobs : tpc[i] = "done" \/ upc[i] = "replied" =>
          /\ jkey'[i] = jkey[i] /\ upc'[i] = upc[i]
          /\ tpc'[i] = tpc[i] /\ jstripes'[i] = jstripes[i]
    BY <2>1
  <2> QED BY <2>1, <2>2, SameTables DEF TableInv
<1>4. ASSUME NEW j \in Jobs, UploadPublish(j)
      PROVE  TableInv'
  BY <1>4 DEF UploadPublish, TableInv
<1>5. ASSUME NEW j \in Jobs, Accept(j)
      PROVE  TableInv'
  BY <1>5 DEF Accept, TableInv
<1>6. ASSUME NEW j \in Jobs, ReportCommitAbort(j)
      PROVE  TableInv'
  <2>1. /\ UNCHANGED <<upc, jkey, jstripes>> /\ coordUp
        /\ tpc[j] = "save" /\ tpc' = [tpc EXCEPT ![j] = "done"]
        /\ commit' = [commit EXCEPT ![jkey[j]] = ObjectOf(jkey[j])]
        /\ updating' = [updating EXCEPT ![jkey[j]] = Absent]
    BY <1>6 DEF ReportCommitAbort
  <2>2. Owned(j)
    BY <2>1 DEF OwnerInv, Unfinished, JobShape
  <2>3. ASSUME NEW i \in Jobs, jkey[i] = jkey[j], upc[i] = "replied"
        PROVE  tpc'[i] = "done"
    <3>1. CASE tpc[i] = "done"
      BY <2>1, <3>1
    <3>2. CASE tpc[i] # "done"
      <4>1. Owned(i)
        BY <2>1, <2>3, <3>2 DEF OwnerInv, Unfinished
      <4>2. i = j
        BY <2>1, <2>2, <2>3, <4>1, OneJobPerKey
      <4> QED BY <2>1, <4>2
    <3> QED BY <3>1, <3>2
  <2>4. ASSUME NEW k \in Keys
        PROVE  \/ commit'[k] \in {Absent, <<>>}
               \/ \E i \in Jobs : /\ jkey'[i] = k /\ tpc'[i] = "done"
                                  /\ commit'[k] = jstripes'[i]
    <3>1. CASE k = jkey[j]
      BY <2>1, <2>3, <3>1 DEF TableInv, ObjectOf
    <3>2. CASE k # jkey[j]
      BY <2>1, <3>2 DEF TableInv
    <3> QED BY <3>1, <3>2
  <2>5. \A k \in Keys : updating'[k] \in {Absent, updating[k]}
    BY <2>1
  <2> QED BY <2>1, <2>4, <2>5 DEF TableInv
<1>7. ASSUME NEW j \in Jobs, NEW t \in jtodo[j], SetToMemcached(j, t[1], t[2])
      PROVE  TableInv'
  BY <1>7 DEF SetToMemcached, TableInv
<1>8. CASE UNCHANGED <<commit, updating, upc, tpc, jkey, jstripes>>
  BY <1>8 DEF TableInv
<1> QED BY <1>1, <1>2, <1>3, <1>4, <1>5, <1>6, <1>7, <1>8, NextCases, TableFrame
        DEF UploadStep, ThreadStep

LEMMA InitSafe == Init => SafeInv
<1> SUFFICES ASSUME Init
             PROVE  SafeInv
  OBVIOUS
<1>1. ShapeInv
  BY InitShape
<1>2. AllocInv /\ OwnInv /\ SaveInv /\ OwnerInv /\ TableInv
  BY DEF Init, AllocInv, OwnInv, SaveInv, OwnerInv, Unfinished, TableInv
<1> QED BY <1>1, <1>2 DEF SafeInv

LEMMA SafeStep ==
  ASSUME DisjointKeys
  PROVE  Serial /\ SafeInv /\ [Next]_vars => SafeInv'
BY ShapeStep, AllocStep, OwnStep, SaveStep, OwnerStep, TableStep DEF SafeInv

LEMMA SafeAlways ==
  ASSUME SerialAlloc, DisjointKeys
  PROVE  Spec => []SafeInv
<1>1. SafeInv /\ [Next]_vars => SafeInv'
  BY SafeStep DEF Serial
<1> QED BY <1>1, InitSafe, PTL DEF Spec

(* With disjoint keys and stripe ids handed out one at a time, the         *)
(* coordinator never commits an object before every block of it is stored  *)
(* or its datanode is down, whichever threads take whichever connections,  *)
(* whichever reports overtake the publication of their object and whichever *)
(* datanodes fail.                                                         *)
THEOREM CommitSafe ==
  ASSUME SerialAlloc, DisjointKeys
  PROVE  Spec => []CommittedIsStored
<1>1. ASSUME SafeInv
      PROVE  CommittedIsStored
  <2> USE <1>1 DEF SafeInv, ShapeInv, TypeOK, CoordTypeOK, PlanTypeOK, JobTypeOK
  <2>1. ASSUME NEW k \in Keys, commit[k] # Absent,
               NEW i \in 1..Len(commit[k]), NEW sh \in Shards,
               up[stripeInfo[commit[k][i]][sh]]
        PROVE  Stored(commit[k][i], sh, stripeInfo[commit[k][i]][sh])
    <3>1. PICK j \in Jobs : tpc[j] = "done" /\ commit[k] = jstripes[j]
      BY <2>1 DEF TableInv
    <3>2. jtodo[j] = {}
      BY <3>1 DEF SaveShape
    <3>3. stripeInfo[jstripes[j][i]] = jplace[j][i]
      BY <2>1, <3>1 DEF AllocInv
    <3>4. up[jplace[j][i][sh]] => Stored(jstripes[j][i], sh, jplace[j][i][sh])
      BY <2>1, <3>1, <3>2 DEF SaveInv
    <3> QED BY <2>1, <3>1, <3>3, <3>4
  <2> QED BY <2>1 DEF CommittedIsStored
<1> QED BY <1>1, SafeAlways, PTL

(* Under the same assumptions the entry a waiting set finds in the commit  *)
(* table was made by its own thread.                                       *)
THEOREM CommitOwnSafe ==
  ASSUME SerialAlloc, DisjointKeys
  PROVE  Spec => []CommitIsOwn
<1>1. SafeInv => CommitIsOwn
  BY DEF SafeInv, ShapeInv, ClientShape, OwnerInv, CommitIsOwn
<1> QED BY <1>1, SafeAlways, PTL

-----------------------------------------------------------------------------
(* Every connection finds a thread, in every instance.                     *)

LEMMA BalanceFinite ==
  ASSUME ShapeInv, UploadInv, NEW a
  PROVE  IsFiniteSet(Accepting(a)) /\ IsFiniteSet(Coming(a))
<1>1. IsFiniteSet(Jobs)
  BY BoundsAssumption, FS_Interval
<1>2. IsFiniteSet(Accepting(a))
  BY <1>1, FS_Subset DEF Accepting
<1>3. IsFiniteSet(Coming(a))
  <2> DEFINE f == [c \in Coming(a) |-> cjob[c]]
  <2>1. \A c \in Coming(a) : cjob[c] \in Jobs /\ c \in Clients /\ cpc[c] = "upload"
    BY BoundsAssumption DEF Coming, ShapeInv, ClientShape, TypeOK, JobTypeOK
  <2>2. f \in [Coming(a) -> Jobs]
    BY <2>1
  <2>3. \A c, d \in Coming(a) : f[c] = f[d] => c = d
    BY <2>1 DEF UploadInv
  <2>4. f \in Injection(Coming(a), Jobs)
    BY <2>2, <2>3 DEF Injection, IsInjective
  <2> HIDE DEF f
  <2> QED BY <1>1, <2>4, FS_Injection
<1> QED BY <1>2, <1>3

(* A step that takes a client neither into nor out of upload, and no job   *)
(* into or out of the handler's last two places.                           *)
Uninvolved ==
  /\ coordUp' => coordUp
  /\ UNCHANGED <<backlog, jproxy>>
  /\ \A c \in Clients : /\ cpc'[c] = "upload" <=> cpc[c] = "upload"
                        /\ cpc[c] = "upload" => cjob'[c] = cjob[c]
  /\ \A j \in Jobs : /\ upc[j] \in {"erase", "load", "store", "rpc"} <=>
                        upc'[j] \in {"erase", "load", "store", "rpc"}
                     /\ upc[j] \in {"publish", "replied"} <=>
                        upc'[j] \in {"publish", "replied"}
                     /\ tpc'[j] = "accept" <=> tpc[j] = "accept"

LEMMA UninvolvedKeeps ==
  ASSUME ShapeInv, UploadInv, AcceptBalance, Uninvolved
  PROVE  UploadInv' /\ AcceptBalance'
<1>1. \A c \in Clients : cpc[c] = "upload" => cjob[c] \in Jobs
  BY BoundsAssumption DEF ShapeInv, ClientShape, TypeOK, JobTypeOK
<1>2. UploadInv'
  BY DEF UploadInv, Uninvolved
<1>3. \A a \in AZs : Accepting(a)' = Accepting(a) /\ Coming(a)' = Coming(a)
  BY <1>1 DEF Accepting, Coming, Uninvolved
<1>4. AcceptBalance'
  <2> SUFFICES ASSUME coordUp', NEW a \in AZs
               PROVE  Cardinality(Accepting(a)') =
                        Len(backlog'[a]) + Cardinality(Coming(a)')
    BY DEF AcceptBalance, Accepting, Coming
  <2>1. Cardinality(Accepting(a)) = Len(backlog[a]) + Cardinality(Coming(a))
    BY DEF AcceptBalance, Accepting, Coming, Uninvolved
  <2> QED BY <1>3, <2>1 DEF Uninvolved
<1> QED BY <1>2, <1>4

(* The steps that involve nothing of the balance.                          *)
LEMMA BalanceFrame ==
  ASSUME ShapeInv, [Next]_vars
  PROVE  \/ \E c \in Clients : \E k \in KeysOf[c], v \in Vals, n \in 1..MaxStripes :
              Set(c, k, v, n)
         \/ \E c \in Clients : Connect(c) \/ SetFails(c)
         \/ \E j \in Jobs, a \in AZs : EncodeAndSetObject(j, a)
         \/ \E j \in Jobs : Accept(j)
         \/ Uninvolved
<1> USE DEF ShapeInv, TypeOK, ClientTypeOK, JobTypeOK
<1>1. ASSUME NEW c \in Clients,
             \/ CheckCommitAbort(c) \/ Deliver(c) \/ GetValue(c)
             \/ \E k \in KeysOf[c] : Get(c, k)
      PROVE  Uninvolved
  <2>1. /\ coordUp' => coordUp
        /\ UNCHANGED <<backlog, jproxy, cjob, upc, tpc>>
        /\ cpc[c] # "upload"
        /\ \E pc \in ClientPC \ {"upload"} : cpc' = [cpc EXCEPT ![c] = pc]
    BY <1>1 DEF CheckCommitAbort, Deliver, GetValue, GetValueMiss, GetValueEmpty,
       GetValueFound, GetFails, Get
  <2> QED BY <2>1 DEF Uninvolved
<1>2. ASSUME NEW j \in Jobs,
             UploadErase(j) \/ UploadLoadStripeId(j) \/ UploadStoreStripeId(j)
             \/ UploadPublish(j)
      PROVE  Uninvolved
  <2>1. UNCHANGED <<coordUp, backlog, jproxy, cpc, cjob, tpc>>
    BY <1>2 DEF UploadErase, UploadLoadStripeId, UploadStoreStripeId, UploadPublish
  <2>2. \E pc \in UploadPC :
          /\ upc' = [upc EXCEPT ![j] = pc]
          /\ \/ {upc[j], pc} \subseteq {"erase", "load", "store", "rpc"}
             \/ {upc[j], pc} \subseteq {"publish", "replied"}
    <3>1. CASE UploadErase(j)
      BY <3>1 DEF UploadErase
    <3>2. CASE UploadLoadStripeId(j)
      BY <3>2 DEF UploadLoadStripeId
    <3>3. CASE UploadStoreStripeId(j)
      <4>1. upc[j] = "store" /\ \/ upc' = [upc EXCEPT ![j] = "load"]
                                \/ upc' = [upc EXCEPT ![j] = "rpc"]
        BY <3>3 DEF UploadStoreStripeId
      <4> QED BY <4>1
    <3>4. CASE UploadPublish(j)
      BY <3>4 DEF UploadPublish
    <3> QED BY <1>2, <3>1, <3>2, <3>3, <3>4
  <2>3. \A i \in Jobs :
          /\ upc[i] \in {"erase", "load", "store", "rpc"} <=>
             upc'[i] \in {"erase", "load", "store", "rpc"}
          /\ upc[i] \in {"publish", "replied"} <=> upc'[i] \in {"publish", "replied"}
    BY <2>2
  <2> QED BY <2>1, <2>3 DEF Uninvolved
<1>3. ASSUME NEW j \in Jobs,
             ReportCommitAbort(j) \/ \E t \in jtodo[j] : SetToMemcached(j, t[1], t[2])
      PROVE  Uninvolved
  <2>1. UNCHANGED <<coordUp, backlog, jproxy, cpc, cjob, upc>>
    BY <1>3 DEF ReportCommitAbort, SetToMemcached
  <2>2. tpc' = tpc \/ (tpc[j] = "save" /\ tpc' = [tpc EXCEPT ![j] = "done"])
    BY <1>3 DEF ReportCommitAbort, SetToMemcached
  <2> QED BY <2>1, <2>2 DEF Uninvolved
<1>4. ASSUME \/ \E c \in Clients : Decode(c)
             \/ \E r \in reads : GetFromMemcached(r)
             \/ \E n \in Nodes : Crash(n)
             \/ UNCHANGED vars
      PROVE  Uninvolved
  <2>1. UNCHANGED <<coordUp, backlog, jproxy, cpc, cjob, upc, tpc>>
    BY <1>4 DEF Decode, GetFromMemcached, Crash
  <2> QED BY <2>1 DEF Uninvolved
<1>5. ASSUME NEW j \in Jobs, UploadStep(j)
      PROVE  Uninvolved \/ \E a \in AZs : EncodeAndSetObject(j, a)
  BY <1>2, <1>5 DEF UploadStep
<1>6. ASSUME OtherStep
      PROVE  \/ \E c \in Clients : Connect(c) \/ SetFails(c)
             \/ \E j \in Jobs : Accept(j)
             \/ Uninvolved
  BY <1>1, <1>3, <1>4, <1>6, Zenon DEF OtherStep, ClientStep, ThreadStep
<1> HIDE DEF ShapeInv, TypeOK, ClientTypeOK, JobTypeOK
<1> QED BY <1>5, <1>6, NextCases

LEMMA BalanceStep ==
  ASSUME BalanceInv, [Next]_vars
  PROVE  BalanceInv'
<1>0. ShapeInv /\ UploadInv /\ AcceptBalance /\ ShapeInv'
  BY ShapeStep DEF BalanceInv
<1>a. ASSUME Uninvolved
      PROVE  BalanceInv'
  <2>1. UploadInv' /\ AcceptBalance'
    BY <1>0, <1>a, UninvolvedKeeps
  <2> QED BY <1>0, <2>1 DEF BalanceInv
<1> USE DEF ShapeInv, TypeOK, ClientTypeOK, JobTypeOK, PlanTypeOK, NodeTypeOK
<1>1. /\ \A c \in Clients : cpc[c] = "upload" => cjob[c] \in Jobs /\ cjob[c] # sets + 1
      /\ \A a \in AZs : Len(backlog[a]) \in Nat
  <2>1. \A c \in Clients : cpc[c] = "upload" => cjob[c] \in 1..sets
    BY <1>0 DEF ClientShape
  <2>2. \A x \in 1..sets : x \in Jobs /\ x # sets + 1
    BY <1>0, BoundsAssumption
  <2>3. \A a \in AZs : Len(backlog[a]) \in Nat
    BY <1>0
  <2> QED BY <2>1, <2>2, <2>3
<1>2. \A a : /\ IsFiniteSet(Accepting(a)) /\ IsFiniteSet(Coming(a))
             /\ Cardinality(Accepting(a)) \in Nat /\ Cardinality(Coming(a)) \in Nat
  BY <1>0, BalanceFinite, FS_CardinalityType
<1>3. coordUp => \A a \in AZs :
        Cardinality(Accepting(a)) = Len(backlog[a]) + Cardinality(Coming(a))
  <2> SUFFICES ASSUME coordUp, NEW a \in AZs
               PROVE  Cardinality(Accepting(a)) =
                        Len(backlog[a]) + Cardinality(Coming(a))
    OBVIOUS
  <2>1. AcceptBalance
    BY <1>0
  <2> QED BY <2>1 DEF AcceptBalance, Accepting, Coming
<1>4. ASSUME coordUp' => \A a \in AZs :
               Cardinality(Accepting(a)') = Len(backlog'[a]) + Cardinality(Coming(a)')
      PROVE  AcceptBalance'
  BY <1>4 DEF AcceptBalance, Accepting, Coming
<1>5. ASSUME NEW c \in Clients, NEW k \in KeysOf[c], NEW v \in Vals,
             NEW n \in 1..MaxStripes, Set(c, k, v, n)
      PROVE  UploadInv' /\ AcceptBalance'
  <2>1. /\ coordUp /\ cpc[c] = "idle" /\ sets + 1 \in Jobs
        /\ cpc' = [cpc EXCEPT ![c] = "upload"]
        /\ cjob' = [cjob EXCEPT ![c] = sets + 1]
        /\ upc' = [upc EXCEPT ![sets + 1] = "erase"]
        /\ UNCHANGED <<backlog, jproxy, tpc>>
    BY <1>0, <1>5, BoundsAssumption DEF Set
  <2>2. UploadInv'
    <3>1. \A d, e \in Clients :
            cpc'[d] = "upload" /\ cpc'[e] = "upload" /\ cjob'[d] = cjob'[e] => d = e
      BY <1>0, <1>1, <2>1 DEF UploadInv
    <3>2. ASSUME NEW j \in Jobs, upc'[j] \in {"erase", "load", "store", "rpc"}
          PROVE  \E d \in Clients : cpc'[d] = "upload" /\ cjob'[d] = j
      <4>1. CASE j = sets + 1
        BY <1>0, <2>1, <4>1
      <4>2. CASE j # sets + 1
        <5>1. PICK d \in Clients : cpc[d] = "upload" /\ cjob[d] = j
          BY <1>0, <2>1, <3>2, <4>2 DEF UploadInv
        <5> QED BY <1>0, <2>1, <5>1
      <4> QED BY <4>1, <4>2
    <3> QED BY <3>1, <3>2 DEF UploadInv
  <2>3. ASSUME NEW d \in Clients
        PROVE  /\ cpc'[d] = "upload" /\ upc'[cjob'[d]] \in {"publish", "replied"} <=>
                  cpc[d] = "upload" /\ upc[cjob[d]] \in {"publish", "replied"}
               /\ cpc[d] = "upload" => cjob'[d] = cjob[d]
    <3>1. CASE d = c
      BY <1>0, <2>1, <3>1
    <3>2. CASE d # c
      BY <1>0, <1>1, <2>1, <3>2
    <3> QED BY <3>1, <3>2
  <2>4. \A a \in AZs : Accepting(a)' = Accepting(a) /\ Coming(a)' = Coming(a)
    BY <2>1, <2>3 DEF Accepting, Coming
  <2> QED BY <1>3, <1>4, <2>1, <2>2, <2>4
<1>6. ASSUME NEW c \in Clients, Connect(c)
      PROVE  UploadInv' /\ AcceptBalance'
  <2>0. cjob[c] \in Jobs /\ jproxy[cjob[c]] \in AZs
    BY <1>0, <1>1, <1>6 DEF Connect, JobShape
  <2> PICK z \in AZs : z = jproxy[cjob[c]]
    BY <2>0
  <2>1. /\ cpc[c] = "upload" /\ upc[cjob[c]] = "replied"
        /\ cpc' = [cpc EXCEPT ![c] = "check"]
        /\ UNCHANGED <<cjob, upc, tpc, jproxy, coordUp>>
    BY <1>6 DEF Connect
  <2>2. UploadInv'
    BY <1>0, <2>1 DEF UploadInv
  <2>3. /\ z \in AZs /\ c \in Coming(z)
        /\ Len(backlog'[z]) = Len(backlog[z]) + 1
        /\ \A b \in AZs : b # z => backlog'[b] = backlog[b]
    <3>1. z \in AZs /\ c \in Coming(z)
      BY <2>1 DEF Coming
    <3> DEFINE conn == [key |-> jkey[cjob[c]], val |-> jval[cjob[c]]]
    <3>2. backlog' = [backlog EXCEPT ![z] = Append(@, conn)]
      BY <1>6 DEF Connect
    <3> HIDE DEF conn
    <3>3. Len(Append(backlog[z], conn)) = Len(backlog[z]) + 1
      BY <1>0, <3>1
    <3> QED BY <1>0, <3>1, <3>2, <3>3
  <2>4. /\ \A a \in AZs : Accepting(a)' = Accepting(a)
        /\ Coming(z)' = Coming(z) \ {c}
        /\ \A b \in AZs : b # z => Coming(b)' = Coming(b)
    BY <1>0, <2>1 DEF Accepting, Coming
  <2>5. Cardinality(Coming(z)') = Cardinality(Coming(z)) - 1
    BY <1>2, <2>3, <2>4, FS_RemoveElement
  <2>6. ASSUME NEW a \in AZs, coordUp'
        PROVE  Cardinality(Accepting(a)') = Len(backlog'[a]) + Cardinality(Coming(a)')
    <3>1. /\ Cardinality(Accepting(z)) = Len(backlog[z]) + Cardinality(Coming(z))
          /\ {Cardinality(Accepting(z)), Len(backlog[z]), Cardinality(Coming(z))}
               \subseteq Nat
      BY <1>1, <1>2, <1>3, <2>1, <2>6
    <3>2. Cardinality(Accepting(z)') = Len(backlog'[z]) + Cardinality(Coming(z)')
      BY <2>3, <2>4, <2>5, <3>1
    <3>3. CASE a = z
      BY <3>2, <3>3
    <3>4. CASE a # z
      BY <1>3, <2>1, <2>3, <2>4, <2>6, <3>4
    <3> QED BY <3>3, <3>4
  <2> QED BY <1>4, <2>2, <2>6
<1>7. ASSUME NEW c \in Clients, SetFails(c)
      PROVE  UploadInv' /\ AcceptBalance'
  BY <1>0, <1>7 DEF SetFails, UploadInv, AcceptBalance
<1>8. ASSUME NEW j \in Jobs, NEW z \in AZs, EncodeAndSetObject(j, z)
      PROVE  UploadInv' /\ AcceptBalance'
  <2>1. /\ coordUp /\ upc[j] = "rpc" /\ tpc[j] = "none"
        /\ upc' = [upc EXCEPT ![j] = "publish"]
        /\ tpc' = [tpc EXCEPT ![j] = "accept"]
        /\ jproxy' = [jproxy EXCEPT ![j] = z]
        /\ UNCHANGED <<cpc, cjob, backlog, coordUp>>
    BY <1>0, <1>8 DEF EncodeAndSetObject, JobShape
  <2>2. UploadInv'
    BY <1>0, <2>1 DEF UploadInv
  <2>3. PICK c \in Clients : cpc[c] = "upload" /\ cjob[c] = j
    BY <1>0, <2>1 DEF UploadInv
  <2>4. \A d \in Clients : cpc[d] = "upload" /\ cjob[d] = j => d = c
    BY <1>0, <2>3 DEF UploadInv
  <2>5. /\ Accepting(z)' = Accepting(z) \cup {j} /\ j \notin Accepting(z)
        /\ \A b \in AZs : b # z => Accepting(b)' = Accepting(b)
    BY <1>0, <2>1 DEF Accepting
  <2>6. /\ Coming(z)' = Coming(z) \cup {c} /\ c \notin Coming(z)
        /\ \A b \in AZs : b # z => Coming(b)' = Coming(b)
    <3>1. ASSUME NEW d \in Clients, d # c, cpc[d] = "upload"
          PROVE  upc'[cjob[d]] = upc[cjob[d]] /\ jproxy'[cjob[d]] = jproxy[cjob[d]]
      BY <1>0, <1>1, <2>1, <2>4, <3>1
    <3>2. upc'[cjob[c]] = "publish" /\ jproxy'[cjob[c]] = z
      BY <1>0, <2>1, <2>3
    <3> QED BY <2>1, <2>3, <3>1, <3>2 DEF Coming
  <2>7. /\ Cardinality(Accepting(z)') = Cardinality(Accepting(z)) + 1
        /\ Cardinality(Coming(z)') = Cardinality(Coming(z)) + 1
    BY <1>2, <2>5, <2>6, FS_AddElement
  <2>8. ASSUME NEW a \in AZs
        PROVE  Cardinality(Accepting(a)') = Len(backlog'[a]) + Cardinality(Coming(a)')
    <3>1. CASE a = z
      BY <1>1, <1>2, <1>3, <2>1, <2>7, <3>1
    <3>2. CASE a # z
      BY <1>3, <2>1, <2>5, <2>6, <3>2
    <3> QED BY <3>1, <3>2
  <2> QED BY <1>4, <2>2, <2>8
<1>9. ASSUME NEW j \in Jobs, Accept(j)
      PROVE  UploadInv' /\ AcceptBalance'
  <2> PICK z \in AZs : z = jproxy[j]
    BY <1>0, <1>9 DEF Accept, JobShape
  <2>1. /\ tpc[j] = "accept" /\ tpc' = [tpc EXCEPT ![j] = "save"]
        /\ UNCHANGED <<cpc, cjob, upc, jproxy, coordUp>>
    BY <1>9 DEF Accept
  <2>2. UploadInv'
    BY <1>0, <2>1, SMTT(30) DEF UploadInv
  <2>3. /\ z \in AZs /\ j \in Accepting(z)
        /\ Len(backlog'[z]) = Len(backlog[z]) - 1
        /\ \A b \in AZs : b # z => backlog'[b] = backlog[b]
    <3>1. z \in AZs /\ j \in Accepting(z) /\ backlog[z] # <<>>
      BY <1>0, <1>9, <2>1 DEF JobShape, Accepting, Accept
    <3>2. backlog' = [backlog EXCEPT ![z] = Tail(@)]
      BY <1>9 DEF Accept
    <3>3. Len(Tail(backlog[z])) = Len(backlog[z]) - 1
      BY <1>0, <3>1, HeadTailProperties
    <3> QED BY <1>0, <3>1, <3>2, <3>3, Zenon
  <2>4. /\ \A a \in AZs : Coming(a)' = Coming(a)
        /\ Accepting(z)' = Accepting(z) \ {j}
        /\ \A b \in AZs : b # z => Accepting(b)' = Accepting(b)
    BY <1>0, <2>1 DEF Accepting, Coming
  <2>5. Cardinality(Accepting(z)') = Cardinality(Accepting(z)) - 1
    BY <1>2, <2>3, <2>4, FS_RemoveElement
  <2>6. ASSUME NEW a \in AZs, coordUp'
        PROVE  Cardinality(Accepting(a)') = Len(backlog'[a]) + Cardinality(Coming(a)')
    <3>1. /\ Cardinality(Accepting(z)) = Len(backlog[z]) + Cardinality(Coming(z))
          /\ {Cardinality(Accepting(z)), Len(backlog[z]), Cardinality(Coming(z))}
               \subseteq Nat
      BY <1>1, <1>2, <1>3, <2>1, <2>6
    <3>2. Cardinality(Accepting(z)') = Len(backlog'[z]) + Cardinality(Coming(z)')
      BY <2>3, <2>4, <2>5, <3>1
    <3>3. CASE a = z
      BY <3>2, <3>3
    <3>4. CASE a # z
      BY <1>3, <2>1, <2>3, <2>4, <2>6, <3>4
    <3> QED BY <3>3, <3>4
  <2> QED BY <1>4, <2>2, <2>6
<1> HIDE DEF ShapeInv, TypeOK, ClientTypeOK, JobTypeOK, PlanTypeOK, NodeTypeOK
<1> QED BY <1>0, <1>a, <1>5, <1>6, <1>7, <1>8, <1>9, BalanceFrame DEF BalanceInv

LEMMA InitBalance == Init => BalanceInv
<1> SUFFICES ASSUME Init
             PROVE  BalanceInv
  OBVIOUS
<1>1. UploadInv
  BY DEF Init, UploadInv
<1>2. AcceptBalance
  <2> SUFFICES ASSUME NEW a \in AZs
               PROVE  Cardinality(Accepting(a)) =
                        Len(backlog[a]) + Cardinality(Coming(a))
    BY DEF AcceptBalance, Accepting, Coming
  <2>1. Accepting(a) = {} /\ Coming(a) = {} /\ Len(backlog[a]) = 0
    BY DEF Init, Accepting, Coming
  <2> QED BY <2>1, FS_EmptySet
<1> QED BY <1>1, <1>2, InitShape DEF BalanceInv

(* While the coordinator lives, at every proxy there are as many threads   *)
(* in accept as connections made or still to be made to it, whatever       *)
(* threads take whatever clients' connections: no connection is left       *)
(* without a thread to take it, and no thread without one to wait for.     *)
THEOREM ConnectionsMatched == Spec => []AcceptBalance
<1>1. BalanceInv => AcceptBalance
  BY DEF BalanceInv
<1>2. BalanceInv /\ [Next]_vars => BalanceInv'
  BY BalanceStep
<1> QED BY <1>1, <1>2, InitBalance, PTL DEF Spec
-----------------------------------------------------------------------------
(* Datanodes are asked only for blocks they hold.                          *)

(* What a thread that is done has saved does not change.                   *)
LEMMA DoneStays ==
  ASSUME ShapeInv, [Next]_vars, NEW j \in Jobs, tpc[j] = "done"
  PROVE  tpc'[j] = "done" /\ jstripes'[j] = jstripes[j] /\ jplace'[j] = jplace[j]
<1> USE DEF ShapeInv, TypeOK, JobTypeOK, PlanTypeOK
<1>1. upc[j] \in {"publish", "replied"}
  BY DEF JobShape
<1>2. ASSUME NEW i \in Jobs, \/ UploadStoreStripeId(i) \/ Accept(i)
                             \/ ReportCommitAbort(i)
                             \/ \E a \in AZs : EncodeAndSetObject(i, a)
                             \/ \E t \in jtodo[i] : SetToMemcached(i, t[1], t[2])
      PROVE  tpc'[j] = "done" /\ jstripes'[j] = jstripes[j] /\ jplace'[j] = jplace[j]
  <2>1. CASE UploadStoreStripeId(i)
    BY <1>1, <2>1 DEF UploadStoreStripeId
  <2>2. CASE Accept(i) \/ ReportCommitAbort(i)
    BY <2>2 DEF Accept, ReportCommitAbort
  <2>3. CASE \E a \in AZs : EncodeAndSetObject(i, a)
    BY <1>1, <2>3 DEF EncodeAndSetObject
  <2>4. CASE \E t \in jtodo[i] : SetToMemcached(i, t[1], t[2])
    BY <2>4 DEF SetToMemcached
  <2> QED BY <1>2, <2>1, <2>2, <2>3, <2>4
<1> QED BY <1>2, SaveFrame

(* The steps that change what is read, or by whom.                         *)
LEMMA ReadFrame ==
  ASSUME [Next]_vars
  PROVE  \/ \E c \in Clients : \/ GetValueFound(c) \/ Decode(c) \/ Deliver(c)
                               \/ \E k \in KeysOf[c] : Get(c, k)
         \/ \E r \in reads : GetFromMemcached(r)
         \/ UNCHANGED <<reader, reads>>
<1>1. ASSUME NEW c \in Clients,
             \/ Connect(c) \/ CheckCommitAbort(c) \/ SetFails(c)
             \/ GetValueMiss(c) \/ GetValueEmpty(c) \/ GetFails(c)
             \/ \E k \in KeysOf[c], v \in Vals, n \in 1..MaxStripes : Set(c, k, v, n)
      PROVE  UNCHANGED <<reader, reads>>
  BY <1>1, SMTT(30) DEF Connect, CheckCommitAbort, SetFails, GetValueMiss, GetValueEmpty,
     GetFails, Set
<1>2. ASSUME NEW j \in Jobs, UploadStep(j) \/ ThreadStep(j)
      PROVE  UNCHANGED <<reader, reads>>
  BY <1>2 DEF UploadStep, ThreadStep, UploadErase, UploadLoadStripeId,
     UploadStoreStripeId, EncodeAndSetObject, UploadPublish, Accept,
     ReportCommitAbort, SetToMemcached
<1>3. ASSUME NEW n \in Nodes, Crash(n)
      PROVE  UNCHANGED <<reader, reads>>
  BY <1>3 DEF Crash
<1>4. ASSUME UNCHANGED vars
      PROVE  UNCHANGED <<reader, reads>>
  BY <1>4
<1>5. ASSUME NEW c \in Clients, ClientStep(c) \/ GetValue(c)
      PROVE  GetValueFound(c) \/ Deliver(c) \/ UNCHANGED <<reader, reads>>
  BY <1>1, <1>5 DEF ClientStep, GetValue
<1>6. ASSUME OtherStep
      PROVE  \/ \E c \in Clients : \/ GetValueFound(c) \/ Decode(c) \/ Deliver(c)
                                   \/ \E k \in KeysOf[c] : Get(c, k)
             \/ \E r \in reads : GetFromMemcached(r)
             \/ UNCHANGED <<reader, reads>>
  BY <1>2, <1>3, <1>4, <1>5, <1>6, Zenon DEF OtherStep
<1> QED BY <1>1, <1>2, <1>6, NextCases

(* The reads of a finished job's stripe.                                   *)
LEMMA BlocksOfJob ==
  ASSUME ShapeInv, AllocInv, NEW c \in Clients, NEW j \in Jobs,
         NEW i \in 1..Len(jstripes[j])
  PROVE  \A r \in BlockReads(c, jstripes[j], i) :
           r.stripe = jstripes[j][i] /\ r.node = jplace[j][i][r.shard]
BY DEF BlockReads, AllocInv

LEMMA ReadStep ==
  ASSUME ShapeInv, AllocInv, TableInv, ReadInv, [Next]_vars
  PROVE  ReadInv'
<1> USE DEF ShapeInv, TypeOK, ClientTypeOK, CoordTypeOK, ReadTypeOK, PlanTypeOK
<1> DEFINE Asked(r) ==
      \E j \in Jobs : tpc[j] = "done" /\
        \E i \in 1..Len(jstripes[j]) :
          r.stripe = jstripes[j][i] /\ r.node = jplace[j][i][r.shard]
<1> DEFINE Done(obj) == \E j \in Jobs : tpc[j] = "done" /\ obj = jstripes[j]
<1>1. \A r : Asked(r) => \E j \in Jobs : tpc'[j] = "done" /\
        \E i \in 1..Len(jstripes'[j]) :
          r.stripe = jstripes'[j][i] /\ r.node = jplace'[j][i][r.shard]
  <2> SUFFICES ASSUME NEW r, NEW j \in Jobs, tpc[j] = "done",
                      NEW i \in 1..Len(jstripes[j]),
                      r.stripe = jstripes[j][i], r.node = jplace[j][i][r.shard]
               PROVE  \E h \in Jobs : tpc'[h] = "done" /\
                        \E x \in 1..Len(jstripes'[h]) :
                          r.stripe = jstripes'[h][x] /\ r.node = jplace'[h][x][r.shard]
    OBVIOUS
  <2>1. tpc'[j] = "done" /\ jstripes'[j] = jstripes[j] /\ jplace'[j] = jplace[j]
    BY DoneStays
  <2> QED BY <2>1
<1>2. \A obj : Done(obj) => \E j \in Jobs : tpc'[j] = "done" /\ obj = jstripes'[j]
  BY DoneStays
<1>3. /\ \A c \in Clients : reader[c].pc # "none" => Done(reader[c].obj)
      /\ \A r \in reads : Asked(r)
  BY DEF ReadInv
<1>4. ASSUME \A c \in Clients : reader'[c].pc # "none" => Done(reader'[c].obj),
             \A r \in reads' : Asked(r)
      PROVE  ReadInv'
  BY <1>1, <1>2, <1>4 DEF ReadInv
<1>5. ASSUME NEW c \in Clients, NEW j \in Jobs, NEW i \in 1..Len(jstripes[j]),
             tpc[j] = "done"
      PROVE  \A r \in BlockReads(c, jstripes[j], i) : Asked(r)
  BY <1>5, BlocksOfJob
<1>6. ASSUME NEW c \in Clients, GetValueFound(c)
      PROVE  ReadInv'
  <2> DEFINE obj == commit[ckey[c]]
  <2>1. obj \notin {Absent, <<>>} /\ ckey[c] \in Keys
    BY <1>6 DEF GetValueFound, ClientShape
  <2>2. PICK j \in Jobs : tpc[j] = "done" /\ obj = jstripes[j]
    BY <2>1 DEF TableInv
  <2>3. 1 \in 1..Len(jstripes[j])
    BY <2>1, <2>2
  <2>4. \A r \in BlockReads(c, obj, 1) : Asked(r)
    BY <1>5, <2>2, <2>3
  <2>5. /\ reads' = reads \cup BlockReads(c, obj, 1)
        /\ reader' = [reader EXCEPT ![c] = [pc |-> "read", obj |-> obj, i |-> 1,
                        got |-> {}, acc |-> None, round |-> reader[c].round]]
    BY <1>6 DEF GetValueFound
  <2> HIDE DEF obj, Asked, Done
  <2>6. Done(obj)
    BY <2>2 DEF Done
  <2>7. \A r \in reads' : Asked(r)
    BY <1>3, <2>4, <2>5
  <2>8. \A d \in Clients : reader'[d].pc # "none" => Done(reader'[d].obj)
    BY <1>3, <2>5, <2>6
  <2> QED BY <1>4, <2>7, <2>8
<1>7. ASSUME NEW c \in Clients, Decode(c)
      PROVE  ReadInv'
  <2> DEFINE rd == reader[c]
  <2>1. /\ rd.pc = "read" /\ rd.i \in Nat
        /\ \/ /\ rd.i < Len(rd.obj)
              /\ reader' = [reader EXCEPT ![c].i = @ + 1, ![c].got = {}]
              /\ reads' = reads \cup BlockReads(c, rd.obj, rd.i + 1)
           \/ /\ reader' = [reader EXCEPT ![c].pc = "send"]
              /\ reads' = reads
    BY <1>7 DEF Decode, Readers
  <2>2. PICK j \in Jobs : tpc[j] = "done" /\ rd.obj = jstripes[j]
    BY <1>3, <2>1
  <2>3. rd.i < Len(rd.obj) => \A r \in BlockReads(c, rd.obj, rd.i + 1) : Asked(r)
    <3> SUFFICES ASSUME rd.i < Len(rd.obj)
                 PROVE  \A r \in BlockReads(c, rd.obj, rd.i + 1) : Asked(r)
      OBVIOUS
    <3>1. rd.i + 1 \in 1..Len(jstripes[j])
      BY <2>1, <2>2
    <3> HIDE DEF rd, Asked
    <3>2. \A r \in BlockReads(c, jstripes[j], rd.i + 1) : Asked(r)
      BY <1>5, <2>2, <3>1
    <3> QED BY <2>2, <3>2
  <2>4. \A d \in Clients : reader'[d].obj = reader[d].obj /\
          (reader'[d].pc # "none" => reader[d].pc # "none")
    <3>1. /\ [rd EXCEPT !.i = @ + 1, !.got = {}].obj = rd.obj
          /\ [rd EXCEPT !.pc = "send"].obj = rd.obj
      BY ReaderUpdates
    <3>2. reader'[c].obj = reader[c].obj
      BY <2>1, <3>1
    <3> QED BY <2>1, <3>2
  <2> HIDE DEF rd, Asked, Done
  <2>5. \A r \in reads' : Asked(r)
    BY <1>3, <2>1, <2>3
  <2>6. \A d \in Clients : reader'[d].pc # "none" => Done(reader'[d].obj)
    BY <1>3, <2>4
  <2> QED BY <1>4, <2>5, <2>6
<1>8. ASSUME NEW c \in Clients, Deliver(c) \/ \E k \in KeysOf[c] : Get(c, k)
      PROVE  ReadInv'
  <2>1. /\ reads' = reads
        /\ \A d \in Clients : d # c => reader'[d] = reader[d]
        /\ \/ reader'[c] = Idle
           \/ reader'[c].pc = reader[c].pc /\ reader'[c].obj = reader[c].obj
    <3>1. CASE Deliver(c)
      BY <3>1 DEF Deliver
    <3>2. CASE \E k \in KeysOf[c] : Get(c, k)
      <4>1. /\ reads' = reads
            /\ reader' = [reader EXCEPT ![c].round = gets + 1]
        BY <3>2 DEF Get
      <4>2. reader[c] \in Readers /\ reader \in [Clients -> Readers]
        OBVIOUS
      <4> QED BY <4>1, <4>2 DEF Readers
    <3> QED BY <1>8, <3>1, <3>2
  <2>2. \A d \in Clients : reader'[d].pc # "none" =>
          reader[d].pc # "none" /\ reader'[d].obj = reader[d].obj
    BY <2>1 DEF Idle
  <2> HIDE DEF Asked, Done
  <2> QED BY <1>3, <1>4, <2>1, <2>2
<1>9. ASSUME NEW r \in reads, GetFromMemcached(r)
      PROVE  ReadInv'
  <2>1. /\ reads' \subseteq reads
        /\ \A d \in Clients : reader'[d].pc = reader[d].pc /\ reader'[d].obj = reader[d].obj
    <3>1. r.client \in Clients /\ reader \in [Clients -> Readers]
      BY DEF Requests
    <3>2. \/ reader' = reader
          \/ reader' = [reader EXCEPT ![r.client].got = @ \cup {r.shard},
                                      ![r.client].acc = Merge(@, BlockRead(r))]
      BY <1>9 DEF GetFromMemcached
    <3>3. reads' \subseteq reads
      BY <1>9 DEF GetFromMemcached
    <3> DEFINE got == reader[r.client].got \cup {r.shard}
               acc == Merge(reader[r.client].acc, BlockRead(r))
    <3>4. reader[r.client] \in [pc : {"none", "read", "send"}, obj : Objects, i : Nat,
                                got : SUBSET Shards, acc : Tokens, round : Nat]
      BY <3>1 DEF Readers
    <3> HIDE DEF got, acc
    <3>5. /\ [reader[r.client] EXCEPT !.got = got, !.acc = acc].pc = reader[r.client].pc
          /\ [reader[r.client] EXCEPT !.got = got, !.acc = acc].obj = reader[r.client].obj
      BY <3>4
    <3>6. reader' = reader \/ reader' = [reader EXCEPT ![r.client] =
                                  [reader[r.client] EXCEPT !.got = got, !.acc = acc]]
      BY <3>1, <3>2 DEF got, acc
    <3> QED BY <3>1, <3>3, <3>5, <3>6
  <2> HIDE DEF Asked, Done
  <2> QED BY <1>3, <1>4, <2>1
<1>10. CASE UNCHANGED <<reader, reads>>
  BY <1>3, <1>4, <1>10
<1> QED BY <1>6, <1>7, <1>8, <1>9, <1>10, ReadFrame

(* The datanode of a block to be read holds it, if it is up.               *)
LEMMA AskedIsHeld ==
  ASSUME ShapeInv, SaveInv, ReadInv, NEW r \in reads, up[r.node]
  PROVE  Held(r) # {}
<1>0. PICK j \in Jobs : tpc[j] = "done" /\
        \E i \in 1..Len(jstripes[j]) :
          r.stripe = jstripes[j][i] /\ r.node = jplace[j][i][r.shard]
  BY DEF ReadInv
<1>1. PICK i \in 1..Len(jstripes[j]) :
        r.stripe = jstripes[j][i] /\ r.node = jplace[j][i][r.shard]
  BY <1>0
<1>2. r.shard \in Shards /\ jtodo[j] = {}
  BY <1>0 DEF ShapeInv, TypeOK, ReadTypeOK, Requests, SaveShape
<1>3. Stored(r.stripe, r.shard, r.node)
  BY <1>0, <1>1, <1>2 DEF SaveInv
<1> QED BY <1>3 DEF Stored, Held

LEMMA NodesStop ==
  ASSUME SafeInv, ReadInv, [Next]_vars
  PROVE  \A n \in Nodes : up[n] /\ ~up'[n] => Crash(n)
<1> USE DEF SafeInv, ShapeInv, TypeOK, NodeTypeOK, ReadTypeOK
<1>1. ASSUME NEW r \in reads, GetFromMemcached(r)
      PROVE  up' = up
  <2>1. r.node \in Nodes /\ up' = [up EXCEPT ![r.node] = @ /\ Held(r) # {}]
    BY <1>1 DEF GetFromMemcached, Requests
  <2>2. up'[r.node] = up[r.node]
    <3>1. CASE up[r.node]
      <4>1. Held(r) # {}
        BY <3>1, AskedIsHeld
      <4> QED BY <2>1, <3>1, <4>1
    <3>2. CASE ~up[r.node]
      BY <2>1, <3>2
    <3> QED BY <3>1, <3>2
  <2> QED BY <2>1, <2>2
<1>2. ASSUME NEW j \in Jobs, NEW t \in jtodo[j], SetToMemcached(j, t[1], t[2])
      PROVE  up' = up
  BY <1>2 DEF SetToMemcached
<1>3. ASSUME NEW m \in Nodes, Crash(m), NEW n \in Nodes, up[n], ~up'[n]
      PROVE  Crash(n)
  BY <1>3 DEF Crash
<1>4. \/ \E j \in Jobs : \E t \in jtodo[j] : SetToMemcached(j, t[1], t[2])
      \/ \E r \in reads : GetFromMemcached(r)
      \/ \E m \in Nodes : Crash(m)
      \/ up' = up
  BY ZenonT(60) DEF Next, Connect, CheckCommitAbort, SetFails, Deliver, Accept,
     ReportCommitAbort, GetValueMiss, GetValueEmpty, GetValueFound, GetFails,
     Get, Set, UploadErase, UploadLoadStripeId, UploadStoreStripeId,
     EncodeAndSetObject, UploadPublish, Decode, Finished, ClientStep, GetValue,
     UploadStep, ThreadStep
<1> QED BY <1>1, <1>2, <1>3, <1>4

LEMMA InitRead == Init => ReadInv
BY DEF Init, ReadInv, Idle

LEMMA ReadAlways ==
  ASSUME SerialAlloc, DisjointKeys
  PROVE  Spec => [](SafeInv /\ ReadInv)
<1>1. SafeInv /\ ReadInv /\ [Next]_vars => ReadInv'
  BY ReadStep DEF SafeInv
<1> QED BY <1>1, SafeAlways, InitRead, PTL DEF Spec

(* With disjoint keys and stripe ids handed out one at a time, no get ever *)
(* asks a datanode for a block it does not hold, which would end it: a     *)
(* datanode stops only by a crash of its own.                              *)
THEOREM DatanodesStay ==
  ASSUME SerialAlloc, DisjointKeys
  PROVE  Spec => OnlyCrashes
<1>1. SafeInv /\ ReadInv /\ [Next]_vars => \A n \in Nodes : up[n] /\ ~up'[n] => Crash(n)
  BY NodesStop
<1>2. Spec => [][\A n \in Nodes : up[n] /\ ~up'[n] => Crash(n)]_vars
  BY <1>1, ReadAlways, PTL DEF Spec
<1> QED BY <1>2 DEF OnlyCrashes

AllUp == \A n \in Nodes : up[n]

LEMMA AllUpAlways ==
  ASSUME SerialAlloc, DisjointKeys, Crashable = {}
  PROVE  Spec => [](SafeInv /\ AllUp)
<1>1. Init => AllUp
  BY DEF Init, AllUp
<1>2. SafeInv /\ ReadInv /\ AllUp /\ [Next]_vars => AllUp'
  BY NodesStop DEF AllUp, Crash
<1> QED BY <1>1, <1>2, ReadAlways, PTL DEF Spec

(* If no datanode crashes, whatever is entered in the commit table then    *)
(* has every one of its blocks on its datanode.                            *)
THEOREM CommitWhole ==
  ASSUME SerialAlloc, DisjointKeys, Crashable = {}
  PROVE  Spec => CommittedWhole
<1>1. ASSUME SafeInv, AllUp
      PROVE  \A k \in Keys : commit[k] # Absent => Whole(commit[k])
  <2>1. ASSUME NEW k \in Keys, commit[k] # Absent,
               NEW i \in 1..Len(commit[k]), NEW sh \in Shards
        PROVE  Stored(commit[k][i], sh, stripeInfo[commit[k][i]][sh])
    <3> USE <1>1 DEF SafeInv, ShapeInv, TypeOK, CoordTypeOK, PlanTypeOK, JobTypeOK
    <3>1. PICK j \in Jobs : tpc[j] = "done" /\ commit[k] = jstripes[j]
      BY <2>1 DEF TableInv
    <3>2. jtodo[j] = {} /\ i \in 1..Len(jplace[j])
      BY <3>1 DEF SaveShape, JobShape
    <3>3. stripeInfo[jstripes[j][i]] = jplace[j][i]
      BY <2>1, <3>1 DEF AllocInv
    <3>4. jplace[j][i] \in [Shards -> Nodes]
      BY <3>2, ShardsAssumption
    <3>5. up[jplace[j][i][sh]]
      BY <1>1, <3>4 DEF AllUp
    <3>6. Stored(jstripes[j][i], sh, jplace[j][i][sh])
      BY <3>1, <3>2, <3>5 DEF SaveInv
    <3> QED BY <3>1, <3>3, <3>6
  <2> QED BY <2>1 DEF Whole
<1>2. SafeInv /\ AllUp => \A k \in Keys : commit[k] # Absent => Whole(commit[k])
  BY <1>1
<1>3. (SafeInv /\ AllUp)' => (\A k \in Keys : commit[k] # Absent => Whole(commit[k]))'
  BY <1>2, PTL
<1>4. (SafeInv /\ AllUp)' =>
        \A k \in Keys : commit'[k] \notin {Absent, commit[k]} => Whole(commit[k])'
  BY <1>3
<1>5. Spec => [][\A k \in Keys :
                   commit'[k] \notin {Absent, commit[k]} => Whole(commit[k])']_vars
  BY <1>4, AllUpAlways, PTL
<1> QED BY <1>5 DEF CommittedWhole

-----------------------------------------------------------------------------
(* One client, no crash of a datanode, and gets only of keys that were set:*)
(* the setting of run_client.  For every number of keys, values, stripes,  *)
(* proxies, datanodes, sets and gets, the client reads what it wrote, and  *)
(* set and get implement ObjectStore.                                      *)

Setting == OneClient /\ Crashable = {} /\ GetUnset = FALSE

(* The job of an unfinished upload or thread is the client's current set.  *)
LEMMA TheClientsJob ==
  ASSUME OneClient, OneInv, NEW c \in Clients, NEW j \in Jobs, Unfinished(j)
  PROVE  cpc[c] \in InSet /\ cjob[c] = j
BY DEF OneClient, OneInv, Running, SafeInv, OwnerInv, Owned

LEMMA TheJobThere ==
  ASSUME OneInv, NEW j \in Jobs, Unfinished(j)
  PROVE  Clients # {}
BY DEF OneInv, Running, SafeInv, OwnerInv, Owned

LEMMA OneJob ==
  ASSUME OneClient, OneInv, NEW i \in Jobs, NEW j \in Jobs, Unfinished(i), Unfinished(j)
  PROVE  i = j
<1>1. PICK c \in Clients : TRUE
  BY TheJobThere
<1> QED BY TheClientsJob

(* Where a handler or a thread is at work the job is unfinished.           *)
LEMMA AtWork ==
  ASSUME OneInv, NEW j \in Jobs,
         \/ upc[j] \in {"erase", "load", "store", "rpc", "publish"}
         \/ tpc[j] \in {"accept", "save"}
  PROVE  Unfinished(j)
BY DEF OneInv, SafeInv, ShapeInv, JobShape, Unfinished

(* A committed object is the plan of a job that has ended, and not empty.  *)
LEMMA CommittedPlan ==
  ASSUME OneInv, NEW c \in Clients, NEW k \in Keys, commit[k] # Absent
  PROVE  \E j \in Jobs : /\ tpc[j] = "done" /\ jkey[j] = k
                         /\ commit[k] = jstripes[j] /\ commit[k] # <<>>
                         /\ jval[j] = Current(c, k)
<1>1. PICK j \in Jobs : /\ tpc[j] = "done" /\ jkey[j] = k
                        /\ commit[k] = jstripes[j] /\ jval[j] = Current(c, k)
  BY DEF OneInv, ValueInv
<1>2. jstripes[j] # <<>>
  BY <1>1 DEF OneInv, CourseInv, PlanMade, OwnData
<1> QED BY <1>1, <1>2

(* A get finds its key committed.                                          *)
LEMMA GetFinds ==
  ASSUME OneInv, NEW c \in Clients, cpc[c] \in InGet
  PROVE  ckey[c] \in Keys /\ commit[ckey[c]] \notin {Absent, <<>>}
<1>1. ckey[c] \in Keys /\ keyValues[c][ckey[c]] # None
  BY DEF OneInv, SafeInv, ShapeInv, ClientShape, GetInv
<1>2. ~ Resetting(c, ckey[c])
  BY DEF Resetting
<1>3. commit[ckey[c]] # Absent
  BY <1>1, <1>2 DEF OneInv, ValueInv
<1> QED BY <1>1, <1>3, CommittedPlan

(* The steps one client's calls consist of.                                *)
LEMMA OneCases ==
  ASSUME Setting, OneInv, [Next]_vars
  PROVE  \/ \E c \in Clients :
              \/ \E k \in KeysOf[c], v \in Vals, n \in 1..MaxStripes : Set(c, k, v, n)
              \/ Connect(c) \/ CheckCommitAbort(c) \/ Deliver(c)
              \/ GetValueFound(c) \/ Decode(c) \/ \E k \in KeysOf[c] : Get(c, k)
         \/ \E j \in Jobs : UploadStep(j) \/ ThreadStep(j)
         \/ \E r \in reads : GetFromMemcached(r)
         \/ UNCHANGED vars
<1>1. coordUp
  BY DEF OneInv, Running
<1>2. ASSUME NEW c \in Clients
      PROVE  ~ SetFails(c) /\ ~ GetFails(c) /\ ~ GetValueMiss(c) /\ ~ GetValueEmpty(c)
  BY <1>1, GetFinds DEF SetFails, GetFails, GetValueMiss, GetValueEmpty
<1>3. ASSUME NEW n \in Nodes
      PROVE  ~ Crash(n)
  BY DEF Setting, Crash
<1>4. ASSUME NEW c \in Clients, ClientStep(c) \/ GetValue(c)
      PROVE  Connect(c) \/ CheckCommitAbort(c) \/ Deliver(c) \/ GetValueFound(c)
  BY <1>2, <1>4 DEF ClientStep, GetValue
<1> QED BY <1>3, <1>4, NextCases, Zenon DEF OtherStep

LEMMA RunningStep ==
  ASSUME Setting, OneInv, [Next]_vars
  PROVE  Running'
<1>1. coordUp' = coordUp /\ mutexFree' = mutexFree
  <2>1. ASSUME NEW c \in Clients,
               \/ \E k \in KeysOf[c], v \in Vals, n \in 1..MaxStripes : Set(c, k, v, n)
               \/ Connect(c) \/ CheckCommitAbort(c) \/ Deliver(c)
               \/ GetValueFound(c) \/ Decode(c) \/ \E k \in KeysOf[c] : Get(c, k)
        PROVE  coordUp' = coordUp /\ mutexFree' = mutexFree
    BY <2>1 DEF Set, Connect, CheckCommitAbort, Deliver, GetValueFound, Decode, Get
  <2>2. ASSUME NEW j \in Jobs, UploadStep(j) \/ ThreadStep(j)
        PROVE  coordUp' = coordUp /\ mutexFree' = mutexFree
    BY <2>2 DEF UploadStep, ThreadStep, UploadErase, UploadLoadStripeId,
       UploadStoreStripeId, EncodeAndSetObject, UploadPublish, Accept,
       ReportCommitAbort, SetToMemcached
  <2>3. ASSUME NEW r \in reads, GetFromMemcached(r)
        PROVE  coordUp' = coordUp /\ mutexFree' = mutexFree
    BY <2>3 DEF GetFromMemcached
  <2> QED BY <2>1, <2>2, <2>3, OneCases
<1>2. ASSUME NEW n \in Nodes
      PROVE  up'[n]
  <2>1. ~ Crash(n)
    BY DEF Setting, Crash
  <2>2. up[n] /\ up' \in [Nodes -> BOOLEAN]
    BY ShapeStep DEF OneInv, Running, SafeInv, ShapeInv, TypeOK, NodeTypeOK
  <2> QED BY <2>1, <2>2, NodesStop DEF OneInv
<1> QED BY <1>1, <1>2 DEF OneInv, Running

LEMMA OneSafeStep ==
  ASSUME Setting, OneInv, [Next]_vars
  PROVE  SafeInv' /\ BalanceInv' /\ ReadInv'
<1>1. Serial
  <2>1. \A j \in Jobs : upc[j] \in {"load", "store"} => Unfinished(j)
    BY AtWork
  <2> QED BY <2>1, OneJob DEF Serial, Setting
<1>2. DisjointKeys
  BY DEF Setting, OneClient, DisjointKeys
<1>3. SafeInv /\ BalanceInv /\ ReadInv
  BY DEF OneInv
<1> QED BY <1>1, <1>2, <1>3, SafeStep, BalanceStep, ReadStep DEF SafeInv
-----------------------------------------------------------------------------
(* The course of a set                                                     *)

(* The steps of the client and its reads change nothing of a job, but for  *)
(* a new set.                                                              *)
LEMMA JobFrame ==
  ASSUME Setting, OneInv, [Next]_vars
  PROVE  \/ \E c \in Clients : \E k \in KeysOf[c], v \in Vals, n \in 1..MaxStripes :
              Set(c, k, v, n)
         \/ \E j \in Jobs : UploadStep(j) \/ ThreadStep(j)
         \/ UNCHANGED <<upc, tpc, jkey, jval, jstripes, jplace, jdata, jtodo,
                        updating, commit, stripeInfo, mem>>
<1>1. ASSUME NEW c \in Clients,
             \/ Connect(c) \/ CheckCommitAbort(c) \/ Deliver(c)
             \/ GetValueFound(c) \/ Decode(c) \/ \E k \in KeysOf[c] : Get(c, k)
      PROVE  UNCHANGED <<upc, tpc, jkey, jval, jstripes, jplace, jdata, jtodo,
                         updating, commit, stripeInfo, mem>>
  BY <1>1 DEF Connect, CheckCommitAbort, Deliver, GetValueFound, Decode, Get
<1>2. ASSUME NEW r \in reads, GetFromMemcached(r)
      PROVE  UNCHANGED <<upc, tpc, jkey, jval, jstripes, jplace, jdata, jtodo,
                         updating, commit, stripeInfo, mem>>
  BY <1>2 DEF GetFromMemcached
<1> QED BY <1>1, <1>2, OneCases

(* A new set takes a job that nobody has used.                             *)
LEMMA NewJob ==
  ASSUME ShapeInv, NEW c \in Clients, NEW k \in KeysOf[c], NEW v \in Vals,
         NEW n \in 1..MaxStripes, Set(c, k, v, n)
  PROVE  /\ sets + 1 \in Jobs /\ upc[sets + 1] = "unused" /\ tpc[sets + 1] = "none"
         /\ upc' = [upc EXCEPT ![sets + 1] = "erase"]
         /\ jkey' = [jkey EXCEPT ![sets + 1] = k]
         /\ jval' = [jval EXCEPT ![sets + 1] = v]
         /\ UNCHANGED <<tpc, jstripes, jplace, jdata, jtodo, updating, commit,
                        stripeInfo, mem, backlog, keyValues, ckey, reader, reads,
                        gets>>
<1>1. sets + 1 \in Jobs /\ sets + 1 > sets
  BY BoundsAssumption DEF ShapeInv, TypeOK, JobTypeOK, Set
<1>2. upc[sets + 1] = "unused" /\ tpc[sets + 1] = "none"
  BY <1>1 DEF ShapeInv, JobShape
<1> QED BY <1>1, <1>2 DEF Set

LEMMA PlanMadeStep ==
  ASSUME Setting, OneInv, [Next]_vars
  PROVE  PlanMade'
<1> USE DEF OneInv, SafeInv, ShapeInv, TypeOK, JobTypeOK, PlanTypeOK
<1>0. ShapeInv /\ PlanMade
  BY DEF CourseInv
<1>1. ASSUME NEW c \in Clients, NEW k \in KeysOf[c], NEW v \in Vals,
             NEW n \in 1..MaxStripes, Set(c, k, v, n)
      PROVE  PlanMade'
  <2>1. /\ sets + 1 \in Jobs /\ upc' = [upc EXCEPT ![sets + 1] = "erase"]
        /\ jstripes' = jstripes
    BY <1>0, <1>1, NewJob
  <2> QED BY <1>0, <2>1 DEF PlanMade
<1>2. ASSUME NEW j \in Jobs, UploadStoreStripeId(j)
      PROVE  PlanMade'
  <2>1. /\ \A i \in Jobs : i # j => upc'[i] = upc[i] /\ jstripes'[i] = jstripes[i]
        /\ jstripes'[j] = Append(jstripes[j], jreg[j])
    BY <1>2 DEF UploadStoreStripeId
  <2>2. jstripes'[j] # <<>>
    BY <2>1
  <2> QED BY <1>0, <2>1, <2>2 DEF PlanMade
<1>3. ASSUME NEW j \in Jobs,
             \/ UploadErase(j) \/ UploadLoadStripeId(j) \/ UploadPublish(j)
             \/ \E a \in AZs : EncodeAndSetObject(j, a)
      PROVE  PlanMade'
  <2>1. /\ jstripes' = jstripes
        /\ \A i \in Jobs : upc'[i] \in {"rpc", "publish", "replied"} =>
             upc[i] \in {"rpc", "publish", "replied"}
    BY <1>3 DEF UploadErase, UploadLoadStripeId, UploadPublish, EncodeAndSetObject
  <2> QED BY <1>0, <2>1 DEF PlanMade
<1>4. CASE UNCHANGED <<upc, jstripes>>
  BY <1>0, <1>4 DEF PlanMade
<1>5. ASSUME NEW j \in Jobs, ThreadStep(j)
      PROVE  UNCHANGED <<upc, jstripes>>
  BY <1>5 DEF ThreadStep, Accept, ReportCommitAbort, SetToMemcached
<1> QED BY <1>1, <1>2, <1>3, <1>4, <1>5, JobFrame DEF UploadStep

(* The connection at the head of the queue is from the thread's client.    *)
LEMMA AcceptsItsOwn ==
  ASSUME OneClient, OneInv, NEW j \in Jobs, Accept(j)
  PROVE  /\ upc[j] = "replied"
         /\ jdata' = [jdata EXCEPT ![j] = jval[j]]
<1> DEFINE queue == backlog[jproxy[j]]
<1>0. ShapeInv /\ OwnConnection
  BY DEF OneInv, SafeInv, CourseInv
<1>1. /\ tpc[j] = "accept" /\ jproxy[j] \in AZs /\ queue # <<>>
      /\ jdata' = [jdata EXCEPT ![j] = IF Head(queue).key = jkey[j]
                                       THEN Head(queue).val ELSE Blank]
  BY <1>0 DEF Accept, ShapeInv, JobShape
<1>2. queue \in Seq([key : Keys, val : Vals])
  BY <1>0, <1>1 DEF ShapeInv, TypeOK, NodeTypeOK
<1>3. 1 \in 1..Len(queue) /\ Head(queue) = queue[1]
  BY <1>1, <1>2
<1>4. PICK c \in Clients :
        cpc[c] = "check" /\ queue[1] = [key |-> jkey[cjob[c]], val |-> jval[cjob[c]]]
  BY <1>0, <1>1, <1>3 DEF OwnConnection
<1>5. cjob[c] = j
  BY <1>1, AtWork, TheClientsJob
<1>6. upc[j] = "replied"
  BY <1>0, <1>4, <1>5 DEF ShapeInv, ClientShape
<1>7. Head(queue).key = jkey[j] /\ Head(queue).val = jval[j]
  BY <1>3, <1>4, <1>5
<1> HIDE DEF queue
<1> QED BY <1>1, <1>6, <1>7

LEMMA OwnDataStep ==
  ASSUME Setting, OneInv, [Next]_vars
  PROVE  OwnData'
<1> USE DEF OneInv, SafeInv, ShapeInv, TypeOK, JobTypeOK, DataTypeOK
<1>0. ShapeInv /\ OwnData
  BY DEF CourseInv
<1>1. ASSUME NEW c \in Clients, NEW k \in KeysOf[c], NEW v \in Vals,
             NEW n \in 1..MaxStripes, Set(c, k, v, n)
      PROVE  OwnData'
  BY <1>0, <1>1, NewJob DEF OwnData
<1>2. ASSUME NEW j \in Jobs, UploadStep(j)
      PROVE  OwnData'
  <2>1. /\ UNCHANGED <<jdata, jval>> /\ upc[j] # "replied"
        /\ \A i \in Jobs : /\ i # j => upc'[i] = upc[i]
                           /\ tpc'[i] \in {"save", "done"} => tpc'[i] = tpc[i]
    BY <1>2 DEF UploadStep, UploadErase, UploadLoadStripeId, UploadStoreStripeId,
       EncodeAndSetObject, UploadPublish
  <2> QED BY <1>0, <2>1 DEF OwnData
<1>3. ASSUME NEW j \in Jobs, Accept(j)
      PROVE  OwnData'
  <2>1. /\ upc[j] = "replied" /\ jdata' = [jdata EXCEPT ![j] = jval[j]]
        /\ tpc' = [tpc EXCEPT ![j] = "save"] /\ UNCHANGED <<upc, jval>>
    BY <1>3, AcceptsItsOwn DEF Accept, Setting
  <2> QED BY <1>0, <2>1 DEF OwnData
<1>4. ASSUME NEW j \in Jobs,
             ReportCommitAbort(j) \/ \E t \in jtodo[j] : SetToMemcached(j, t[1], t[2])
      PROVE  OwnData'
  <2>1. /\ UNCHANGED <<jdata, jval, upc>>
        /\ \A i \in Jobs : tpc'[i] \in {"save", "done"} => tpc[i] \in {"save", "done"}
    BY <1>4 DEF ReportCommitAbort, SetToMemcached
  <2> QED BY <1>0, <2>1 DEF OwnData
<1>5. CASE UNCHANGED <<upc, tpc, jdata, jval>>
  BY <1>0, <1>5 DEF OwnData
<1> QED BY <1>1, <1>2, <1>3, <1>4, <1>5, JobFrame DEF ThreadStep

LEMMA PublishedStep ==
  ASSUME Setting, OneInv, [Next]_vars
  PROVE  Published'
<1> USE DEF OneInv, SafeInv, ShapeInv, TypeOK, JobTypeOK, PlanTypeOK, CoordTypeOK
<1>0. ShapeInv /\ Published
  BY DEF CourseInv
<1>a. \A i, j \in Jobs : i # j /\ (upc[j] = "publish" \/ tpc[j] = "save") =>
        ~ (upc[i] = "replied" /\ tpc[i] # "done")
  <2> SUFFICES ASSUME NEW i \in Jobs, NEW j \in Jobs, i # j,
                      upc[j] = "publish" \/ tpc[j] = "save",
                      upc[i] = "replied", tpc[i] # "done"
               PROVE  FALSE
    OBVIOUS
  <2>1. Unfinished(i) /\ Unfinished(j)
    BY AtWork DEF Unfinished
  <2> QED BY <2>1, OneJob DEF Setting
<1>1. ASSUME NEW c \in Clients, NEW k \in KeysOf[c], NEW v \in Vals,
             NEW n \in 1..MaxStripes, Set(c, k, v, n)
      PROVE  Published'
  BY <1>0, <1>1, NewJob DEF Published
<1>2. ASSUME NEW j \in Jobs,
             \/ UploadErase(j) \/ UploadLoadStripeId(j) \/ UploadStoreStripeId(j)
             \/ \E a \in AZs : EncodeAndSetObject(j, a)
      PROVE  Published'
  <2>1. /\ UNCHANGED <<updating, jkey>> /\ upc'[j] # "replied"
        /\ \A i \in Jobs : i # j =>
             upc'[i] = upc[i] /\ tpc'[i] = tpc[i] /\ jstripes'[i] = jstripes[i]
    BY <1>2 DEF UploadErase, UploadLoadStripeId, UploadStoreStripeId, EncodeAndSetObject
  <2> QED BY <1>0, <2>1 DEF Published
<1>3. ASSUME NEW j \in Jobs, UploadPublish(j)
      PROVE  Published'
  <2>1. /\ UNCHANGED <<tpc, jkey, jstripes>> /\ upc[j] = "publish"
        /\ upc' = [upc EXCEPT ![j] = "replied"]
        /\ updating' = [updating EXCEPT ![jkey[j]] = jstripes[j]]
        /\ jkey[j] \in Keys
    BY <1>0, <1>3 DEF UploadPublish, JobShape
  <2> QED BY <1>a, <2>1 DEF Published
<1>4. ASSUME NEW j \in Jobs, ReportCommitAbort(j)
      PROVE  Published'
  <2>1. /\ UNCHANGED <<upc, jkey, jstripes>> /\ tpc[j] = "save"
        /\ tpc' = [tpc EXCEPT ![j] = "done"]
    BY <1>4 DEF ReportCommitAbort
  <2> QED BY <1>a, <2>1 DEF Published
<1>5. ASSUME NEW j \in Jobs,
             Accept(j) \/ \E t \in jtodo[j] : SetToMemcached(j, t[1], t[2])
      PROVE  Published'
  <2>1. /\ UNCHANGED <<upc, updating, jkey, jstripes>>
        /\ \A i \in Jobs : tpc[i] = "done" => tpc'[i] = "done"
    BY <1>5 DEF Accept, SetToMemcached
  <2> QED BY <1>0, <2>1 DEF Published
<1>6. CASE UNCHANGED <<upc, tpc, updating, jkey, jstripes>>
  BY <1>0, <1>6 DEF Published
<1> QED BY <1>1, <1>2, <1>3, <1>4, <1>5, <1>6, JobFrame DEF UploadStep, ThreadStep

(* The queues are empty but while the client waits in check.               *)
LEMMA QueuesEmpty ==
  ASSUME Setting, OneInv, NEW c \in Clients, cpc[c] # "check", NEW a \in AZs
  PROVE  Len(backlog[a]) = 0
<1>1. backlog[a] \in Seq([key : Keys, val : Vals])
  BY DEF OneInv, SafeInv, ShapeInv, TypeOK, NodeTypeOK
<1>2. ASSUME NEW x \in 1..Len(backlog[a])
      PROVE  FALSE
  <2>1. PICK d \in Clients : cpc[d] = "check"
    BY DEF OneInv, CourseInv, OwnConnection
  <2> QED BY <2>1 DEF Setting, OneClient
<1> QED BY <1>1, <1>2

(* They are empty too when the commit the client waits for has been made:  *)
(* its thread, the only one, has long accepted the connection.             *)
LEMMA QueuesServed ==
  ASSUME Setting, OneInv, NEW c \in Clients, CheckCommitAbort(c), NEW a \in AZs
  PROVE  Len(backlog[a]) = 0
<1> USE DEF OneInv, SafeInv
<1>1. cpc[c] = "check" /\ commit[jkey[cjob[c]]] # Absent /\ coordUp
  BY DEF CheckCommitAbort
<1>2. tpc[cjob[c]] = "done"
  BY <1>1 DEF OwnerInv, ShapeInv, ClientShape
<1>3. Accepting(a) = {}
  <2> SUFFICES ASSUME NEW j \in Accepting(a)
               PROVE  FALSE
    OBVIOUS
  <2>1. j \in Jobs /\ tpc[j] = "accept"
    BY DEF Accepting
  <2>2. cjob[c] = j
    BY <2>1, AtWork, TheClientsJob DEF Setting
  <2> QED BY <1>2, <2>1, <2>2
<1>4. IsFiniteSet(Coming(a))
  BY BalanceFinite DEF BalanceInv
<1>5. Cardinality(Coming(a)) \in Nat
  BY <1>4, FS_CardinalityType
<1>6. Cardinality(Accepting(a)) = Len(backlog[a]) + Cardinality(Coming(a))
  <2>1. AcceptBalance
    BY DEF BalanceInv
  <2> QED BY <1>1, <2>1 DEF AcceptBalance, Accepting, Coming
<1>7. Len(backlog[a]) \in Nat
  BY DEF ShapeInv, TypeOK, NodeTypeOK
<1> QED BY <1>3, <1>5, <1>6, <1>7, FS_EmptySet

LEMMA OwnConnectionStep ==
  ASSUME Setting, OneInv, [Next]_vars
  PROVE  OwnConnection'
<1>0. ShapeInv /\ OwnConnection
  BY DEF OneInv, SafeInv, CourseInv
<1> USE DEF ShapeInv, TypeOK, NodeTypeOK, ClientTypeOK, JobTypeOK
<1>1. ASSUME \A a \in AZs : Len(backlog'[a]) = 0
      PROVE  OwnConnection'
  BY <1>1 DEF OwnConnection
<1>2. ASSUME NEW c \in Clients, cpc[c] # "check", UNCHANGED backlog
      PROVE  OwnConnection'
  BY <1>1, <1>2, QueuesEmpty
<1>3. ASSUME NEW c \in Clients, Connect(c)
      PROVE  OwnConnection'
  <2> DEFINE conn == [key |-> jkey[cjob[c]], val |-> jval[cjob[c]]]
  <2>1. /\ cpc' = [cpc EXCEPT ![c] = "check"] /\ UNCHANGED <<cjob, jkey, jval>>
        /\ backlog' = [backlog EXCEPT ![jproxy[cjob[c]]] = Append(@, conn)]
        /\ cpc[c] = "upload"
    BY <1>3 DEF Connect
  <2>2. cpc'[c] = "check" /\ conn' = conn
    BY <1>0, <2>1
  <2> HIDE DEF conn
  <2>3. ASSUME NEW a \in AZs, NEW x \in 1..Len(backlog'[a])
        PROVE  backlog'[a][x] = conn
    <3>1. Len(backlog[a]) = 0 /\ backlog[a] \in Seq([key : Keys, val : Vals])
      BY <1>0, <2>1, QueuesEmpty
    <3>2. backlog'[a] = Append(backlog[a], conn)
      <4>1. backlog'[a] \in {backlog[a], Append(backlog[a], conn)}
        BY <1>0, <2>1
      <4>2. backlog'[a] # backlog[a]
        BY <2>3, <3>1
      <4> QED BY <4>1, <4>2
    <3>3. x = 1
      BY <2>3, <3>1, <3>2
    <3> QED BY <3>1, <3>2, <3>3
  <2>4. \A a \in AZs : \A x \in 1..Len(backlog'[a]) : backlog'[a][x] = conn'
    BY <2>2, <2>3
  <2> QED BY <2>2, <2>4 DEF OwnConnection, conn
<1>4. ASSUME NEW c \in Clients, CheckCommitAbort(c)
      PROVE  OwnConnection'
  <2>1. \A a \in AZs : Len(backlog'[a]) = 0
    BY <1>4, QueuesServed DEF CheckCommitAbort
  <2> QED BY <1>1, <2>1
<1>5. ASSUME NEW j \in Jobs, Accept(j)
      PROVE  OwnConnection'
  <2>1. /\ UNCHANGED <<cpc, cjob, jkey, jval>>
        /\ jproxy[j] \in AZs /\ backlog[jproxy[j]] # <<>>
        /\ backlog' = [backlog EXCEPT ![jproxy[j]] = Tail(@)]
    BY <1>0, <1>5 DEF Accept, JobShape
  <2>2. ASSUME NEW a \in AZs, NEW x \in 1..Len(backlog'[a])
        PROVE  \E y \in 1..Len(backlog[a]) : backlog'[a][x] = backlog[a][y]
    <3>0. backlog[a] \in Seq([key : Keys, val : Vals])
      BY <1>0
    <3>1. CASE a = jproxy[j]
      <4>1. backlog'[a] = Tail(backlog[a]) /\ backlog[a] # <<>>
        BY <1>0, <2>1, <3>1
      <4>2. x + 1 \in 1..Len(backlog[a]) /\ backlog'[a][x] = backlog[a][x + 1]
        BY <2>2, <3>0, <4>1
      <4> QED BY <4>2
    <3>2. CASE a # jproxy[j]
      BY <1>0, <2>1, <2>2, <3>2
    <3> QED BY <3>1, <3>2
  <2>3. ASSUME NEW a \in AZs, NEW x \in 1..Len(backlog'[a])
        PROVE  \E c \in Clients :
                 /\ cpc'[c] = "check"
                 /\ backlog'[a][x] = [key |-> jkey'[cjob'[c]], val |-> jval'[cjob'[c]]]
    <3>1. PICK y \in 1..Len(backlog[a]) : backlog'[a][x] = backlog[a][y]
      BY <2>2
    <3> QED BY <1>0, <2>1, <3>1 DEF OwnConnection
  <2> QED BY <2>3 DEF OwnConnection
<1>6. CASE UNCHANGED <<backlog, cpc, cjob, jkey, jval>>
  BY <1>0, <1>6 DEF OwnConnection
<1>7. ASSUME NEW c \in Clients,
             \/ Deliver(c) \/ GetValueFound(c) \/ Decode(c)
             \/ \E k \in KeysOf[c] : Get(c, k)
             \/ \E k \in KeysOf[c], v \in Vals, n \in 1..MaxStripes : Set(c, k, v, n)
      PROVE  OwnConnection'
  <2>1. \/ cpc[c] # "check" /\ UNCHANGED backlog
        \/ UNCHANGED <<backlog, cpc, cjob, jkey, jval>>
    BY <1>7 DEF Deliver, GetValueFound, Decode, Get, Set
  <2> QED BY <1>2, <1>6, <2>1
<1>8. ASSUME NEW j \in Jobs,
             \/ UploadStep(j) \/ ReportCommitAbort(j)
             \/ \E t \in jtodo[j] : SetToMemcached(j, t[1], t[2])
      PROVE  UNCHANGED <<backlog, cpc, cjob, jkey, jval>>
  BY <1>8 DEF UploadStep, UploadErase, UploadLoadStripeId, UploadStoreStripeId,
     EncodeAndSetObject, UploadPublish, ReportCommitAbort, SetToMemcached
<1>9. ASSUME NEW r \in reads, GetFromMemcached(r)
      PROVE  UNCHANGED <<backlog, cpc, cjob, jkey, jval>>
  BY <1>9 DEF GetFromMemcached
<1> HIDE DEF ShapeInv, TypeOK, NodeTypeOK, ClientTypeOK, JobTypeOK
<1> QED BY <1>3, <1>4, <1>5, <1>6, <1>7, <1>8, <1>9, OneCases DEF ThreadStep

LEMMA CourseStep ==
  ASSUME Setting, OneInv, [Next]_vars
  PROVE  CourseInv'
BY PlanMadeStep, OwnDataStep, PublishedStep, OwnConnectionStep DEF CourseInv
-----------------------------------------------------------------------------
(* The blocks on the datanodes                                             *)

LEMMA BlocksOnceStep ==
  ASSUME Setting, OneInv, [Next]_vars
  PROVE  BlocksOnce'
<1>0. ShapeInv /\ BlocksOnce
  BY DEF OneInv, SafeInv, DataInv
<1> USE DEF ShapeInv, TypeOK, NodeTypeOK
<1>1. ASSUME NEW j \in Jobs, NEW t \in jtodo[j], SetToMemcached(j, t[1], t[2])
      PROVE  BlocksOnce'
  <2> DEFINE m == jplace[j][t[1]][t[2]]
             b == [stripe |-> jstripes[j][t[1]], shard |-> t[2], data |-> jdata[j]]
  <2>1. mem' = mem \/ mem' = [mem EXCEPT ![m] = Replace(@, b)]
    BY <1>1 DEF SetToMemcached
  <2> HIDE DEF m, b
  <2>2. ASSUME NEW n \in Nodes, NEW x \in mem'[n], NEW y \in mem'[n],
               x.stripe = y.stripe, x.shard = y.shard
        PROVE  x = y
    <3>1. CASE mem'[n] = mem[n]
      BY <1>0, <2>2, <3>1 DEF BlocksOnce
    <3>2. CASE mem'[n] = Replace(mem[n], b)
      BY <1>0, <2>2, <3>2 DEF BlocksOnce, Replace
    <3> QED BY <1>0, <2>1, <3>1, <3>2
  <2> QED BY <2>2 DEF BlocksOnce
<1>2. CASE UNCHANGED mem
  BY <1>0, <1>2 DEF BlocksOnce
<1>3. ASSUME NEW j \in Jobs, UploadStep(j) \/ Accept(j) \/ ReportCommitAbort(j)
      PROVE  UNCHANGED mem
  BY <1>3 DEF UploadStep, UploadErase, UploadLoadStripeId, UploadStoreStripeId,
     EncodeAndSetObject, UploadPublish, Accept, ReportCommitAbort
<1>4. ASSUME NEW c \in Clients, NEW k \in KeysOf[c], NEW v \in Vals,
             NEW n \in 1..MaxStripes, Set(c, k, v, n)
      PROVE  UNCHANGED mem
  BY <1>4 DEF Set
<1> QED BY <1>1, <1>2, <1>3, <1>4, JobFrame DEF ThreadStep

LEMMA PlacedOnNode ==
  ASSUME ShapeInv, NEW j \in Jobs, NEW i \in 1..Len(jstripes[j]), NEW s \in Shards
  PROVE  jplace[j][i][s] \in Nodes
<1>1. i \in 1..Len(jplace[j]) /\ jplace[j] \in Seq(Placements)
  BY DEF ShapeInv, JobShape, TypeOK, PlanTypeOK
<1> QED BY <1>1, ShardsAssumption

LEMMA DataSavedStep ==
  ASSUME Setting, OneInv, [Next]_vars
  PROVE  DataSaved'
<1>0. ShapeInv /\ DataSaved /\ OwnInv /\ OwnData
  BY DEF OneInv, SafeInv, DataInv, CourseInv
<1> USE DEF ShapeInv, TypeOK, JobTypeOK, PlanTypeOK, DataTypeOK, NodeTypeOK
<1> DEFINE Saved(j, i, s) ==
      [stripe |-> jstripes[j][i], shard |-> s, data |-> jval[j]] \in mem[jplace[j][i][s]]
<1>1. ASSUME NEW c \in Clients, NEW k \in KeysOf[c], NEW v \in Vals,
             NEW n \in 1..MaxStripes, Set(c, k, v, n)
      PROVE  DataSaved'
  <2>1. /\ tpc[sets + 1] = "none" /\ jval' = [jval EXCEPT ![sets + 1] = v]
        /\ UNCHANGED <<tpc, jstripes, jplace, jtodo, mem>>
    BY <1>0, <1>1, NewJob
  <2>2. ASSUME NEW j \in Jobs, tpc[j] \in {"save", "done"}
        PROVE  jval'[j] = jval[j]
    BY <1>0, <2>1, <2>2
  <2> QED BY <1>0, <2>1, <2>2 DEF DataSaved
<1>2. ASSUME NEW j \in Jobs, UploadStep(j)
      PROVE  DataSaved'
  <2>1. /\ UNCHANGED <<jval, jtodo, mem>>
        /\ \A i \in Jobs : tpc'[i] \in {"save", "done"} =>
             /\ tpc[i] = tpc'[i]
             /\ jstripes'[i] = jstripes[i] /\ jplace'[i] = jplace[i]
    <3>1. CASE UploadStoreStripeId(j)
      <4>1. tpc[j] = "none"
        BY <1>0, <3>1 DEF UploadStoreStripeId, JobShape
      <4> QED BY <3>1, <4>1 DEF UploadStoreStripeId
    <3>2. CASE \E a \in AZs : EncodeAndSetObject(j, a)
      BY <1>0, <3>2 DEF EncodeAndSetObject
    <3>3. CASE UploadErase(j) \/ UploadLoadStripeId(j) \/ UploadPublish(j)
      BY <3>3 DEF UploadErase, UploadLoadStripeId, UploadPublish
    <3> QED BY <1>2, <3>1, <3>2, <3>3 DEF UploadStep
  <2> QED BY <1>0, <2>1 DEF DataSaved
<1>3. ASSUME NEW j \in Jobs, Accept(j)
      PROVE  DataSaved'
  <2>1. /\ UNCHANGED <<jval, jstripes, jplace, mem>>
        /\ tpc' = [tpc EXCEPT ![j] = "save"]
        /\ jtodo' = [jtodo EXCEPT ![j] = (1..Len(jstripes[j])) \X Shards]
    BY <1>3 DEF Accept
  <2>2. ASSUME NEW h \in Jobs, tpc'[h] \in {"save", "done"},
               NEW i \in 1..Len(jstripes[h]), NEW s \in Shards, <<i, s>> \notin jtodo'[h]
        PROVE  tpc[h] \in {"save", "done"} /\ <<i, s>> \notin jtodo[h]
    <3>1. h # j
      BY <1>0, <2>1, <2>2
    <3> QED BY <1>0, <2>1, <2>2, <3>1
  <2> QED BY <1>0, <2>1, <2>2 DEF DataSaved
<1>4. ASSUME NEW j \in Jobs, ReportCommitAbort(j)
      PROVE  DataSaved'
  <2>1. /\ UNCHANGED <<jval, jstripes, jplace, mem, jtodo>>
        /\ \A h \in Jobs : tpc'[h] \in {"save", "done"} => tpc[h] \in {"save", "done"}
    BY <1>4 DEF ReportCommitAbort
  <2> QED BY <1>0, <2>1 DEF DataSaved
<1>5. ASSUME NEW j \in Jobs, NEW t \in jtodo[j], SetToMemcached(j, t[1], t[2])
      PROVE  DataSaved'
  <2>1. /\ UNCHANGED <<jval, jstripes, jplace, tpc>> /\ tpc[j] = "save"
        /\ jtodo' = [jtodo EXCEPT ![j] = @ \ {<<t[1], t[2]>>}]
    BY <1>5 DEF SetToMemcached
  <2>2. /\ t[1] \in 1..Len(jstripes[j]) /\ t[2] \in Shards /\ t = <<t[1], t[2]>>
        /\ jdata[j] = jval[j]
    BY <1>0, <2>1 DEF SaveShape, OwnData
  <2> DEFINE m == jplace[j][t[1]][t[2]]
             b == [stripe |-> jstripes[j][t[1]], shard |-> t[2], data |-> jval[j]]
  <2>3. m \in Nodes /\ up[m]
    BY <1>0, <2>2, PlacedOnNode DEF OneInv, Running
  <2>4. mem' = [mem EXCEPT ![m] = Replace(@, b)]
    BY <1>5, <2>2, <2>3 DEF SetToMemcached
  <2>5. b \in mem'[m] /\ m \in Nodes
    <3> HIDE DEF m, b
    <3> QED BY <1>0, <2>3, <2>4 DEF Replace
  <2>6. ASSUME NEW h \in Jobs, tpc[h] \in {"save", "done"},
               NEW i \in 1..Len(jstripes[h]), NEW s \in Shards, <<i, s>> \notin jtodo'[h]
        PROVE  [stripe |-> jstripes[h][i], shard |-> s, data |-> jval[h]]
                 \in mem'[jplace[h][i][s]]
    <3> DEFINE d == [stripe |-> jstripes[h][i], shard |-> s, data |-> jval[h]]
               q == jplace[h][i][s]
    <3>1. q \in Nodes
      BY <1>0, PlacedOnNode
    <3>2. CASE h = j /\ i = t[1] /\ s = t[2]
      BY <2>5, <3>2
    <3>3. CASE ~ (h = j /\ i = t[1] /\ s = t[2])
      <4>1. <<i, s>> \notin jtodo[h]
        BY <1>0, <2>1, <2>2, <2>6, <3>3
      <4>2. d \in mem[q]
        BY <1>0, <2>6, <4>1 DEF DataSaved
      <4>3. d.stripe = b.stripe /\ d.shard = b.shard => d = b
        <5> SUFFICES ASSUME jstripes[h][i] = jstripes[j][t[1]], s = t[2]
                     PROVE  d = b
          OBVIOUS
        <5>1. h = j
          BY <1>0, <2>2 DEF OwnInv
        <5> QED BY <5>1
      <4> HIDE DEF d, q, m, b
      <4>4. d \in mem'[q]
        <5>1. CASE q = m
          BY <1>0, <2>3, <2>4, <4>2, <4>3, <5>1 DEF Replace
        <5>2. CASE q # m
          BY <1>0, <2>4, <3>1, <4>2, <5>2
        <5> QED BY <5>1, <5>2
      <4> QED BY <4>4 DEF d, q
    <3> QED BY <3>2, <3>3
  <2> QED BY <2>1, <2>6 DEF DataSaved
<1>6. CASE UNCHANGED <<tpc, jval, jstripes, jplace, jtodo, mem>>
  BY <1>0, <1>6 DEF DataSaved
<1> QED BY <1>1, <1>2, <1>3, <1>4, <1>5, <1>6, JobFrame DEF ThreadStep

LEMMA DataStep ==
  ASSUME Setting, OneInv, [Next]_vars
  PROVE  DataInv'
BY BlocksOnceStep, DataSavedStep DEF DataInv

(* Every block of an object in the commit table is on its datanode, with   *)
(* the value the key has for the client.                                   *)
LEMMA CommittedHolds ==
  ASSUME Setting, OneInv, NEW c \in Clients, NEW k \in Keys, commit[k] # Absent,
         NEW i \in 1..Len(commit[k]), NEW s \in Shards
  PROVE  /\ stripeInfo[commit[k][i]][s] \in Nodes
         /\ [stripe |-> commit[k][i], shard |-> s, data |-> Current(c, k)]
              \in mem[stripeInfo[commit[k][i]][s]]
<1> USE DEF OneInv, SafeInv
<1>1. PICK j \in Jobs : /\ tpc[j] = "done" /\ commit[k] = jstripes[j]
                        /\ jval[j] = Current(c, k)
  BY CommittedPlan
<1>2. jtodo[j] = {}
  BY <1>1 DEF ShapeInv, SaveShape
<1>3. stripeInfo[jstripes[j][i]] = jplace[j][i] /\ jplace[j][i][s] \in Nodes
  BY <1>1, PlacedOnNode DEF AllocInv
<1>4. [stripe |-> jstripes[j][i], shard |-> s, data |-> jval[j]] \in mem[jplace[j][i][s]]
  BY <1>1, <1>2 DEF DataInv, DataSaved
<1> QED BY <1>1, <1>3, <1>4
-----------------------------------------------------------------------------
(* The values the commit table stands for                                  *)

LEMMA EndedStays ==
  ASSUME Setting, OneInv, [Next]_vars, NEW j \in Jobs, tpc[j] = "done"
  PROVE  /\ tpc'[j] = "done" /\ jstripes'[j] = jstripes[j]
         /\ jkey'[j] = jkey[j] /\ jval'[j] = jval[j]
<1>0. ShapeInv
  BY DEF OneInv, SafeInv
<1>1. tpc'[j] = "done" /\ jstripes'[j] = jstripes[j]
  BY <1>0, DoneStays
<1>2. ASSUME NEW c \in Clients, NEW k \in KeysOf[c], NEW v \in Vals,
             NEW n \in 1..MaxStripes, Set(c, k, v, n)
      PROVE  jkey'[j] = jkey[j] /\ jval'[j] = jval[j]
  BY <1>0, <1>2, NewJob DEF ShapeInv, TypeOK, JobTypeOK
<1>3. ASSUME NEW i \in Jobs, UploadStep(i) \/ ThreadStep(i)
      PROVE  jkey'[j] = jkey[j] /\ jval'[j] = jval[j]
  BY <1>3 DEF UploadStep, ThreadStep, UploadErase, UploadLoadStripeId,
     UploadStoreStripeId, EncodeAndSetObject, UploadPublish, Accept,
     ReportCommitAbort, SetToMemcached
<1> QED BY <1>1, <1>2, <1>3, JobFrame

(* A key whose entry and value do not change keeps what ValueInv says.     *)
LEMMA ValueKept ==
  ASSUME Setting, OneInv, [Next]_vars, NEW c \in Clients, NEW k \in Keys,
         commit'[k] = commit[k], Current(c, k)' = Current(c, k),
         ~ Resetting(c, k)' => ~ Resetting(c, k) \/ commit[k] # Absent,
         ~ Resetting(c, k)' /\ ~ Resetting(c, k) => keyValues'[c][k] = keyValues[c][k]
  PROVE  /\ commit'[k] # Absent => \E j \in Jobs :
              /\ tpc'[j] = "done" /\ jkey'[j] = k
              /\ commit'[k] = jstripes'[j] /\ jval'[j] = Current(c, k)'
         /\ ~ Resetting(c, k)' /\ keyValues'[c][k] # None => commit'[k] # Absent
<1>1. ASSUME commit'[k] # Absent
      PROVE  \E j \in Jobs : /\ tpc'[j] = "done" /\ jkey'[j] = k
                             /\ commit'[k] = jstripes'[j] /\ jval'[j] = Current(c, k)'
  <2>1. PICK j \in Jobs : /\ tpc[j] = "done" /\ jkey[j] = k
                          /\ commit[k] = jstripes[j] /\ jval[j] = Current(c, k)
    BY <1>1, CommittedPlan
  <2>2. /\ tpc'[j] = "done" /\ jstripes'[j] = jstripes[j]
        /\ jkey'[j] = jkey[j] /\ jval'[j] = jval[j]
    BY <2>1, EndedStays
  <2> QED BY <2>1, <2>2
<1>2. ~ Resetting(c, k)' /\ keyValues'[c][k] # None => commit'[k] # Absent
  BY DEF OneInv, ValueInv
<1> QED BY <1>1, <1>2

(* Where a client stands does not matter as long as it stays in its set or *)
(* stays out of one.                                                       *)
LEMMA ResettingSame ==
  ASSUME NEW c \in Clients, NEW k \in Keys,
         cpc'[c] \in InSet <=> cpc[c] \in InSet,
         cpc[c] \in InSet => /\ cjob'[c] = cjob[c]
                             /\ jkey'[cjob[c]] = jkey[cjob[c]]
                             /\ jval'[cjob[c]] = jval[cjob[c]]
                             /\ upc'[cjob[c]] = "erase" <=> upc[cjob[c]] = "erase",
         commit'[k] = commit[k], keyValues'[c][k] = keyValues[c][k]
  PROVE  /\ Resetting(c, k)' <=> Resetting(c, k)
         /\ Current(c, k)' = Current(c, k)
<1>1. Resetting(c, k)' <=> Resetting(c, k)
  BY DEF Resetting
<1>2. Resetting(c, k) => jval'[cjob'[c]] = jval[cjob[c]]
  BY DEF Resetting
<1> QED BY <1>1, <1>2 DEF Current

LEMMA ValueStep ==
  ASSUME Setting, OneInv, [Next]_vars
  PROVE  ValueInv'
<1>0. ShapeInv /\ OwnerInv
  BY DEF OneInv, SafeInv
<1> USE DEF ShapeInv, TypeOK, ClientTypeOK, JobTypeOK, CoordTypeOK
<1> DEFINE Kept(c, k) ==
      /\ commit'[k] # Absent => \E j \in Jobs :
           /\ tpc'[j] = "done" /\ jkey'[j] = k
           /\ commit'[k] = jstripes'[j] /\ jval'[j] = Current(c, k)'
      /\ ~ Resetting(c, k)' /\ keyValues'[c][k] # None => commit'[k] # Absent
<1>1. ASSUME \A c \in Clients, k \in Keys : Kept(c, k)
      PROVE  ValueInv'
  BY <1>1 DEF ValueInv
<1>2. ASSUME NEW c \in Clients, NEW k \in Keys,
             commit'[k] = commit[k], Current(c, k)' = Current(c, k),
             Resetting(c, k)' <=> Resetting(c, k),
             keyValues'[c][k] = keyValues[c][k]
      PROVE  Kept(c, k)
  BY <1>2, ValueKept
<1> HIDE DEF Kept
<1>3. ASSUME UNCHANGED <<upc, jkey, jval, cjob, commit, keyValues>>,
             \A c \in Clients : cpc'[c] \in InSet <=> cpc[c] \in InSet
      PROVE  ValueInv'
  <2>1. ASSUME NEW c \in Clients, NEW k \in Keys
        PROVE  Kept(c, k)
    <3>1. /\ Resetting(c, k)' <=> Resetting(c, k)
          /\ Current(c, k)' = Current(c, k)
      BY <1>3, ResettingSame
    <3> QED BY <1>2, <1>3, <3>1
  <2> QED BY <1>1, <2>1
<1>4. ASSUME NEW c \in Clients, NEW k \in KeysOf[c], NEW v \in Vals,
             NEW n \in 1..MaxStripes, Set(c, k, v, n)
      PROVE  ValueInv'
  <2>1. /\ sets + 1 \in Jobs /\ upc' = [upc EXCEPT ![sets + 1] = "erase"]
        /\ UNCHANGED <<commit, keyValues>>
        /\ cpc[c] = "idle" /\ cjob' = [cjob EXCEPT ![c] = sets + 1]
    BY <1>0, <1>4, NewJob DEF Set
  <2>2. ASSUME NEW d \in Clients, NEW l \in Keys
        PROVE  Kept(d, l)
    <3>1. d = c
      BY DEF Setting, OneClient
    <3>2. ~ Resetting(d, l) /\ ~ Resetting(d, l)'
      BY <1>0, <2>1, <3>1 DEF Resetting
    <3>3. Current(d, l)' = Current(d, l)
      BY <2>1, <3>2 DEF Current
    <3> QED BY <1>2, <2>1, <3>2, <3>3
  <2> QED BY <1>1, <2>2
<1>5. ASSUME NEW c \in Clients, CheckCommitAbort(c)
      PROVE  ValueInv'
  <2>1. /\ cpc[c] = "check" /\ cpc' = [cpc EXCEPT ![c] = "idle"]
        /\ commit[jkey[cjob[c]]] # Absent
        /\ keyValues' = [keyValues EXCEPT ![c][jkey[cjob[c]]] = jval[cjob[c]]]
        /\ UNCHANGED <<commit, cjob, jkey, jval, upc>>
    BY <1>5 DEF CheckCommitAbort
  <2>2. upc[cjob[c]] = "replied" /\ jkey[cjob[c]] \in Keys
    BY <1>0, <2>1, BoundsAssumption DEF ClientShape, JobShape
  <2>3. ASSUME NEW d \in Clients, NEW l \in Keys
        PROVE  Kept(d, l)
    <3>1. d = c
      BY DEF Setting, OneClient
    <3>2. ~ Resetting(d, l)'
      BY <1>0, <2>1, <3>1 DEF Resetting
    <3>3. CASE l = jkey[cjob[c]]
      <4>1. Resetting(d, l) /\ commit[l] # Absent
        BY <2>1, <2>2, <3>1, <3>3 DEF Resetting
      <4>2. keyValues'[c][l] = jval[cjob[c]]
        BY <1>0, <2>1, <2>2, <3>3
      <4>3. Current(d, l)' = Current(d, l)
        BY <2>1, <3>1, <3>2, <4>1, <4>2 DEF Current
      <4> QED BY <2>1, <3>2, <4>1, <4>3, ValueKept DEF Kept
    <3>4. CASE l # jkey[cjob[c]]
      <4>1. ~ Resetting(d, l)
        BY <3>1, <3>4 DEF Resetting
      <4>2. keyValues'[d][l] = keyValues[d][l]
        BY <1>0, <2>1, <3>1, <3>4
      <4>3. Current(d, l)' = Current(d, l)
        BY <2>1, <3>2, <4>1, <4>2 DEF Current
      <4> QED BY <1>2, <2>1, <3>2, <4>1, <4>2, <4>3
    <3> QED BY <3>3, <3>4
  <2> QED BY <1>1, <2>3
<1>6. ASSUME NEW j \in Jobs, UploadErase(j)
      PROVE  ValueInv'
  <2>1. /\ upc[j] = "erase" /\ upc' = [upc EXCEPT ![j] = "load"]
        /\ commit' = [commit EXCEPT ![jkey[j]] = Absent]
        /\ UNCHANGED <<cpc, cjob, jkey, jval, keyValues>>
    BY <1>6 DEF UploadErase
  <2>2. ASSUME NEW d \in Clients, NEW l \in Keys
        PROVE  Kept(d, l)
    <3>1. cpc[d] \in InSet /\ cjob[d] = j
      BY <2>1, AtWork, TheClientsJob DEF Setting
    <3>2. CASE l = jkey[j]
      <4>1. Resetting(d, l)' /\ commit'[l] = Absent
        BY <1>0, <2>1, <3>1, <3>2 DEF Resetting
      <4> QED BY <4>1 DEF Kept
    <3>3. CASE l # jkey[j]
      <4>1. ~ Resetting(d, l) /\ ~ Resetting(d, l)' /\ commit'[l] = commit[l]
        BY <1>0, <2>1, <3>1, <3>3 DEF Resetting
      <4>2. Current(d, l)' = Current(d, l)
        BY <2>1, <4>1 DEF Current
      <4> QED BY <1>2, <2>1, <4>1, <4>2
    <3> QED BY <3>2, <3>3
  <2> QED BY <1>1, <2>2
<1>7. ASSUME NEW j \in Jobs,
             \/ UploadLoadStripeId(j) \/ UploadStoreStripeId(j) \/ UploadPublish(j)
             \/ \E a \in AZs : EncodeAndSetObject(j, a)
      PROVE  ValueInv'
  <2>1. /\ UNCHANGED <<cpc, cjob, jkey, jval, keyValues, commit>>
        /\ \A i \in Jobs : upc'[i] = "erase" <=> upc[i] = "erase"
    BY <1>0, <1>7 DEF UploadLoadStripeId, UploadStoreStripeId, UploadPublish,
       EncodeAndSetObject
  <2>2. ASSUME NEW d \in Clients, NEW l \in Keys
        PROVE  Kept(d, l)
    <3>1. cpc[d] \in InSet => cjob[d] \in Jobs
      BY <1>0, BoundsAssumption DEF ClientShape
    <3>2. /\ Resetting(d, l)' <=> Resetting(d, l)
          /\ Current(d, l)' = Current(d, l)
      BY <2>1, <3>1, ResettingSame
    <3> QED BY <1>2, <2>1, <3>2
  <2> QED BY <1>1, <2>2
<1>8. ASSUME NEW j \in Jobs, ReportCommitAbort(j)
      PROVE  ValueInv'
  <2>1. /\ tpc[j] = "save" /\ tpc' = [tpc EXCEPT ![j] = "done"]
        /\ commit' = [commit EXCEPT ![jkey[j]] = ObjectOf(jkey[j])]
        /\ UNCHANGED <<cpc, cjob, jkey, jval, keyValues, upc, jstripes>>
    BY <1>8 DEF ReportCommitAbort
  <2>2. upc[j] = "replied" /\ jkey[j] \in Keys /\ updating[jkey[j]] = jstripes[j]
    <3>1. OwnData /\ Published
      BY DEF OneInv, CourseInv
    <3>2. upc[j] = "replied"
      BY <2>1, <3>1 DEF OwnData
    <3>3. updating[jkey[j]] = jstripes[j]
      BY <2>1, <3>1, <3>2 DEF Published
    <3> QED BY <1>0, <3>2, <3>3 DEF JobShape
  <2>3. jstripes[j] \in Seq(Nat) /\ jstripes[j] # Absent
    <3>1. jstripes \in [Jobs -> Seq(Nat)]
      BY <1>0 DEF PlanTypeOK
    <3> HIDE DEF ShapeInv, TypeOK
    <3> QED BY <3>1, AbsentAssumption
  <2>4. commit'[jkey[j]] = jstripes[j]
    BY <1>0, <2>1, <2>2, <2>3 DEF ObjectOf
  <2>5. ASSUME NEW d \in Clients, NEW l \in Keys
        PROVE  Kept(d, l)
    <3>1. cpc[d] \in InSet /\ cjob[d] = j
      BY <2>1, AtWork, TheClientsJob DEF Setting
    <3>2. CASE l = jkey[j]
      <4>1. Resetting(d, l)'
        BY <2>1, <2>2, <3>1, <3>2 DEF Resetting
      <4>2. Current(d, l)' = jval[j]
        BY <2>1, <2>3, <2>4, <3>1, <3>2, <4>1 DEF Current
      <4>3. tpc'[j] = "done"
        BY <1>0, <2>1
      <4> QED BY <2>1, <2>4, <3>2, <4>1, <4>2, <4>3 DEF Kept
    <3>3. CASE l # jkey[j]
      <4>1. ~ Resetting(d, l) /\ ~ Resetting(d, l)' /\ commit'[l] = commit[l]
        BY <1>0, <2>1, <3>1, <3>3 DEF Resetting
      <4>2. Current(d, l)' = Current(d, l)
        BY <2>1, <4>1 DEF Current
      <4> QED BY <1>2, <2>1, <4>1, <4>2
    <3> QED BY <3>2, <3>3
  <2> QED BY <1>1, <2>5
<1>9. ASSUME NEW c \in Clients,
             \/ Connect(c) \/ Deliver(c) \/ GetValueFound(c) \/ Decode(c)
             \/ \E k \in KeysOf[c] : Get(c, k)
      PROVE  ValueInv'
  <2>1. /\ UNCHANGED <<upc, jkey, jval, cjob, commit, keyValues>>
        /\ \/ cpc' = cpc
           \/ cpc[c] \in InSet /\ cpc' = [cpc EXCEPT ![c] = "check"]
           \/ cpc[c] \notin InSet /\
                \E pc \in {"idle", "lookup", "wait"} : cpc' = [cpc EXCEPT ![c] = pc]
    BY <1>9 DEF Connect, Deliver, GetValueFound, Decode, Get
  <2>2. \A d \in Clients : cpc'[d] \in InSet <=> cpc[d] \in InSet
    BY <1>0, <2>1
  <2> QED BY <1>3, <2>1, <2>2
<1>10. ASSUME NEW j \in Jobs,
              Accept(j) \/ \E t \in jtodo[j] : SetToMemcached(j, t[1], t[2])
       PROVE  ValueInv'
  <2>1. UNCHANGED <<upc, jkey, jval, cjob, commit, keyValues, cpc>>
    BY <1>10 DEF Accept, SetToMemcached
  <2> QED BY <1>3, <2>1
<1>11. ASSUME (\E r \in reads : GetFromMemcached(r)) \/ UNCHANGED vars
       PROVE  ValueInv'
  <2>1. UNCHANGED <<upc, jkey, jval, cjob, commit, keyValues, cpc>>
    BY <1>11 DEF GetFromMemcached
  <2> QED BY <1>3, <2>1
<1> HIDE DEF ShapeInv, TypeOK, ClientTypeOK, JobTypeOK, CoordTypeOK
<1> QED BY <1>4, <1>5, <1>6, <1>7, <1>8, <1>9, <1>10, <1>11, OneCases
        DEF UploadStep, ThreadStep
-----------------------------------------------------------------------------
(* The course of a get                                                     *)

(* A block read for the get under way has the value of the key.            *)
LEMMA ReadsTheValue ==
  ASSUME Setting, OneInv, NEW r \in reads,
         r.round = reader[r.client].round
  PROVE  /\ ckey[r.client] \in Keys
         /\ BlockRead(r) = keyValues[r.client][ckey[r.client]]
<1> DEFINE c == r.client
           k == ckey[c]
           b == [stripe |-> r.stripe, shard |-> r.shard, data |-> Current(c, k)]
<1>0. ShapeInv /\ GetInv /\ RoundInv /\ BlocksOnce
  BY DEF OneInv, SafeInv, DataInv
<1>1. c \in Clients /\ r.shard \in Shards
  BY <1>0 DEF ShapeInv, TypeOK, ReadTypeOK, Requests
<1>2. /\ reader[c].pc # "none" /\ r.i \in 1..Len(reader[c].obj)
      /\ r.stripe = reader[c].obj[r.i] /\ r.node = stripeInfo[r.stripe][r.shard]
  BY <1>0 DEF RoundInv
<1>3. cpc[c] = "wait" /\ reader[c].obj = commit[k]
  BY <1>0, <1>1, <1>2 DEF GetInv
<1>4. k \in Keys /\ commit[k] # Absent
  BY <1>1, <1>3, GetFinds
<1>5. Current(c, k) = keyValues[c][k]
  BY <1>3, <1>4 DEF Current, Resetting
<1>6. r.node \in Nodes /\ b \in mem[r.node]
  BY <1>1, <1>2, <1>3, <1>4, CommittedHolds
<1>7. b \in Held(r)
  BY <1>6 DEF Held
<1>8. \A d \in Held(r) : d = b
  <2> SUFFICES ASSUME NEW d \in Held(r)
               PROVE  d = b
    OBVIOUS
  <2>1. d \in mem[r.node] /\ d.stripe = b.stripe /\ d.shard = b.shard
    BY DEF Held
  <2> QED BY <1>0, <1>6, <2>1 DEF BlocksOnce
<1>9. up[r.node]
  BY <1>6 DEF OneInv, Running
<1>10. (CHOOSE d \in Held(r) : TRUE) = b
  BY <1>7, <1>8
<1>11. BlockRead(r) = Current(c, k)
  <2>1. Held(r) # {}
    BY <1>7
  <2>2. BlockRead(r) = (CHOOSE d \in Held(r) : TRUE).data
    BY <1>9, <2>1 DEF BlockRead
  <2>3. b.data = Current(c, k)
    OBVIOUS
  <2> HIDE DEF b
  <2>4. BlockRead(r) = b.data
    BY <1>10, <2>2, Zenon
  <2> QED BY <2>3, <2>4
<1> QED BY <1>4, <1>5, <1>11

LEMMA GetStep ==
  ASSUME Setting, OneInv, [Next]_vars
  PROVE  GetInv'
<1>0. ShapeInv /\ GetInv
  BY DEF OneInv, SafeInv
<1> USE DEF ShapeInv, TypeOK, ClientTypeOK, ReadTypeOK
<1> DEFINE Good(c) ==
      /\ cpc[c] # "idle" => cgot[c] = None
      /\ cgot[c] # None => cgot[c] = keyValues[c][ckey[c]]
      /\ cpc[c] \in InGet => keyValues[c][ckey[c]] # None
    Reads(c) ==
      reader[c].pc # "none" =>
        /\ cpc[c] = "wait"
        /\ reader[c].obj = commit[ckey[c]]
        /\ reader[c].acc \in {None, keyValues[c][ckey[c]]}
        /\ reader[c].got # {} \/ reader[c].i > 1 \/ reader[c].pc = "send" =>
             reader[c].acc = keyValues[c][ckey[c]]
<1>1. ASSUME \A c \in Clients : Good(c)' /\ Reads(c)'
      PROVE  GetInv'
  BY <1>1 DEF GetInv
<1>2. \A c \in Clients : Good(c) /\ Reads(c)
  BY <1>0 DEF GetInv
<1>3. \A c, d \in Clients : c = d
  BY DEF Setting, OneClient
(* While a set is under way there is no get.                               *)
<1>4. ASSUME NEW c \in Clients, cpc[c] # "wait", UNCHANGED <<reader>>
      PROVE  Reads(c)'
  BY <1>2, <1>4
<1>5. ASSUME NEW c \in Clients, NEW k \in KeysOf[c], NEW v \in Vals,
             NEW n \in 1..MaxStripes, Set(c, k, v, n)
      PROVE  GetInv'
  <2>1. /\ cpc[c] = "idle" /\ cpc' = [cpc EXCEPT ![c] = "upload"]
        /\ cgot' = [cgot EXCEPT ![c] = None] /\ UNCHANGED <<reader>>
    BY <1>5 DEF Set
  <2>2. Good(c)'
    BY <1>0, <2>1
  <2>3. Reads(c)'
    BY <1>4, <2>1
  <2> QED BY <1>1, <1>3, <2>2, <2>3
<1>6. ASSUME NEW c \in Clients, Connect(c)
      PROVE  GetInv'
  <2>1. /\ cpc[c] = "upload" /\ cpc' = [cpc EXCEPT ![c] = "check"]
        /\ UNCHANGED <<reader, cgot, keyValues, ckey>>
    BY <1>6 DEF Connect
  <2>2. Good(c)'
    BY <1>0, <1>2, <2>1
  <2>3. Reads(c)'
    BY <1>4, <2>1
  <2> QED BY <1>1, <1>3, <2>2, <2>3
<1>7. ASSUME NEW c \in Clients, CheckCommitAbort(c)
      PROVE  GetInv'
  <2>1. /\ cpc[c] = "check" /\ cpc' = [cpc EXCEPT ![c] = "idle"]
        /\ UNCHANGED <<reader, cgot>>
    BY <1>7 DEF CheckCommitAbort
  <2>2. Good(c)'
    BY <1>0, <1>2, <2>1
  <2>3. Reads(c)'
    BY <1>4, <2>1
  <2> QED BY <1>1, <1>3, <2>2, <2>3
<1>8. ASSUME NEW j \in Jobs, UploadStep(j) \/ ThreadStep(j)
      PROVE  GetInv'
  <2>1. UNCHANGED <<cpc, cgot, keyValues, ckey, reader>>
    BY <1>8 DEF UploadStep, ThreadStep, UploadErase, UploadLoadStripeId,
       UploadStoreStripeId, EncodeAndSetObject, UploadPublish, Accept,
       ReportCommitAbort, SetToMemcached
  <2>2. Unfinished(j)
    <3>1. \/ upc[j] \in {"erase", "load", "store", "rpc", "publish"}
          \/ tpc[j] \in {"accept", "save"}
      BY <1>8 DEF UploadStep, ThreadStep, UploadErase, UploadLoadStripeId,
         UploadStoreStripeId, EncodeAndSetObject, UploadPublish, Accept,
         ReportCommitAbort, SetToMemcached
    <3> QED BY <3>1, AtWork
  <2>3. ASSUME NEW c \in Clients
        PROVE  Good(c)' /\ Reads(c)'
    <3>1. cpc[c] \in InSet
      BY <2>2, TheClientsJob DEF Setting
    <3> QED BY <1>2, <1>4, <2>1, <3>1
  <2> QED BY <1>1, <2>3, SMTT(30)
<1>9. ASSUME NEW c \in Clients, NEW k \in KeysOf[c], Get(c, k)
      PROVE  GetInv'
  <2>1. /\ cpc[c] = "idle" /\ cpc' = [cpc EXCEPT ![c] = "lookup"]
        /\ ckey' = [ckey EXCEPT ![c] = k] /\ cgot' = [cgot EXCEPT ![c] = None]
        /\ keyValues[c][k] # None /\ keyValues' = keyValues
        /\ reader' = [reader EXCEPT ![c].round = gets + 1]
    BY <1>9 DEF Get, Setting
  <2>2. Good(c)'
    BY <1>0, <2>1
  <2>3. reader'[c].pc = "none"
    <3>1. reader[c].pc = "none"
      BY <1>2, <2>1
    <3>2. reader \in [Clients -> Readers]
      BY <1>0
    <3> QED BY <2>1, <3>1, <3>2 DEF Readers
  <2> QED BY <1>1, <1>3, <2>2, <2>3
<1>10. ASSUME NEW c \in Clients, GetValueFound(c)
       PROVE  GetInv'
  <2>1. /\ cpc[c] = "lookup" /\ cpc' = [cpc EXCEPT ![c] = "wait"]
        /\ UNCHANGED <<ckey, cgot, keyValues, commit>>
        /\ reader' = [reader EXCEPT ![c] = [pc |-> "read", obj |-> commit[ckey[c]],
                        i |-> 1, got |-> {}, acc |-> None, round |-> reader[c].round]]
    BY <1>10 DEF GetValueFound
  <2>2. Good(c)'
    BY <1>0, <1>2, <2>1
  <2>3. Reads(c)'
    BY <1>0, <2>1
  <2> QED BY <1>1, <1>3, <2>2, <2>3
<1>11. ASSUME NEW c \in Clients, Decode(c)
       PROVE  GetInv'
  <2>1. /\ reader[c].pc = "read" /\ ~ (Cardinality(reader[c].got) < K)
        /\ UNCHANGED <<cpc, ckey, cgot, keyValues, commit>>
        /\ \/ reader' = [reader EXCEPT ![c].i = @ + 1, ![c].got = {}]
           \/ reader' = [reader EXCEPT ![c].pc = "send"]
    BY <1>11 DEF Decode
  <2>2. reader[c].got # {}
    <3>1. K \in Nat /\ 0 < K
      BY ShardsAssumption, FS_CardinalityType
    <3>2. Cardinality({}) = 0
      BY FS_EmptySet
    <3> QED BY <2>1, <3>1, <3>2
  <2>3. /\ reader[c].acc = keyValues[c][ckey[c]]
        /\ cpc[c] = "wait" /\ reader[c].obj = commit[ckey[c]]
    BY <1>2, <2>1, <2>2
  <2>4. reader'[c].acc = reader[c].acc /\ reader'[c].obj = reader[c].obj
    <3>1. reader \in [Clients -> Readers]
      BY <1>0
    <3> QED BY <2>1, <3>1 DEF Readers
  <2>5. Good(c)' /\ Reads(c)'
    BY <1>2, <2>1, <2>3, <2>4
  <2> QED BY <1>1, <1>3, <2>5
<1>12. ASSUME NEW c \in Clients, Deliver(c)
       PROVE  GetInv'
  <2>1. /\ cpc[c] = "wait" /\ reader[c].pc = "send"
        /\ cpc' = [cpc EXCEPT ![c] = "idle"]
        /\ cgot' = [cgot EXCEPT ![c] = reader[c].acc]
        /\ reader' = [reader EXCEPT ![c] = Idle] /\ UNCHANGED <<keyValues, ckey>>
    BY <1>12 DEF Deliver
  <2>2. reader[c].acc = keyValues[c][ckey[c]]
    BY <1>2, <2>1
  <2>3. Good(c)'
    BY <1>0, <2>1, <2>2
  <2>4. reader'[c].pc = "none"
    BY <1>0, <2>1 DEF Idle
  <2> QED BY <1>1, <1>3, <2>3, <2>4
<1>13. ASSUME NEW r \in reads, GetFromMemcached(r)
       PROVE  GetInv'
  <2> DEFINE c == r.client
             v == keyValues[c][ckey[c]]
  <2>1. /\ c \in Clients /\ UNCHANGED <<cpc, ckey, cgot, keyValues, commit>>
        /\ reader \in [Clients -> Readers]
        /\ \/ reader' = reader
           \/ /\ reader[c].pc = "read" /\ reader[c].round = r.round
              /\ reader' = [reader EXCEPT ![c].got = @ \cup {r.shard},
                                          ![c].acc = Merge(@, BlockRead(r))]
    BY <1>0, <1>13 DEF GetFromMemcached, Requests
  <2>2. Good(c)'
    BY <1>2, <2>1
  <2>3. CASE reader' = reader
    BY <1>1, <1>2, <1>3, <2>1, <2>2, <2>3
  <2>4. CASE /\ reader[c].pc = "read" /\ reader[c].round = r.round
             /\ reader' = [reader EXCEPT ![c].got = @ \cup {r.shard},
                                         ![c].acc = Merge(@, BlockRead(r))]
    <3>1. BlockRead(r) = v
      BY <2>4, ReadsTheValue
    <3>2. Merge(reader[c].acc, v) = v
      BY <1>2, <2>1, <2>4 DEF Merge
    <3>3. /\ reader'[c].acc = v
          /\ reader'[c].pc = reader[c].pc /\ reader'[c].obj = reader[c].obj
      BY <2>1, <2>4, <3>1, <3>2 DEF Readers
    <3>4. Reads(c)'
      BY <1>2, <2>1, <2>4, <3>3
    <3> QED BY <1>1, <1>3, <2>1, <2>2, <3>4
  <2> QED BY <2>1, <2>3, <2>4
<1>14. CASE UNCHANGED vars
  BY <1>1, <1>2, <1>14
<1> HIDE DEF ShapeInv, TypeOK, ClientTypeOK, ReadTypeOK, Good, Reads
<1> QED BY <1>5, <1>6, <1>7, <1>8, <1>9, <1>10, <1>11, <1>12, <1>13, <1>14, OneCases

(* The requests BlockReads makes, one per block of the stripe.             *)
LEMMA RequestsMade ==
  ASSUME NEW c, NEW obj, NEW i, NEW r \in BlockReads(c, obj, i)
  PROVE  /\ r.client = c /\ r.round = reader[c].round /\ r.i = i
         /\ r.stripe = obj[i] /\ r.node = stripeInfo[r.stripe][r.shard]
BY DEF BlockReads

LEMMA RoundStep ==
  ASSUME Setting, OneInv, [Next]_vars
  PROVE  RoundInv'
<1>0. ShapeInv /\ GetInv /\ RoundInv
  BY DEF OneInv, SafeInv
<1> DEFINE Turn(c) ==
      /\ reader[c].round <= gets
      /\ cpc[c] = "lookup" \/ reader[c].pc # "none" => reader[c].round > 0
    Asked(r) ==
      /\ r.round \in 1..gets
      /\ r.round = reader[r.client].round =>
           /\ reader[r.client].pc # "none"
           /\ r.i \in 1..Len(reader[r.client].obj)
           /\ r.stripe = reader[r.client].obj[r.i]
           /\ r.node = stripeInfo[r.stripe][r.shard]
<1>1. /\ reader \in [Clients -> Readers] /\ reads \subseteq Requests /\ gets \in Nat
      /\ cpc \in [Clients -> ClientPC]
  BY <1>0, BoundsAssumption DEF ShapeInv, TypeOK, ReadTypeOK, ClientTypeOK
<1>2. /\ \A c \in Clients : Turn(c)
      /\ \A r \in reads : r.client \in Clients /\ Asked(r)
  BY <1>0, <1>1 DEF RoundInv, Requests
<1>3. ASSUME \A c \in Clients : Turn(c)', \A r \in reads' : Asked(r)'
      PROVE  RoundInv'
  BY <1>3 DEF RoundInv
<1>4. \A c, d \in Clients : c = d
  BY DEF Setting, OneClient
<1>5. ASSUME UNCHANGED <<reader, reads, gets, stripeInfo>>,
             \A c \in Clients : cpc'[c] = "lookup" => cpc[c] = "lookup"
      PROVE  RoundInv'
  BY <1>2, <1>3, <1>5
<1>6. ASSUME NEW c \in Clients,
             \/ Connect(c) \/ CheckCommitAbort(c)
             \/ \E k \in KeysOf[c], v \in Vals, n \in 1..MaxStripes : Set(c, k, v, n)
      PROVE  RoundInv'
  <2>1. /\ UNCHANGED <<reader, reads, gets, stripeInfo>>
        /\ \E pc \in {"upload", "check", "idle"} : cpc' = [cpc EXCEPT ![c] = pc]
    BY <1>6 DEF Connect, CheckCommitAbort, Set
  <2> QED BY <1>1, <1>5, <2>1
<1>7. ASSUME NEW j \in Jobs, UploadStoreStripeId(j)
      PROVE  RoundInv'
  <2>1. UNCHANGED <<reader, reads, gets, cpc>> /\ upc[j] = "store"
    BY <1>7 DEF UploadStoreStripeId
  <2>2. ASSUME NEW c \in Clients
        PROVE  reader[c].pc = "none"
    <3>1. cpc[c] \in InSet
      BY <2>1, AtWork, TheClientsJob DEF Setting
    <3> QED BY <1>0, <3>1 DEF GetInv
  <2>3. \A r \in reads : r.round # reader[r.client].round
    BY <1>2, <2>2, SMTT(30)
  <2> QED BY <1>2, <1>3, <2>1, <2>3
<1>8. ASSUME NEW j \in Jobs,
             \/ ThreadStep(j) \/ UploadErase(j) \/ UploadLoadStripeId(j)
             \/ UploadPublish(j) \/ \E a \in AZs : EncodeAndSetObject(j, a)
      PROVE  RoundInv'
  <2>1. UNCHANGED <<reader, reads, gets, cpc, stripeInfo>>
    BY <1>8 DEF ThreadStep, UploadErase, UploadLoadStripeId, EncodeAndSetObject,
       UploadPublish, Accept, ReportCommitAbort, SetToMemcached
  <2> QED BY <1>5, <2>1
<1>9. ASSUME NEW c \in Clients, NEW k \in KeysOf[c], Get(c, k)
      PROVE  RoundInv'
  <2>1. /\ gets' = gets + 1 /\ UNCHANGED <<reads, stripeInfo>>
        /\ reader' = [reader EXCEPT ![c].round = gets + 1]
        /\ cpc' = [cpc EXCEPT ![c] = "lookup"]
    BY <1>9 DEF Get
  <2>2. reader'[c].round = gets + 1
    BY <1>1, <2>1 DEF Readers
  <2>3. Turn(c)'
    BY <1>1, <2>1, <2>2
  <2>4. ASSUME NEW r \in reads
        PROVE  Asked(r)'
    BY <1>1, <1>2, <1>4, <2>1, <2>2
  <2> QED BY <1>3, <1>4, <2>1, <2>3, <2>4
<1>10. ASSUME NEW c \in Clients, GetValueFound(c)
       PROVE  RoundInv'
  <2> DEFINE obj == commit[ckey[c]]
  <2>1. /\ cpc[c] = "lookup" /\ UNCHANGED <<gets, stripeInfo>>
        /\ obj \notin {Absent, <<>>} /\ ckey[c] \in Keys
        /\ reader' = [reader EXCEPT ![c] = [pc |-> "read", obj |-> obj,
                        i |-> 1, got |-> {}, acc |-> None, round |-> reader[c].round]]
        /\ reads' = reads \cup BlockReads(c, obj, 1)
    BY <1>0, <1>10 DEF GetValueFound, ShapeInv, ClientShape
  <2>2. obj \in Seq(Nat) /\ 1 \in 1..Len(obj)
    <3>1. obj \in Seq(Nat)
      BY <1>0, <2>1 DEF ShapeInv, TypeOK, CoordTypeOK
    <3> HIDE DEF obj
    <3> QED BY <2>1, <3>1
  <2> HIDE DEF obj
  <2>3. /\ reader'[c].pc = "read" /\ reader'[c].obj = obj
        /\ reader'[c].round = reader[c].round /\ reader[c].pc = "none"
    BY <1>0, <1>1, <2>1 DEF GetInv
  <2>4. Turn(c)'
    BY <1>1, <1>2, <2>1, <2>3
  <2>5. ASSUME NEW r \in reads
        PROVE  Asked(r)'
    <3>1. r.client = c
      BY <1>2, <1>4
    <3>2. r.round \in 1..gets /\ r.round # reader[c].round
      BY <1>2, <2>3, <3>1
    <3> QED BY <2>1, <2>3, <3>1, <3>2
  <2>6. ASSUME NEW r \in BlockReads(c, obj, 1)
        PROVE  Asked(r)'
    <3>1. /\ r.client = c /\ r.round = reader[c].round /\ r.i = 1
          /\ r.stripe = obj[1] /\ r.node = stripeInfo[r.stripe][r.shard]
      BY RequestsMade
    <3>2. reader[c].round \in 1..gets
      BY <1>1, <1>2, <2>1 DEF Readers
    <3> QED BY <2>1, <2>2, <2>3, <3>1, <3>2
  <2> QED BY <1>3, <1>4, <2>1, <2>4, <2>5, <2>6
<1>11. ASSUME NEW c \in Clients, Decode(c)
       PROVE  RoundInv'
  <2>1. /\ reader[c].pc = "read" /\ UNCHANGED <<cpc, gets, stripeInfo>>
        /\ \/ /\ reader[c].i < Len(reader[c].obj)
              /\ reader' = [reader EXCEPT ![c].i = @ + 1, ![c].got = {}]
              /\ reads' = reads \cup BlockReads(c, reader[c].obj, reader[c].i + 1)
           \/ /\ reader' = [reader EXCEPT ![c].pc = "send"]
              /\ reads' = reads
    BY <1>11 DEF Decode
  <2>2. /\ reader'[c].pc # "none" /\ reader'[c].obj = reader[c].obj
        /\ reader'[c].round = reader[c].round
    BY <1>1, <2>1, ZenonT(60) DEF Readers
  <2>3. Turn(c)'
    BY <1>1, <1>2, <2>1, <2>2
  <2>4. ASSUME NEW r \in reads
        PROVE  Asked(r)'
    <3>1. r.client = c
      BY <1>2, <1>4
    <3> QED BY <1>2, <2>1, <2>2, <3>1
  <2>5. ASSUME reader[c].i < Len(reader[c].obj),
               NEW r \in BlockReads(c, reader[c].obj, reader[c].i + 1)
        PROVE  Asked(r)'
    <3>1. /\ r.client = c /\ r.round = reader[c].round /\ r.i = reader[c].i + 1
          /\ r.stripe = reader[c].obj[r.i] /\ r.node = stripeInfo[r.stripe][r.shard]
      BY RequestsMade
    <3>2. reader[c].round \in 1..gets
      BY <1>1, <1>2, <2>1, SMTT(30) DEF Readers
    <3>3. r.i \in 1..Len(reader[c].obj)
      BY <1>1, <2>5, <3>1 DEF Readers
    <3> QED BY <2>1, <2>2, <3>1, <3>2, <3>3
  <2> QED BY <1>3, <1>4, <2>1, <2>3, <2>4, <2>5
<1>12. ASSUME NEW c \in Clients, Deliver(c)
       PROVE  RoundInv'
  <2>1. /\ cpc' = [cpc EXCEPT ![c] = "idle"] /\ reader' = [reader EXCEPT ![c] = Idle]
        /\ UNCHANGED <<reads, gets, stripeInfo>>
    BY <1>12 DEF Deliver
  <2>2. reader'[c].round = 0 /\ reader'[c].pc = "none" /\ cpc'[c] = "idle"
    BY <1>1, <2>1 DEF Idle
  <2>3. ASSUME NEW r \in reads
        PROVE  Asked(r)'
    BY <1>2, <1>4, <2>1, <2>2
  <2> QED BY <1>1, <1>3, <1>4, <2>1, <2>2, <2>3
<1>13. ASSUME NEW q \in reads, GetFromMemcached(q)
       PROVE  RoundInv'
  <2>1. UNCHANGED <<cpc, gets, stripeInfo>> /\ reads' \subseteq reads
    BY <1>13 DEF GetFromMemcached
  <2>2. ASSUME NEW c \in Clients
        PROVE  /\ reader'[c].pc = reader[c].pc
               /\ reader'[c].obj = reader[c].obj
               /\ reader'[c].round = reader[c].round
    <3>1. \/ reader' = reader
          \/ reader' = [reader EXCEPT ![q.client].got = @ \cup {q.shard},
                                      ![q.client].acc = Merge(@, BlockRead(q))]
      BY <1>13 DEF GetFromMemcached
    <3>2. q.client = c
      BY <1>2, <1>4
    <3>3. ASSUME NEW x, NEW y,
                 reader' = [reader EXCEPT ![c].got = x, ![c].acc = y]
          PROVE  /\ reader'[c].pc = reader[c].pc
                 /\ reader'[c].obj = reader[c].obj
                 /\ reader'[c].round = reader[c].round
      BY <1>1, <3>3 DEF Readers
    <3> QED BY <3>1, <3>2, <3>3
  <2> QED BY <1>2, <1>3, <2>1, <2>2
<1>14. CASE UNCHANGED vars
  BY <1>5, <1>14
<1> HIDE DEF Turn, Asked
<1> QED BY <1>6, <1>7, <1>8, <1>9, <1>10, <1>11, <1>12, <1>13, <1>14, OneCases
        DEF UploadStep

LEMMA OneStep ==
  ASSUME Setting, OneInv, [Next]_vars
  PROVE  OneInv'
BY OneSafeStep, RunningStep, CourseStep, DataStep, ValueStep, GetStep, RoundStep
   DEF OneInv

LEMMA InitOne ==
  ASSUME Init
  PROVE  OneInv
<1>1. SafeInv /\ BalanceInv /\ ReadInv
  BY InitSafe, InitBalance, InitRead
<1>2. Running
  BY DEF Init, Running
<1>3. CourseInv
  BY DEF Init, CourseInv, PlanMade, OwnData, Published, OwnConnection
<1>4. DataInv
  BY DEF Init, DataInv, BlocksOnce, DataSaved
<1>5. ValueInv
  BY DEF Init, ValueInv
<1>6. GetInv
  BY DEF Init, GetInv, Idle
<1>7. RoundInv
  BY DEF Init, RoundInv, Idle
<1> QED BY <1>1, <1>2, <1>3, <1>4, <1>5, <1>6, <1>7 DEF OneInv

LEMMA OneAlways ==
  ASSUME Setting
  PROVE  Spec => []OneInv
<1>1. Init => OneInv
  BY InitOne
<1>2. OneInv /\ [Next]_vars => OneInv'
  BY OneStep
<1> QED BY <1>1, <1>2, PTL DEF Spec

(* One client gets back what it last set: whatever Client::get returns for *)
(* a key is the value of the client's last successful set of that key, for *)
(* objects of any number of stripes read from any K blocks of each.        *)
THEOREM ReadsItsWrites ==
  ASSUME Setting
  PROVE  Spec => []ReadBack
<1>1. OneInv => ReadBack
  BY DEF OneInv, GetInv, ReadBack
<1> QED BY <1>1, OneAlways, PTL

(* With one client the coordinator never dies or blocks on its mutex, and  *)
(* no datanode exits because it was asked for a block it does not hold.    *)
THEOREM NothingStops ==
  ASSUME Setting
  PROVE  Spec => []Running
<1>1. OneInv => Running
  BY DEF OneInv
<1> QED BY <1>1, OneAlways, PTL

-----------------------------------------------------------------------------
(* Set and get implement ObjectStore                                       *)

(* The values that the blocks of the committed objects spell are those the *)
(* keys have for the client.                                               *)
Spelled == \A c \in Clients, k \in Keys : StoredValues[k] = Current(c, k)

LEMMA OneSpelled ==
  ASSUME Setting, OneInv
  PROVE  Spelled
<1> SUFFICES ASSUME NEW c \in Clients, NEW k \in Keys
             PROVE  StoredValues[k] = Current(c, k)
  BY DEF Spelled
<1> DEFINE obj == commit[k]
           v == Current(c, k)
<1>1. CASE obj = Absent
  BY <1>1 DEF StoredValues, Current
<1>2. CASE obj # Absent
  <2>1. PICK j \in Jobs : /\ tpc[j] = "done" /\ obj = jstripes[j] /\ obj # <<>>
                          /\ jval[j] = v
    BY <1>2, CommittedPlan
  <2>2. v \in Vals /\ obj \in Seq(Nat)
    BY <2>1 DEF OneInv, SafeInv, ShapeInv, JobShape, TypeOK, PlanTypeOK
  <2>3. ASSUME NEW i \in 1..Len(obj), NEW s \in Shards
        PROVE  /\ stripeInfo[obj[i]][s] \in Nodes
               /\ [stripe |-> obj[i], shard |-> s, data |-> v]
                    \in mem[stripeInfo[obj[i]][s]]
    BY <1>2, CommittedHolds
  <2> HIDE DEF obj, v
  <2>4. Holds(obj, v)
    BY <2>3 DEF Holds
  <2>5. ASSUME NEW w \in Vals, Holds(obj, w)
        PROVE  w = v
    <3>1. PICK s \in Shards : TRUE
      <4>1. Cardinality({}) = 0 /\ Cardinality(Shards) # 0
        BY ShardsAssumption, FS_EmptySet, FS_CardinalityType
      <4> QED BY <4>1
    <3>2. 1 \in 1..Len(obj)
      BY <2>1, <2>2
    <3>3. /\ stripeInfo[obj[1]][s] \in Nodes
          /\ [stripe |-> obj[1], shard |-> s, data |-> v] \in mem[stripeInfo[obj[1]][s]]
      BY <2>3, <3>2
    <3>4. [stripe |-> obj[1], shard |-> s, data |-> w] \in mem[stripeInfo[obj[1]][s]]
      BY <2>5, <3>2 DEF Holds
    <3>5. [stripe |-> obj[1], shard |-> s, data |-> w]
            = [stripe |-> obj[1], shard |-> s, data |-> v]
      BY <3>3, <3>4 DEF OneInv, DataInv, BlocksOnce
    <3> QED BY <3>5
  <2>6. ValueOf(obj) = v
    BY <2>2, <2>4, <2>5 DEF ValueOf
  <2> QED BY <1>2, <2>6 DEF StoredValues, obj, v
<1> QED BY <1>1, <1>2

LEMMA SpelledAlways ==
  ASSUME Setting
  PROVE  Spec => []Spelled
<1>1. OneInv => Spelled
  BY OneSpelled
<1> QED BY <1>1, OneAlways, PTL

(* The table of values changes only with the metadata or the blocks, and   *)
(* not even with them where every key keeps its value.                     *)
LEMMA SameSpelling ==
  ASSUME NEW k \in Keys, UNCHANGED <<stripeInfo, mem>>, commit'[k] = commit[k]
  PROVE  StoredValues'[k] = StoredValues[k]
<1>1. \A v : Holds(commit[k], v)' <=> Holds(commit[k], v)
  BY DEF Holds
<1>2. ValueOf(commit[k])' = ValueOf(commit[k])
  BY <1>1 DEF ValueOf
<1> QED BY <1>2 DEF StoredValues

LEMMA SameValues ==
  ASSUME Spelled, Spelled', NEW c \in Clients,
         \A k \in Keys : Current(c, k)' = Current(c, k)
  PROVE  StoredValues' = StoredValues
<1>1. \A k \in Keys : StoredValues'[k] = StoredValues[k]
  BY DEF Spelled
<1> QED BY <1>1 DEF StoredValues

(* The only client's call is the only call.                                *)
LEMMA TheCall ==
  ASSUME OneClient, NEW c \in Clients
  PROVE  /\ Calls[c] = CallOf(c)
         /\ \A x : CallOf(c)' = x => Calls' = [Calls EXCEPT ![c] = x]
         /\ CallOf(c)' = CallOf(c) => Calls' = Calls
<1>1. \A d \in Clients : d = c
  BY DEF OneClient
<1> QED BY <1>1 DEF Calls

(* What a client in a set is doing, and one in a get.                      *)
LEMMA CallIs ==
  ASSUME NEW c \in Clients
  PROVE  /\ cpc[c] = "idle" => CallOf(c) = Promise!NoCall
         /\ cpc[c] \in InSet =>
              CallOf(c) = Promise!Setting(jkey[cjob[c]], jval[cjob[c]], Phase(cjob[c]))
         /\ cpc[c] \in InGet => CallOf(c) = Promise!Getting(ckey[c])
BY DEF CallOf, Promise!NoCall, Promise!Setting, Promise!Getting

LEMMA CallWillBe ==
  ASSUME NEW c \in Clients
  PROVE  /\ cpc'[c] = "idle" => CallOf(c)' = Promise!NoCall
         /\ cpc'[c] \in InSet =>
              CallOf(c)' =
                Promise!Setting(jkey'[cjob'[c]], jval'[cjob'[c]], Phase(cjob[c])')
         /\ cpc'[c] \in InGet => CallOf(c)' = Promise!Getting(ckey'[c])
BY DEF CallOf, Promise!NoCall, Promise!Setting, Promise!Getting

LEMMA PhaseIs ==
  ASSUME NEW j
  PROVE  /\ upc[j] = "erase" => Phase(j) = "called"
         /\ upc[j] # "erase" /\ tpc[j] # "done" => Phase(j) = "forgotten"
         /\ upc[j] # "erase" /\ tpc[j] = "done" => Phase(j) = "stored"
         /\ upc'[j] = "erase" => Phase(j)' = "called"
         /\ upc'[j] # "erase" /\ tpc'[j] # "done" => Phase(j)' = "forgotten"
         /\ upc'[j] # "erase" /\ tpc'[j] = "done" => Phase(j)' = "stored"
BY DEF Phase

(* A step of the client that begins or ends a call, and changes neither    *)
(* the metadata nor the blocks.                                            *)
LEMMA PromiseCall ==
  ASSUME Setting, OneInv, Spelled, NEW c \in Clients,
         \/ \E k \in KeysOf[c], v \in Vals, n \in 1..MaxStripes : Set(c, k, v, n)
         \/ CheckCommitAbort(c) \/ Deliver(c) \/ \E k \in KeysOf[c] : Get(c, k)
  PROVE  Promise!Next
<1>0. ShapeInv /\ OwnerInv
  BY DEF OneInv, SafeInv
<1> USE DEF ShapeInv, TypeOK, ClientTypeOK, JobTypeOK
<1>1. StoredValues' = StoredValues
  <2>1. UNCHANGED <<commit, stripeInfo, mem>>
    BY DEF Set, CheckCommitAbort, Deliver, Get
  <2>2. \A k \in Keys : StoredValues'[k] = StoredValues[k]
    BY <2>1, SameSpelling
  <2> QED BY <2>2 DEF StoredValues
<1>2. \A k \in KeysOf[c] : k \in Keys
  BY KeysAssumption
<1>3. ASSUME NEW k \in KeysOf[c], NEW v \in Vals, NEW n \in 1..MaxStripes, Set(c, k, v, n)
      PROVE  Promise!BeginSet(c, k, v)
  <2>1. /\ cpc[c] = "idle" /\ cpc'[c] = "upload" /\ cjob'[c] = sets + 1
        /\ jkey'[sets + 1] = k /\ jval'[sets + 1] = v /\ upc'[sets + 1] = "erase"
        /\ cgot' = [cgot EXCEPT ![c] = None]
    BY <1>0, <1>3, NewJob DEF Set
  <2>2. CallOf(c) = Promise!NoCall
    BY <2>1, CallIs
  <2>3. CallOf(c)' = Promise!Setting(k, v, "called")
    BY <2>1, CallWillBe, PhaseIs
  <2> QED BY <1>1, <2>1, <2>2, <2>3, TheCall DEF Promise!BeginSet, Setting
<1>4. ASSUME CheckCommitAbort(c)
      PROVE  \E k \in Keys, v \in Vals : Promise!EndSet(c, k, v)
  <2> DEFINE j == cjob[c]
  <2>1. /\ cpc[c] = "check" /\ cpc'[c] = "idle" /\ cgot' = cgot
        /\ commit[jkey[j]] # Absent
    BY <1>0, <1>4 DEF CheckCommitAbort
  <2>2. /\ j \in Jobs /\ upc[j] = "replied" /\ tpc[j] = "done"
        /\ jkey[j] \in Keys /\ jval[j] \in Vals
    BY <1>0, <2>1 DEF OwnerInv, ClientShape, JobShape
  <2>3. CallOf(c) = Promise!Setting(jkey[j], jval[j], "stored")
    BY <2>1, <2>2, CallIs, PhaseIs
  <2>4. CallOf(c)' = Promise!NoCall
    BY <2>1, CallWillBe
  <2>5. Promise!EndSet(c, jkey[j], jval[j])
    BY <1>1, <2>1, <2>3, <2>4, TheCall DEF Promise!EndSet, Setting
  <2> QED BY <2>2, <2>5
<1>5. ASSUME NEW k \in KeysOf[c], Get(c, k)
      PROVE  Promise!BeginGet(c, k)
  <2>1. /\ cpc[c] = "idle" /\ cpc'[c] = "lookup" /\ ckey'[c] = k
        /\ keyValues[c][k] # None /\ cgot' = [cgot EXCEPT ![c] = None]
    BY <1>0, <1>5 DEF Get, Setting
  <2>2. ~ Resetting(c, k)
    BY <2>1 DEF Resetting
  <2>3. commit[k] # Absent
    BY <1>2, <2>1, <2>2 DEF OneInv, ValueInv
  <2>4. StoredValues[k] # None
    BY <1>2, <2>1, <2>2, <2>3 DEF Spelled, Current
  <2>5. CallOf(c) = Promise!NoCall
    BY <2>1, CallIs
  <2>6. CallOf(c)' = Promise!Getting(k)
    BY <2>1, CallWillBe
  <2> QED BY <1>1, <2>1, <2>4, <2>5, <2>6, TheCall DEF Promise!BeginGet, Setting
<1>6. ASSUME Deliver(c)
      PROVE  \E k \in Keys : Promise!EndGet(c, k)
  <2> DEFINE k == ckey[c]
  <2>1. /\ cpc[c] = "wait" /\ cpc'[c] = "idle" /\ reader[c].pc = "send"
        /\ cgot' = [cgot EXCEPT ![c] = reader[c].acc]
    BY <1>0, <1>6 DEF Deliver
  <2>2. k \in Keys /\ commit[k] # Absent
    BY <2>1, GetFinds
  <2>3. reader[c].acc = keyValues[c][k]
    BY <2>1 DEF OneInv, GetInv
  <2>4. ~ Resetting(c, k)
    BY <2>1 DEF Resetting
  <2>5. StoredValues[k] = keyValues[c][k]
    BY <2>2, <2>4 DEF Spelled, Current
  <2>6. CallOf(c) = Promise!Getting(k)
    BY <2>1, CallIs
  <2>7. CallOf(c)' = Promise!NoCall
    BY <2>1, CallWillBe
  <2>8. cgot' = [cgot EXCEPT ![c] = StoredValues[k]]
    BY <2>1, <2>3, <2>5
  <2> HIDE DEF k
  <2>9. Promise!EndGet(c, k)
    BY <1>1, <2>6, <2>7, <2>8, TheCall DEF Promise!EndGet, Setting
  <2> QED BY <2>2, <2>9
<1>7. ASSUME NEW k \in Keys, Promise!BeginGet(c, k) \/ Promise!EndGet(c, k)
      PROVE  Promise!Next
  BY <1>7 DEF Promise!Next
<1>8. ASSUME NEW k \in Keys, NEW v \in Vals, Promise!BeginSet(c, k, v) \/ Promise!EndSet(c, k, v)
      PROVE  Promise!Next
  BY <1>8 DEF Promise!Next
<1> HIDE DEF ShapeInv, TypeOK, ClientTypeOK, JobTypeOK
<1> QED BY <1>2, <1>3, <1>4, <1>5, <1>6, <1>7, <1>8

(* The coordinator's handler erases the key: the old value is forgotten.   *)
LEMMA PromiseForget ==
  ASSUME Setting, OneInv, NEW j \in Jobs, UploadErase(j)
  PROVE  Promise!Next
<1>0. ShapeInv
  BY DEF OneInv, SafeInv
<1>1. /\ upc[j] = "erase" /\ upc' = [upc EXCEPT ![j] = "load"]
      /\ commit' = [commit EXCEPT ![jkey[j]] = Absent]
      /\ UNCHANGED <<cpc, cjob, jkey, jval, cgot, stripeInfo, mem, tpc>>
  BY DEF UploadErase
<1>2. PICK c \in Clients : cpc[c] \in InSet /\ cjob[c] = j
  BY <1>1, AtWork, TheClientsJob, TheJobThere DEF Setting
<1>3. /\ jkey[j] \in Keys /\ jval[j] \in Vals /\ tpc[j] = "none"
      /\ upc'[j] = "load" /\ commit'[jkey[j]] = Absent
      /\ \A l \in Keys : l # jkey[j] => commit'[l] = commit[l]
  BY <1>0, <1>1 DEF ShapeInv, JobShape, TypeOK, JobTypeOK, CoordTypeOK
<1>4. CallOf(c) = Promise!Setting(jkey[j], jval[j], "called")
  BY <1>1, <1>2, CallIs, PhaseIs
<1>5. CallOf(c)' = Promise!Setting(jkey[j], jval[j], "forgotten")
  BY <1>1, <1>2, <1>3, CallWillBe, PhaseIs
<1>6. StoredValues' = [StoredValues EXCEPT ![jkey[j]] = None]
  <2>1. StoredValues'[jkey[j]] = None
    BY <1>3 DEF StoredValues
  <2>2. \A l \in Keys : l # jkey[j] => StoredValues'[l] = StoredValues[l]
    BY <1>1, <1>3, SameSpelling
  <2> QED BY <1>3, <2>1, <2>2 DEF StoredValues
<1>7. Promise!Forget(c, jkey[j], jval[j])
  BY <1>1, <1>4, <1>5, <1>6, TheCall DEF Promise!Forget, Promise!Move, Setting
<1> QED BY <1>3, <1>7 DEF Promise!Next

(* The thread reports its object: the new value is stored.                 *)
LEMMA PromiseStore ==
  ASSUME Setting, OneInv, Spelled', NEW j \in Jobs, ReportCommitAbort(j)
  PROVE  Promise!Next
<1>0. ShapeInv
  BY DEF OneInv, SafeInv
<1>1. /\ tpc[j] = "save" /\ tpc' = [tpc EXCEPT ![j] = "done"]
      /\ commit' = [commit EXCEPT ![jkey[j]] = ObjectOf(jkey[j])]
      /\ UNCHANGED <<cpc, cjob, jkey, jval, cgot, stripeInfo, mem, upc>>
  BY DEF ReportCommitAbort
<1>2. PICK c \in Clients : cpc[c] \in InSet /\ cjob[c] = j
  BY <1>1, AtWork, TheClientsJob, TheJobThere DEF Setting
<1>3. upc[j] = "replied" /\ jkey[j] \in Keys /\ jval[j] \in Vals
  BY <1>0, <1>1 DEF OneInv, CourseInv, OwnData, ShapeInv, JobShape
<1>4. ObjectOf(jkey[j]) # Absent
  <2>1. updating[jkey[j]] = jstripes[j]
    BY <1>1, <1>3 DEF OneInv, CourseInv, Published
  <2>2. jstripes \in [Jobs -> Seq(Nat)]
    BY <1>0 DEF ShapeInv, TypeOK, PlanTypeOK
  <2>3. jstripes[j] # Absent
    BY <2>2, AbsentAssumption
  <2> QED BY <2>1, <2>3 DEF ObjectOf
<1>5. /\ tpc'[j] = "done" /\ commit'[jkey[j]] # Absent
      /\ \A l \in Keys : l # jkey[j] => commit'[l] = commit[l]
  BY <1>0, <1>1, <1>3, <1>4 DEF ShapeInv, TypeOK, JobTypeOK, CoordTypeOK
<1>6. CallOf(c) = Promise!Setting(jkey[j], jval[j], "forgotten")
  BY <1>1, <1>2, <1>3, CallIs, PhaseIs
<1>7. CallOf(c)' = Promise!Setting(jkey[j], jval[j], "stored")
  BY <1>1, <1>2, <1>3, <1>5, CallWillBe, PhaseIs
<1>8. StoredValues' = [StoredValues EXCEPT ![jkey[j]] = jval[j]]
  <2>1. Resetting(c, jkey[j])'
    BY <1>1, <1>2, <1>3 DEF Resetting
  <2>2. Current(c, jkey[j])' = jval[j]
    BY <1>1, <1>2, <1>5, <2>1 DEF Current
  <2>3. StoredValues'[jkey[j]] = jval[j]
    BY <1>1, <1>3, <2>2 DEF Spelled
  <2>4. \A l \in Keys : l # jkey[j] => StoredValues'[l] = StoredValues[l]
    BY <1>1, <1>5, SameSpelling
  <2> QED BY <1>3, <2>3, <2>4 DEF StoredValues
<1>9. Promise!Store(c, jkey[j], jval[j])
  BY <1>1, <1>6, <1>7, <1>8, TheCall DEF Promise!Store, Promise!Move, Setting
<1> QED BY <1>3, <1>9 DEF Promise!Next

(* Where every client stands where it stood, as seen from its call, and    *)
(* every job in the phase it was in, the calls are the same.               *)
LEMMA CallSame ==
  ASSUME UNCHANGED <<cjob, jkey, jval, ckey>>,
         \A c \in Clients : /\ cpc'[c] = "idle" <=> cpc[c] = "idle"
                            /\ cpc'[c] \in InSet <=> cpc[c] \in InSet,
         \A c \in Clients : cpc[c] \in InSet => cjob[c] \in Jobs,
         \A j \in Jobs : Phase(j)' = Phase(j)
  PROVE  Calls' = Calls
<1>1. \A c \in Clients : CallOf(c)' = CallOf(c)
  BY DEF CallOf
<1> QED BY <1>1 DEF Calls

(* Every other step is invisible: planning, publishing, accepting, storing *)
(* blocks, looking up, reading and decoding.                               *)
LEMMA PromiseStutter ==
  ASSUME Setting, OneInv, Spelled, Spelled',
         \/ \E c \in Clients : Connect(c) \/ GetValueFound(c) \/ Decode(c)
         \/ \E j \in Jobs : \/ UploadLoadStripeId(j) \/ UploadStoreStripeId(j)
                            \/ (\E a \in AZs : EncodeAndSetObject(j, a))
                            \/ UploadPublish(j) \/ Accept(j)
                            \/ \E t \in jtodo[j] : SetToMemcached(j, t[1], t[2])
         \/ \E r \in reads : GetFromMemcached(r)
         \/ UNCHANGED vars
  PROVE  UNCHANGED <<StoredValues, Calls, cgot>>
<1>0. ShapeInv
  BY SMTT(30) DEF OneInv, SafeInv
<1> USE DEF ShapeInv, TypeOK, ClientTypeOK, JobTypeOK
<1>1. UNCHANGED <<cjob, jkey, jval, ckey, cgot, keyValues, commit>>
  BY ZenonT(60) DEF Connect, GetValueFound, Decode, UploadLoadStripeId, UploadStoreStripeId,
     EncodeAndSetObject, UploadPublish, Accept, SetToMemcached, GetFromMemcached
<1>2. ASSUME NEW d \in Clients
      PROVE  /\ cpc'[d] = "idle" <=> cpc[d] = "idle"
             /\ cpc'[d] \in InSet <=> cpc[d] \in InSet
  <2>1. \/ cpc' = cpc
        \/ \E c \in Clients : \/ cpc[c] = "upload" /\ cpc' = [cpc EXCEPT ![c] = "check"]
                              \/ cpc[c] = "lookup" /\ cpc' = [cpc EXCEPT ![c] = "wait"]
    BY Zenon DEF Connect, GetValueFound, Decode, UploadLoadStripeId, UploadStoreStripeId,
       EncodeAndSetObject, UploadPublish, Accept, SetToMemcached, GetFromMemcached
  <2> QED BY <1>0, <2>1
<1>3. ASSUME NEW j \in Jobs
      PROVE  /\ upc'[j] = "erase" <=> upc[j] = "erase"
             /\ tpc'[j] = "done" <=> tpc[j] = "done"
  <2>1. ASSUME NEW i \in Jobs,
               \/ UploadLoadStripeId(i) \/ UploadStoreStripeId(i)
               \/ (\E a \in AZs : EncodeAndSetObject(i, a)) \/ UploadPublish(i)
        PROVE  /\ upc[i] # "erase" /\ tpc[i] # "done"
               /\ \E pc \in {"load", "store", "rpc", "publish", "replied"} :
                    upc' = [upc EXCEPT ![i] = pc]
               /\ tpc' = tpc \/ tpc' = [tpc EXCEPT ![i] = "accept"]
    <3>1. upc[i] \in {"load", "store", "rpc", "publish"}
      BY <2>1 DEF UploadLoadStripeId, UploadStoreStripeId, EncodeAndSetObject,
         UploadPublish
    <3>2. tpc[i] # "done"
      BY <3>1 DEF OneInv, CourseInv, OwnData
    <3>3. \E pc \in {"load", "store", "rpc", "publish", "replied"} :
            upc' = [upc EXCEPT ![i] = pc]
      BY <2>1 DEF UploadLoadStripeId, UploadStoreStripeId, EncodeAndSetObject,
         UploadPublish
    <3>4. tpc' = tpc \/ tpc' = [tpc EXCEPT ![i] = "accept"]
      BY <2>1 DEF UploadLoadStripeId, UploadStoreStripeId, EncodeAndSetObject,
         UploadPublish
    <3> QED BY <3>1, <3>2, <3>3, <3>4
  <2>2. ASSUME NEW i \in Jobs, Accept(i)
        PROVE  tpc[i] # "done" /\ upc' = upc /\ tpc' = [tpc EXCEPT ![i] = "save"]
    BY <2>2, SMTT(30) DEF Accept
  <2>3. \/ UNCHANGED <<upc, tpc>>
        \/ \E i \in Jobs :
             \/ UploadLoadStripeId(i) \/ UploadStoreStripeId(i)
             \/ (\E a \in AZs : EncodeAndSetObject(i, a)) \/ UploadPublish(i)
             \/ Accept(i)
    BY ZenonT(60) DEF Connect, GetValueFound, Decode, SetToMemcached, GetFromMemcached
  <2> QED BY <1>0, <2>1, <2>2, <2>3, ZenonT(60)
<1>4. \A j \in Jobs : Phase(j)' = Phase(j)
  BY <1>3 DEF Phase
<1>a. \A c \in Clients : cpc[c] \in InSet => cjob[c] \in Jobs
  BY <1>0, BoundsAssumption DEF ClientShape
<1>5. Calls' = Calls
  BY <1>1, <1>2, <1>4, <1>a, CallSame
<1>6. CASE Clients = {}
  <2>1. \A j \in Jobs : ~ Unfinished(j)
    BY <1>6, TheJobThere
  <2>2. UNCHANGED <<commit, stripeInfo, mem>>
    BY <1>6, <2>1, AtWork, Zenon DEF UploadLoadStripeId, UploadStoreStripeId,
       EncodeAndSetObject, UploadPublish, Accept, SetToMemcached, GetFromMemcached
  <2>3. \A k \in Keys : StoredValues'[k] = StoredValues[k]
    BY <2>2, SameSpelling
  <2> QED BY <1>1, <1>5, <2>3 DEF StoredValues
<1>7. ASSUME NEW c \in Clients
      PROVE  StoredValues' = StoredValues
  <2>1. ASSUME NEW k \in Keys
        PROVE  Current(c, k)' = Current(c, k)
    BY <1>1, <1>2, <1>3, <1>a, ResettingSame
  <2> QED BY <2>1, SameValues
<1> QED BY <1>1, <1>5, <1>6, <1>7

LEMMA PromiseStep ==
  ASSUME Setting, OneInv, Spelled, Spelled', [Next]_vars
  PROVE  [Promise!Next]_<<StoredValues, Calls, cgot>>
BY PromiseCall, PromiseForget, PromiseStore, PromiseStutter, OneCases
   DEF UploadStep, ThreadStep

LEMMA PromiseInit ==
  ASSUME Init
  PROVE  Promise!Init
BY DEF Init, Promise!Init, Promise!NoCall, StoredValues, Calls, CallOf

(* Set and get keep the promise of ObjectStore to one client: coordinator, *)
(* proxies and datanodes behave, in every step, as one table of values.    *)
THEOREM PromiseKept ==
  ASSUME Setting
  PROVE  Spec => KeepsPromise
<1>1. Init => Promise!Init
  BY PromiseInit
<1>2. OneInv /\ Spelled /\ Spelled' /\ [Next]_vars
        => [Promise!Next]_<<StoredValues, Calls, cgot>>
  BY PromiseStep
<1> QED BY <1>1, <1>2, OneAlways, SpelledAlways, PTL
        DEF Spec, KeepsPromise, Promise!Spec

=============================================================================
