---------------------------- MODULE SmallObjects ----------------------------
(***************************************************************************)
(* The set and get of objects of at most small_file_upper bytes.  The      *)
(* proxy gathers them in k buffers; the coordinator only counts: it picks  *)
(* a buffer by what it believes is left of each (buf_rest) and records the *)
(* object at the offset that follows from it, while the proxy appends at   *)
(* an offset of its own (buf_offset).  When an object fits nowhere the     *)
(* buffers are rolled: a detached thread of the proxy copies them, encodes *)
(* the copy and saves it as a stripe, and a new stripe begins, at the      *)
(* proxy of a random AZ.                                                   *)
(*                                                                         *)
(* Only the k data blocks of a stripe are modelled: a small object is read *)
(* from its data block alone.  A job is one call of Client::set.           *)
(***************************************************************************)
EXTENDS Integers, Sequences, FiniteSets

CONSTANTS
  Clients, Keys, Vals,
  KeysOf,       \* KeysOf[c]: the keys client c sets and gets
  Size,         \* Size[v]: how many units of a buffer value v fills
  AZs,          \* availability zones, one proxy each
  Nodes,        \* datanodes
  K,            \* buffers, and data blocks of a stripe
  ShardSize,    \* units of a buffer (blob_size_upper)
  Placements,   \* the node of each data block: what generate_placement returns
  MaxSets,      \* bound: calls of Client::set
  MaxGets,      \* bound: calls of Client::get
  SemInit,      \* what the uninitialised semaphore of a proxy holds
  ShortReads,   \* may read_some return before the whole value is there?
  SerialUpload, \* TRUE: the handlers of two small uploads do not overlap
  Absent        \* no entry in an object table

Buffers == 0..(K - 1)
Cells   == 0..(ShardSize - 1)

ASSUME KeysOfAssumption == KeysOf \in [Clients -> SUBSET Keys]
ASSUME SizeAssumption ==
  /\ K \in Nat \ {0}
  /\ ShardSize \in Nat \ {0}
  /\ Size \in [Vals -> 1..ShardSize]
ASSUME LayoutAssumption == Placements \subseteq [Buffers -> Nodes]
ASSUME LimitAssumption ==
  /\ {MaxSets, MaxGets, SemInit} \subseteq Nat
  /\ {ShortReads, SerialUpload} \subseteq BOOLEAN

None    == "none"
Garbage == "garbage"         \* bytes that are not one value
ASSUME MarksAssumption == {None, Garbage} \cap Vals = {}

Jobs == 1..MaxSets
ZeroByte == <<None, 0>>
JunkByte == <<Garbage, 0>>   \* past the end of a buffer
Bytes    == (Vals \X (1..ShardSize)) \cup {ZeroByte}
Image(v) == [i \in 1..Size[v] |-> <<v, i>>]
EmptyBuffers == [i \in Buffers |-> [x \in Cells |-> ZeroByte]]

(* The default-constructed object has no stripe.                           *)
NoObject == [stripe |-> -1, idx |-> 0, off |-> 0, size |-> 0]

VARIABLES
  \* Client
  cpc, cjob, ckey, cgot, keyValues,
  \* CoordinatorImpl
  coordUp, updating, commit, nextStripe, curStripe, curProxy, bufRest,
  keyInBuffer,
  stripeInfo,   \* the placement of every stripe that has one
  \* per job: the upload handler (upc), the thread that writes the buffer
  \* (tpc), and the thread that saves the rolled buffers (epc)
  sets, job, enc,
  \* per get: the object looked up, and where it is to be read
  gets, cobj, csource,
  \* per proxy
  proxyBuf, bufOffset, sem, backlog,
  \* per datanode
  up, disk

clientVars == <<cpc, cjob, ckey, cgot, keyValues>>
tableVars  == <<updating, commit>>
stripeVars == <<nextStripe, curStripe, curProxy, bufRest, keyInBuffer, stripeInfo>>
coordVars  == <<coordUp, tableVars, stripeVars>>
getVars    == <<gets, cobj, csource>>
bufVars    == <<proxyBuf, bufOffset, sem>>
nodeVars   == <<up, disk>>
vars == <<clientVars, coordVars, sets, job, enc, getVars, bufVars, backlog,
          nodeVars>>

Unused == [key |-> None, val |-> None, upc |-> "unused", tpc |-> "none",
           idx |-> 0, obj |-> NoObject, proxy |-> None, reply |-> None]
NoEncoder == [pc |-> "none", stripe |-> 0, proxy |-> None,
              data |-> EmptyBuffers, todo |-> {}]

(* The statics of uploadOriginKeyValue are as its first call leaves them.  *)
Init ==
  /\ cpc = [c \in Clients |-> "idle"]
  /\ cjob = [c \in Clients |-> 0]
  /\ ckey = [c \in Clients |-> None]
  /\ cgot = [c \in Clients |-> None]
  /\ keyValues = [c \in Clients |-> [k \in Keys |-> None]]
  /\ coordUp = TRUE
  /\ updating = [k \in Keys |-> Absent]
  /\ commit = [k \in Keys |-> Absent]
  /\ nextStripe = 1
  /\ curStripe = 0
  /\ curProxy \in AZs
  /\ bufRest = [i \in Buffers |-> ShardSize]
  /\ keyInBuffer = {}
  /\ stripeInfo = <<>>
  /\ sets = 0
  /\ job = [j \in Jobs |-> Unused]
  /\ enc = [j \in Jobs |-> NoEncoder]
  /\ gets = 0
  /\ cobj = [c \in Clients |-> NoObject]
  /\ csource = [c \in Clients |-> None]
  /\ proxyBuf = [a \in AZs |-> EmptyBuffers]
  /\ bufOffset = [a \in AZs |-> [i \in Buffers |-> 0]]
  /\ sem = [a \in AZs |-> SemInit]
  /\ backlog = [a \in AZs |-> <<>>]
  /\ up = [n \in Nodes |-> TRUE]
  /\ disk = [n \in Nodes |-> {}]

-----------------------------------------------------------------------------
(* Client::set                                                             *)

Set(c, k, v) ==
  LET j == sets + 1 IN
  /\ coordUp
  /\ cpc[c] = "idle"
  /\ sets < MaxSets
  /\ sets' = j
  /\ cpc' = [cpc EXCEPT ![c] = "upload"]
  /\ cjob' = [cjob EXCEPT ![c] = j]
  /\ cgot' = [cgot EXCEPT ![c] = None]
  /\ job' = [job EXCEPT ![j].key = k, ![j].val = v, ![j].upc = "erase"]
  /\ UNCHANGED <<ckey, keyValues, coordVars, enc, getVars, bufVars, backlog,
                 nodeVars>>

Connect(c) ==
  LET b == job[cjob[c]] IN
  /\ cpc[c] = "upload"
  /\ b.upc = "replied"
  /\ cpc' = [cpc EXCEPT ![c] = "check"]
  /\ backlog' = [backlog EXCEPT ![b.reply] =
                   Append(@, [key |-> b.key, val |-> b.val])]
  /\ UNCHANGED <<cjob, ckey, cgot, keyValues, coordVars, sets, job, enc, getVars,
                 bufVars, nodeVars>>

CheckCommitAbort(c) ==
  LET b == job[cjob[c]] IN
  /\ coordUp
  /\ cpc[c] = "check"
  /\ commit[b.key] # Absent
  /\ cpc' = [cpc EXCEPT ![c] = "idle"]
  /\ keyValues' = [keyValues EXCEPT ![c][b.key] = b.val]
  /\ UNCHANGED <<cjob, ckey, cgot, coordVars, sets, job, enc, getVars, bufVars,
                 backlog, nodeVars>>

-----------------------------------------------------------------------------
(* uploadOriginKeyValue.  Nothing but its first and last step is locked.   *)

ForgetNothing(k) == commit
Forget(k) == [commit EXCEPT ![k] = Absent]

UploadErase(j) ==
  /\ coordUp
  /\ job[j].upc = "erase"
  /\ commit' = Forget(job[j].key)
  /\ job' = [job EXCEPT ![j].upc = "choose"]
  /\ UNCHANGED <<clientVars, coordUp, updating, stripeVars, sets, enc, getVars,
                 bufVars, backlog, nodeVars>>

(* The buffer the loop settles on: the emptiest, the last one of those.    *)
NotFull(n) == {i \in Buffers : bufRest[i] > 0}
Roomy(n) == {i \in Buffers : bufRest[i] >= n}
Chosen(n) ==
  CHOOSE i \in Roomy(n) : \A x \in Roomy(n) :
    bufRest[x] < bufRest[i] \/ (bufRest[x] = bufRest[i] /\ x <= i)

Placing == {"roll", "wait", "renew", "write", "record"}

ChooseBuffer(j) ==
  LET n == Size[job[j].val] IN
  /\ coordUp
  /\ job[j].upc = "choose"
  /\ SerialUpload => \A i \in Jobs : job[i].upc \notin Placing
  /\ job' = IF Roomy(n) # {}
            THEN [job EXCEPT ![j].upc = "write", ![j].idx = Chosen(n)]
            ELSE [job EXCEPT ![j].upc = "roll", ![j].idx = 0]
  /\ UNCHANGED <<clientVars, coordVars, sets, enc, getVars, bufVars, backlog,
                 nodeVars>>

(* generate_placement appends to the stripe's node list, of which only the *)
(* first nodes are used; WriteBufferAndEncode(-1) starts the thread and    *)
(* waits for the semaphore.                                                *)
Roll(j) ==
  /\ coordUp
  /\ job[j].upc = "roll"
  /\ \E p \in Placements :
       stripeInfo' = IF curStripe \in DOMAIN stripeInfo THEN stripeInfo
                     ELSE [s \in DOMAIN stripeInfo \cup {curStripe} |->
                             IF s = curStripe THEN p ELSE stripeInfo[s]]
  /\ enc' = [enc EXCEPT ![j].pc = "copy", ![j].stripe = curStripe,
                        ![j].proxy = curProxy]
  /\ job' = [job EXCEPT ![j].upc = "wait"]
  /\ UNCHANGED <<clientVars, coordUp, tableVars, nextStripe, curStripe, curProxy,
                 bufRest, keyInBuffer, sets, getVars, bufVars, backlog, nodeVars>>

(* sem_wait, and the buffers are emptied.                                  *)
KeepOffsets(a) == bufOffset
Rewind(a) == [bufOffset EXCEPT ![a] = [i \in Buffers |-> 0]]

ReinitBuffers(j) ==
  LET a == enc[j].proxy IN
  /\ job[j].upc = "wait"
  /\ sem[a] > 0
  /\ sem' = [sem EXCEPT ![a] = @ - 1]
  /\ proxyBuf' = [proxyBuf EXCEPT ![a] = EmptyBuffers]
  /\ bufOffset' = Rewind(a)
  /\ job' = [job EXCEPT ![j].upc = "renew"]
  /\ UNCHANGED <<clientVars, coordVars, sets, enc, getVars, backlog, nodeVars>>

(* The new stripe, the proxy of a random AZ, and the counters start anew.  *)
KeepKeys == keyInBuffer
ClearKeys == {}

NewStripe(j) ==
  /\ coordUp
  /\ job[j].upc = "renew"
  /\ curStripe' = nextStripe
  /\ nextStripe' = nextStripe + 1
  /\ curProxy' \in AZs
  /\ bufRest' = [i \in Buffers |-> ShardSize]
  /\ keyInBuffer' = ClearKeys
  /\ job' = [job EXCEPT ![j].upc = "write"]
  /\ UNCHANGED <<clientVars, coordUp, tableVars, stripeInfo, sets, enc, getVars,
                 bufVars, backlog, nodeVars>>

(* WriteBufferAndEncode(idx) starts the thread that will take the value.   *)
StartWrite(j) ==
  /\ coordUp
  /\ job[j].upc = "write"
  /\ job' = [job EXCEPT ![j].upc = "record", ![j].tpc = "accept",
                        ![j].proxy = curProxy]
  /\ keyInBuffer' = keyInBuffer \cup {job[j].key}
  /\ UNCHANGED <<clientVars, coordUp, tableVars, nextStripe, curStripe, curProxy,
                 bufRest, stripeInfo, sets, enc, getVars, bufVars, backlog,
                 nodeVars>>

KeepRest(i, n) == bufRest
Take(i, n) == [bufRest EXCEPT ![i] = @ - n]

RecordObject(j) ==
  LET i == job[j].idx
      n == Size[job[j].val]
  IN
  /\ coordUp
  /\ job[j].upc = "record"
  /\ job' = [job EXCEPT ![j].upc = "publish", ![j].reply = curProxy,
               ![j].obj = [stripe |-> curStripe, idx |-> i,
                           off |-> ShardSize - bufRest[i], size |-> n]]
  /\ bufRest' = Take(i, n)
  /\ UNCHANGED <<clientVars, coordUp, tableVars, nextStripe, curStripe, curProxy,
                 keyInBuffer, stripeInfo, sets, enc, getVars, bufVars, backlog,
                 nodeVars>>

UploadPublish(j) ==
  /\ coordUp
  /\ job[j].upc = "publish"
  /\ updating' = [updating EXCEPT ![job[j].key] = job[j].obj]
  /\ job' = [job EXCEPT ![j].upc = "replied"]
  /\ UNCHANGED <<clientVars, coordUp, commit, stripeVars, sets, enc, getVars,
                 bufVars, backlog, nodeVars>>

-----------------------------------------------------------------------------
(* The thread of WriteBufferAndEncode(idx)                                 *)

(* What of the value read_some brings; the rest of the thread's own buffer *)
(* is zero and is copied with it.                                          *)
Received(v) ==
  {[i \in 1..Size[v] |-> IF i <= len THEN <<v, i>> ELSE ZeroByte] :
     len \in IF ShortReads THEN 1..Size[v] ELSE {Size[v]}}

(* Bytes written past the end of the buffer land elsewhere.                *)
Overwrite(shard, off, bytes) ==
  [x \in Cells |-> IF x - off \in 0..(Len(bytes) - 1) THEN bytes[x - off + 1]
                                                      ELSE shard[x]]

(* A connection with another key is closed, and nothing is written.        *)
WriteBuffer(j) ==
  LET a == job[j].proxy
      i == job[j].idx
      conn == Head(backlog[a])
  IN
  /\ job[j].tpc = "accept"
  /\ backlog[a] # <<>>
  /\ backlog' = [backlog EXCEPT ![a] = Tail(@)]
  /\ IF conn.key = job[j].key
     THEN /\ \E bytes \in Received(conn.val) :
               proxyBuf' = [proxyBuf EXCEPT ![a][i] =
                              Overwrite(@, bufOffset[a][i], bytes)]
          /\ bufOffset' = [bufOffset EXCEPT ![a][i] = @ + Size[job[j].val]]
     ELSE UNCHANGED <<proxyBuf, bufOffset>>
  /\ job' = [job EXCEPT ![j].tpc = "report"]
  /\ UNCHANGED <<clientVars, coordVars, sets, enc, getVars, sem, nodeVars>>

ReportCommitAbort(j) ==
  LET k == job[j].key IN
  /\ coordUp
  /\ job[j].tpc = "report"
  /\ commit' = [commit EXCEPT ![k] =
                  IF updating[k] = Absent THEN NoObject ELSE updating[k]]
  /\ updating' = [updating EXCEPT ![k] = Absent]
  /\ job' = [job EXCEPT ![j].tpc = "done"]
  /\ UNCHANGED <<clientVars, coordUp, stripeVars, sets, enc, getVars, bufVars,
                 backlog, nodeVars>>

-----------------------------------------------------------------------------
(* The thread of WriteBufferAndEncode(-1)                                  *)

NoPost(a) == sem
Post(a) == [sem EXCEPT ![a] = @ + 1]

(* The blocks of the copy, each with a sending thread of its own.          *)
ButLast == Buffers \ {K - 1}
ToSend == Buffers

EncodeCopy(j) ==
  LET a == enc[j].proxy IN
  /\ enc[j].pc = "copy"
  /\ enc' = [enc EXCEPT ![j].pc = "save", ![j].data = proxyBuf[a],
                        ![j].todo = ToSend]
  /\ sem' = Post(a)
  /\ UNCHANGED <<clientVars, coordVars, sets, job, getVars, proxyBuf, bufOffset,
                 backlog, nodeVars>>

(* A block's key at the datanode: the stripe's id and the block's index.    *)
SameBlock(b, s, i) == b.stripe = s /\ b.idx = i

(* Whether the datanode takes the block is not looked at.                  *)
SetToMemcached(j, i) ==
  LET e == enc[j]
      n == stripeInfo[e.stripe][i]
  IN
  /\ e.pc = "save"
  /\ i \in e.todo
  /\ enc' = [enc EXCEPT ![j].todo = @ \ {i}]
  /\ disk' = IF up[n]
             THEN [disk EXCEPT ![n] =
                     {b \in @ : ~ SameBlock(b, e.stripe, i)}
                       \cup {[stripe |-> e.stripe, idx |-> i, data |-> e.data[i]]}]
             ELSE disk
  /\ UNCHANGED <<clientVars, coordVars, sets, job, getVars, bufVars, backlog, up>>

Pending(j) == enc[j].pc = "copy" \/ enc[j].todo # {}

-----------------------------------------------------------------------------
(* Client::get and getValue                                                *)

Get(c, k) ==
  /\ coordUp
  /\ cpc[c] = "idle"
  /\ gets < MaxGets
  /\ keyValues[c][k] # None
  /\ gets' = gets + 1
  /\ cpc' = [cpc EXCEPT ![c] = "lookup"]
  /\ ckey' = [ckey EXCEPT ![c] = k]
  /\ cgot' = [cgot EXCEPT ![c] = None]
  /\ UNCHANGED <<cjob, keyValues, coordVars, sets, job, enc, cobj, csource, bufVars,
                 backlog, nodeVars>>

(* The commit table is read under the lock.  A client gets only what it    *)
(* has set; an object without a stripe brings the coordinator down.        *)
GetValue(c) ==
  LET obj == commit[ckey[c]] IN
  /\ coordUp
  /\ cpc[c] = "lookup"
  /\ obj # Absent
  /\ coordUp' = (obj # NoObject)
  /\ cobj' = [cobj EXCEPT ![c] = obj]
  /\ cpc' = [cpc EXCEPT ![c] = IF obj = NoObject THEN "stuck" ELSE "route"]
  /\ UNCHANGED <<cjob, ckey, cgot, keyValues, tableVars, stripeVars, sets, job,
                 enc, gets, csource, bufVars, backlog, nodeVars>>

(* A key that was written to the current stripe is read from the buffer of *)
(* the current proxy, any other from its datanode.  A stripe that has no   *)
(* placement yet is an index out of range.                                 *)
Route(c) ==
  LET obj == cobj[c]
      placed == obj.stripe \in DOMAIN stripeInfo
      buffered == ckey[c] \in keyInBuffer
  IN
  /\ coordUp
  /\ cpc[c] = "route"
  /\ coordUp' = (buffered \/ placed)
  /\ cpc' = [cpc EXCEPT ![c] = CASE buffered -> "buffer"
                                 [] placed /\ ~buffered -> "node"
                                 [] OTHER -> "stuck"]
  /\ csource' = [csource EXCEPT ![c] = CASE buffered -> curProxy
                                 [] placed /\ ~buffered -> stripeInfo[obj.stripe][obj.idx]
                                 [] OTHER -> None]
  /\ UNCHANGED <<cjob, ckey, cgot, keyValues, tableVars, stripeVars, sets, job,
                 enc, gets, cobj, bufVars, backlog, nodeVars>>

ValueOf(bytes) == IF \E v \in Vals : bytes = Image(v)
                  THEN CHOOSE v \in Vals : bytes = Image(v) ELSE Garbage

ReadAt(shard, obj) ==
  ValueOf([i \in 1..obj.size |-> IF obj.off + i - 1 \in Cells
                                 THEN shard[obj.off + i - 1] ELSE JunkByte])

GetObjectFromBuffer(c) ==
  /\ cpc[c] = "buffer"
  /\ cgot' = [cgot EXCEPT ![c] = ReadAt(proxyBuf[csource[c]][cobj[c].idx], cobj[c])]
  /\ cpc' = [cpc EXCEPT ![c] = "idle"]
  /\ UNCHANGED <<cjob, ckey, keyValues, coordVars, sets, job, enc, getVars, bufVars,
                 backlog, nodeVars>>

Held(n, obj) == {b \in disk[n] : b.stripe = obj.stripe /\ b.idx = obj.idx}

(* decodeAndGetObject reads the one block.  A datanode asked for a block   *)
(* it does not hold exits, and the read that fails yields zeros.           *)
GetFromMemcached(c) ==
  LET n == csource[c]
      held == Held(n, cobj[c])
  IN
  /\ cpc[c] = "node"
  /\ cgot' = [cgot EXCEPT ![c] =
                IF up[n] /\ held # {}
                THEN ReadAt((CHOOSE b \in held : TRUE).data, cobj[c])
                ELSE Garbage]
  /\ up' = [up EXCEPT ![n] = @ /\ held # {}]
  /\ cpc' = [cpc EXCEPT ![c] = "idle"]
  /\ UNCHANGED <<cjob, ckey, keyValues, coordVars, sets, job, enc, getVars, bufVars,
                 backlog, disk>>

(* Every client has returned and every thread has ended.                   *)
Finished ==
  /\ \A c \in Clients : cpc[c] = "idle"
  /\ \A j \in Jobs : job[j].tpc \in {"none", "done"} /\ ~ Pending(j)
  /\ UNCHANGED vars

-----------------------------------------------------------------------------
ClientStep(c) ==
  \/ Connect(c) \/ CheckCommitAbort(c)
  \/ GetValue(c) \/ Route(c) \/ GetObjectFromBuffer(c) \/ GetFromMemcached(c)
JobStep(j) ==
  \/ UploadErase(j) \/ ChooseBuffer(j) \/ Roll(j) \/ ReinitBuffers(j)
  \/ NewStripe(j) \/ StartWrite(j) \/ RecordObject(j) \/ UploadPublish(j)
  \/ WriteBuffer(j) \/ ReportCommitAbort(j)
EncoderStep(j) == EncodeCopy(j) \/ \E i \in Buffers : SetToMemcached(j, i)

Next ==
  \/ \E c \in Clients : \/ ClientStep(c)
                        \/ \E k \in KeysOf[c] :
                             Get(c, k) \/ \E v \in Vals : Set(c, k, v)
  \/ \E j \in Jobs : JobStep(j) \/ EncoderStep(j)
  \/ Finished

Spec == Init /\ [][Next]_vars

(* Handlers and threads that can run eventually do.                        *)
Fairness ==
  /\ \A c \in Clients : WF_vars(ClientStep(c))
  /\ \A j \in Jobs : WF_vars(JobStep(j)) /\ WF_vars(EncoderStep(j))

FairSpec == Spec /\ Fairness

-----------------------------------------------------------------------------
ObjectType == [stripe : Nat, idx : Buffers, off : Int, size : 1..ShardSize]
                \cup {NoObject}
ASSUME AbsentAssumption == Absent \notin ObjectType
Contents == [Buffers -> [Cells -> Bytes]]

ClientTypeOK ==
  /\ cpc \in [Clients -> {"idle", "upload", "check", "lookup", "route", "buffer",
                          "node", "stuck"}]
  /\ cjob \in [Clients -> 0..MaxSets]
  /\ ckey \in [Clients -> Keys \cup {None}]
  /\ cgot \in [Clients -> Vals \cup {None, Garbage}]
  /\ keyValues \in [Clients -> [Keys -> Vals \cup {None}]]

CoordTypeOK ==
  /\ coordUp \in BOOLEAN
  /\ updating \in [Keys -> ObjectType \cup {Absent}]
  /\ commit \in [Keys -> ObjectType \cup {Absent}]
  /\ nextStripe \in Nat /\ curStripe \in Nat /\ curProxy \in AZs
  /\ bufRest \in [Buffers -> 0..ShardSize]
  /\ keyInBuffer \subseteq Keys
  /\ \A s \in DOMAIN stripeInfo : s \in Nat /\ stripeInfo[s] \in Placements

CallTypeOK ==
  /\ sets \in 0..MaxSets
  /\ job \in [Jobs -> [key : Keys \cup {None}, val : Vals \cup {None},
                       upc : {"unused", "erase", "choose", "publish", "replied"}
                               \cup Placing,
                       tpc : {"none", "accept", "report", "done"},
                       idx : Buffers, obj : ObjectType,
                       proxy : AZs \cup {None}, reply : AZs \cup {None}]]
  /\ gets \in 0..MaxGets
  /\ cobj \in [Clients -> ObjectType]
  /\ csource \in [Clients -> AZs \cup Nodes \cup {None}]

DataTypeOK ==
  /\ enc \in [Jobs -> [pc : {"none", "copy", "save"}, stripe : Nat,
                       proxy : AZs \cup {None}, data : Contents,
                       todo : SUBSET Buffers]]
  /\ proxyBuf \in [AZs -> Contents]
  /\ bufOffset \in [AZs -> [Buffers -> 0..ShardSize]]
  /\ sem \in [AZs -> Nat]
  /\ backlog \in [AZs -> Seq([key : Keys, val : Vals])]
  /\ up \in [Nodes -> BOOLEAN]
  /\ DOMAIN disk = Nodes
  /\ \A n \in Nodes : \A b \in disk[n] : /\ b.stripe \in Nat /\ b.idx \in Buffers
                                         /\ b.data \in [Cells -> Bytes]

(* The type of every variable.  The counters are where they may be: no     *)
(* buffer holds less than nothing or more than it has room for.            *)
TypeOK == ClientTypeOK /\ CoordTypeOK /\ CallTypeOK /\ DataTypeOK

-----------------------------------------------------------------------------
(* What run_client tests after a get: the value the client last set for    *)
(* the key comes back.                                                     *)
ReadBack ==
  \A c \in Clients : cgot[c] # None => cgot[c] = keyValues[c][ckey[c]]

(* The value of the last set of key k that has reached the coordinator.    *)
LastVal(k) ==
  LET mine == {j \in Jobs : job[j].key = k /\ job[j].upc \notin {"unused", "erase"}} IN
  job[CHOOSE j \in mine : \A i \in mine : i <= j].val

(* The copies of the block an object lies in: the current buffer, the       *)
(* buffer or the copy of a thread that saves its stripe, and the datanode.  *)
Copies(obj) ==
  {proxyBuf[curProxy][obj.idx] : s \in {obj.stripe} \cap {curStripe}}
  \cup {proxyBuf[enc[j].proxy][obj.idx] :
          j \in {i \in Jobs : enc[i].pc = "copy" /\ enc[i].stripe = obj.stripe}}
  \cup {enc[j].data[obj.idx] :
          j \in {i \in Jobs : obj.idx \in enc[i].todo /\ enc[i].stripe = obj.stripe}}
  \cup UNION {{b.data : b \in Held(stripeInfo[s][obj.idx], obj)} :
          s \in {obj.stripe} \cap DOMAIN stripeInfo}

Committed == {k \in Keys : commit[k] \notin {Absent, NoObject}}

(* No byte of a committed object is lost, however the gathering of the     *)
(* next objects, the roll of the buffers and the saving of the old ones    *)
(* interleave: some copy of its block holds the whole value at the offset  *)
(* on record, or the datanode of the block is down.                        *)
NoByteLost ==
  \A k \in Committed :
    LET obj == commit[k] IN
    \/ \E shard \in Copies(obj) : ReadAt(shard, obj) = LastVal(k)
    \/ obj.stripe \in DOMAIN stripeInfo /\ ~ up[stripeInfo[obj.stripe][obj.idx]]

(* Every object lies within its buffer, and no two overlap.                *)
SlotsFit ==
  \A k, l \in Committed :
    LET x == commit[k]
        y == commit[l]
    IN
    /\ x.off + x.size <= ShardSize
    /\ k # l /\ x.stripe = y.stripe /\ x.idx = y.idx
         => x.off + x.size <= y.off \/ y.off + y.size <= x.off

(* Between sets the coordinator, which chooses where objects go, and the   *)
(* proxy, which puts them there, agree on how full every buffer is.        *)
BookkeepingAgrees ==
  (\A j \in Jobs : /\ job[j].upc \in {"unused", "replied"}
                   /\ job[j].tpc \in {"none", "done"})
    => \A i \in Buffers : bufOffset[curProxy][i] = ShardSize - bufRest[i]

(* What getValue reads from the current buffers was written to them.       *)
BufferedIsCurrent ==
  \A k \in keyInBuffer \cap Committed : commit[k].stripe = curStripe

(* The datanode of the block that key k lies in is down.                   *)
BlockDown(k) ==
  LET obj == commit[k] IN
  /\ obj \notin {Absent, NoObject}
  /\ obj.stripe \in DOMAIN stripeInfo
  /\ ~ up[stripeInfo[obj.stripe][obj.idx]]

(* A get returns what the client last set for the key, also while the      *)
(* stripe of the key is being saved, or it fails because the datanode of   *)
(* the key's block is down; it never returns another value, or garbage     *)
(* from a datanode that is up or from a buffer.                            *)
ReadsOrFails ==
  \A c \in Clients : cgot[c] # None =>
    \/ cgot[c] = keyValues[c][ckey[c]]
    \/ cgot[c] = Garbage /\ BlockDown(ckey[c])

(* Thread j still has to send the block obj lies in to its datanode.       *)
Unsent(j, obj) == enc[j].stripe = obj.stripe /\ obj.idx \in enc[j].todo

(* What a get can bring down is the datanode of a block that the thread    *)
(* saving its stripe has not sent yet, and nothing else: no datanode after *)
(* its block has been sent, and not the coordinator.                       *)
OnlyEarlyGetsStop ==
  [][/\ coordUp => coordUp'
     /\ \A n \in Nodes : up[n] /\ ~up'[n] =>
          \E c \in Clients : /\ cpc[c] = "node" /\ csource[c] = n
                            /\ \E j \in Jobs : Unsent(j, cobj[c])]_vars

(* A call of Client::set returns: no handler waits for ever for its roll.  *)
SetReturns ==
  \A c \in Clients : cpc[c] \in {"upload", "check"} ~> cpc[c] = "idle"

-----------------------------------------------------------------------------
Located(obj) ==
  LET values == {ReadAt(shard, obj) : shard \in Copies(obj)} \ {Garbage} IN
  IF values = {} THEN Garbage ELSE CHOOSE v \in values : TRUE

Phase(b) == CASE b.upc = "erase" -> "called"
              [] b.upc # "erase" /\ b.tpc # "done" -> "forgotten"
              [] OTHER -> "stored"

StoredValues ==
  [k \in Keys |-> IF commit[k] = Absent THEN None ELSE Located(commit[k])]

CallOf(c) ==
  CASE cpc[c] = "idle" -> [op |-> "none"]
    [] cpc[c] \in {"upload", "check"} ->
         [op |-> "set", key |-> job[cjob[c]].key, val |-> job[cjob[c]].val,
          phase |-> Phase(job[cjob[c]])]
    [] OTHER -> [op |-> "get", key |-> ckey[c]]

Calls == [c \in Clients |-> CallOf(c)]

Promise == INSTANCE ObjectStore WITH
  db <- StoredValues, call <- Calls, result <- cgot

(* Small objects keep the promise of ObjectStore, as large ones do: rolling *)
(* the buffers and saving them in the background is invisible, also to      *)
(* gets made meanwhile, as long as none of them has taken a datanode down.  *)
AllUp == \A n \in Nodes : up[n]

KeepsPromise ==
  Promise!Init /\ [][AllUp' => [Promise!Next]_<<StoredValues, Calls, cgot>>]_vars
=============================================================================
