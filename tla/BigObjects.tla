----------------------------- MODULE BigObjects -----------------------------
(***************************************************************************)
(* The set and get of objects larger than small_file_upper: the client,    *)
(* the coordinator's uploadOriginKeyValue, reportCommitAbort,              *)
(* checkCommitAbort and getValue, the detached threads of the proxies'     *)
(* EncodeAndSetObject and decodeAndGetObject, and the datanodes.           *)
(*                                                                         *)
(* A job is one call of Client::set: the coordinator's handler of its      *)
(* upload and the proxy thread that handler starts.  A value is a token; a *)
(* stripe's codeword is the token of the value it encodes, so every shard  *)
(* of a stripe carries the same token.                                     *)
(***************************************************************************)
EXTENDS Naturals, Sequences, FiniteSets

CONSTANTS
  Clients,      \* client processes
  Keys, Vals,   \* object keys and values
  KeysOf,       \* KeysOf[c]: the keys client c sets and gets
  AZs,          \* availability zones, one proxy each
  Nodes,        \* datanodes
  Shards,       \* the k + g_m blocks of a stripe
  K,            \* how many blocks decode a stripe (RS)
  Placements,   \* the node of each block: what generate_placement may return
  MaxStripes,   \* stripes of the largest object
  MaxSets,      \* bound: calls of Client::set
  MaxGets,      \* bound: calls of Client::get
  Crashable,    \* datanodes that may crash (they are not restarted)
  GetUnset,     \* may a client get a key it has not successfully set?
  SerialAlloc,  \* TRUE: the increments of m_next_stripe_id do not overlap
  Absent        \* no entry in an object table

ASSUME KeysAssumption == KeysOf \in [Clients -> SUBSET Keys]
ASSUME ShardsAssumption ==
  /\ IsFiniteSet(Shards)
  /\ K \in 1..Cardinality(Shards)
  /\ Placements \subseteq [Shards -> Nodes]
ASSUME BoundsAssumption ==
  /\ MaxStripes \in Nat \ {0}
  /\ MaxSets \in Nat
  /\ MaxGets \in Nat
  /\ Crashable \subseteq Nodes
  /\ {GetUnset, SerialAlloc} \subseteq BOOLEAN
ASSUME AbsentAssumption == Absent \notin Seq(Nat)

None    == "none"     \* no value
Blank   == "blank"    \* the buffer of a thread that refused the key it read
Zero    == "zero"     \* the untouched buffer of a read that failed
Garbage == "garbage"  \* decoded from blocks that are not of one codeword

Jobs    == 1..MaxSets
Content == Vals \cup {Blank}
Tokens  == Content \cup {None, Zero, Garbage}
Objects == Seq(Nat)                \* an ObjectItemBigSmall: its stripe ids
Block   == [stripe : Nat, shard : Shards, data : Content]

VARIABLES
  \* Client
  cpc,          \* where client c is in set or get
  cjob,         \* the job of its current set
  ckey,         \* the key of its current get
  cgot,         \* the value its last get returned
  keyValues,    \* run_client's key_values: what it has set
  \* CoordinatorImpl
  coordUp, mutexFree, nextStripe, stripeInfo, updating, commit,
  \* uploadOriginKeyValue and EncodeAndSetObject, one per job
  sets, upc, tpc, jkey, jval, jsize, jstripes, jplace, jreg, jproxy,
  jdata, jtodo,
  \* decodeAndGetObject, one thread per get
  gets, reader, reads,
  \* each proxy's acceptor, and the datanodes
  backlog, up, mem

clientVars == <<cpc, cjob, ckey, cgot, keyValues>>
tableVars  == <<updating, commit>>
allocVars  == <<nextStripe, stripeInfo>>
coordVars  == <<coordUp, mutexFree, allocVars, tableVars>>
paramVars  == <<jkey, jval, jsize>>
planVars   == <<jstripes, jplace, jreg, jproxy>>
dataVars   == <<jdata, jtodo>>
readVars   == <<gets, reader, reads>>
nodeVars   == <<up, mem>>
vars == <<clientVars, coordVars, sets, upc, tpc, paramVars, planVars, dataVars,
          readVars, backlog, nodeVars>>

Idle == [pc |-> "none", obj |-> <<>>, i |-> 0, got |-> {}, acc |-> None,
         round |-> 0]

Init ==
  /\ cpc = [c \in Clients |-> "idle"]
  /\ cjob = [c \in Clients |-> 0]
  /\ ckey = [c \in Clients |-> None]
  /\ cgot = [c \in Clients |-> None]
  /\ keyValues = [c \in Clients |-> [k \in Keys |-> None]]
  /\ coordUp = TRUE
  /\ mutexFree = TRUE
  /\ nextStripe = 0
  /\ stripeInfo = <<>>
  /\ updating = [k \in Keys |-> Absent]
  /\ commit = [k \in Keys |-> Absent]
  /\ sets = 0
  /\ upc = [j \in Jobs |-> "unused"]
  /\ tpc = [j \in Jobs |-> "none"]
  /\ jkey = [j \in Jobs |-> None]
  /\ jval = [j \in Jobs |-> None]
  /\ jsize = [j \in Jobs |-> 0]
  /\ jstripes = [j \in Jobs |-> <<>>]
  /\ jplace = [j \in Jobs |-> <<>>]
  /\ jreg = [j \in Jobs |-> 0]
  /\ jproxy = [j \in Jobs |-> None]
  /\ jdata = [j \in Jobs |-> None]
  /\ jtodo = [j \in Jobs |-> {}]
  /\ gets = 0
  /\ reader = [c \in Clients |-> Idle]
  /\ reads = {}
  /\ backlog = [a \in AZs |-> <<>>]
  /\ up = [n \in Nodes |-> TRUE]
  /\ mem = [n \in Nodes |-> {}]

-----------------------------------------------------------------------------
(* Client::set: the upload RPC is sent; its handler is job sets + 1.  The  *)
(* size of the value fixes the number of stripes.                          *)

Set(c, k, v, n) ==
  LET j == sets + 1 IN
  /\ coordUp
  /\ cpc[c] = "idle"
  /\ sets < MaxSets
  /\ sets' = j
  /\ cpc' = [cpc EXCEPT ![c] = "upload"]
  /\ cjob' = [cjob EXCEPT ![c] = j]
  /\ cgot' = [cgot EXCEPT ![c] = None]
  /\ upc' = [upc EXCEPT ![j] = "erase"]
  /\ jkey' = [jkey EXCEPT ![j] = k]
  /\ jval' = [jval EXCEPT ![j] = v]
  /\ jsize' = [jsize EXCEPT ![j] = n]
  /\ UNCHANGED <<ckey, keyValues, coordVars, tpc, planVars, dataVars, readVars,
                 backlog, nodeVars>>

(* The reply names the proxy: connect to its acceptor and send key and     *)
(* value.  The connection waits in the backlog until a thread accepts it.  *)
Connect(c) ==
  LET j == cjob[c] IN
  /\ cpc[c] = "upload"
  /\ upc[j] = "replied"
  /\ cpc' = [cpc EXCEPT ![c] = "check"]
  /\ backlog' = [backlog EXCEPT ![jproxy[j]] =
                   Append(@, [key |-> jkey[j], val |-> jval[j]])]
  /\ UNCHANGED <<cjob, ckey, cgot, keyValues, coordVars, sets, upc, tpc,
                 paramVars, planVars, dataVars, readVars, nodeVars>>

(* checkCommitAbort waits on cv until the key is in the commit table.      *)
CheckCommitAbort(c) ==
  LET j == cjob[c] IN
  /\ coordUp /\ mutexFree
  /\ cpc[c] = "check"
  /\ commit[jkey[j]] # Absent
  /\ cpc' = [cpc EXCEPT ![c] = "idle"]
  /\ keyValues' = [keyValues EXCEPT ![c][jkey[j]] = jval[j]]
  /\ UNCHANGED <<cjob, ckey, cgot, coordVars, sets, upc, tpc, paramVars,
                 planVars, dataVars, readVars, backlog, nodeVars>>

(* With the coordinator gone the upload or the check fails: set is false.  *)
SetFails(c) ==
  /\ ~coordUp
  /\ \/ cpc[c] = "check"
     \/ cpc[c] = "upload" /\ upc[cjob[c]] # "replied"
  /\ cpc' = [cpc EXCEPT ![c] = "idle"]
  /\ UNCHANGED <<cjob, ckey, cgot, keyValues, coordVars, sets, upc, tpc,
                 paramVars, planVars, dataVars, readVars, backlog, nodeVars>>

-----------------------------------------------------------------------------
(* uploadOriginKeyValue                                                    *)

ForgetNothing(k) == commit
Forget(k) == [commit EXCEPT ![k] = Absent]

UploadErase(j) ==
  /\ coordUp /\ mutexFree
  /\ upc[j] = "erase"
  /\ upc' = [upc EXCEPT ![j] = "load"]
  /\ commit' = Forget(jkey[j])
  /\ UNCHANGED <<clientVars, coordUp, mutexFree, allocVars, updating, sets, tpc,
                 paramVars, planVars, dataVars, readVars, backlog, nodeVars>>

(* m_next_stripe_id++ outside the mutex: a load, then a store.             *)
UploadLoadStripeId(j) ==
  /\ coordUp
  /\ upc[j] = "load"
  /\ SerialAlloc => \A i \in Jobs : upc[i] # "store"
  /\ upc' = [upc EXCEPT ![j] = "store"]
  /\ jreg' = [jreg EXCEPT ![j] = nextStripe]
  /\ UNCHANGED <<clientVars, coordVars, sets, tpc, paramVars, jstripes, jplace,
                 jproxy, dataVars, readVars, backlog, nodeVars>>

(* The store, the new entry of m_Stripe_info, its placement, and the       *)
(* stripe's node list copied into the request for the proxy.               *)
UploadStoreStripeId(j) ==
  LET s == jreg[j] IN
  /\ coordUp
  /\ upc[j] = "store"
  /\ nextStripe' = s + 1
  /\ \E p \in Placements :
       /\ stripeInfo' = [t \in DOMAIN stripeInfo \cup {s} |->
                           IF t = s THEN p ELSE stripeInfo[t]]
       /\ jplace' = [jplace EXCEPT ![j] = Append(@, p)]
  /\ jstripes' = [jstripes EXCEPT ![j] = Append(@, s)]
  /\ upc' = [upc EXCEPT ![j] = IF Len(jstripes[j]) + 1 < jsize[j]
                                THEN "load" ELSE "rpc"]
  /\ UNCHANGED <<clientVars, coordUp, mutexFree, tableVars, sets, tpc, paramVars,
                 jreg, jproxy, dataVars, readVars, backlog, nodeVars>>

(* The proxy of a random AZ starts the thread and returns at once.         *)
EncodeAndSetObject(j, a) ==
  /\ coordUp
  /\ upc[j] = "rpc"
  /\ upc' = [upc EXCEPT ![j] = "publish"]
  /\ tpc' = [tpc EXCEPT ![j] = "accept"]
  /\ jproxy' = [jproxy EXCEPT ![j] = a]
  /\ UNCHANGED <<clientVars, coordVars, sets, paramVars, jstripes, jplace, jreg,
                 dataVars, readVars, backlog, nodeVars>>

(* Only now is the object entered in the updating table.                   *)
UploadPublish(j) ==
  /\ coordUp /\ mutexFree
  /\ upc[j] = "publish"
  /\ upc' = [upc EXCEPT ![j] = "replied"]
  /\ updating' = [updating EXCEPT ![jkey[j]] = jstripes[j]]
  /\ UNCHANGED <<clientVars, coordUp, mutexFree, allocVars, commit, sets, tpc,
                 paramVars, planVars, dataVars, readVars, backlog, nodeVars>>

-----------------------------------------------------------------------------
(* The thread of EncodeAndSetObject                                        *)

(* The blocks a thread owes, as <<stripe, shard>>.                          *)
OwedButLastStripe(j) == (1..(Len(jstripes[j]) - 1)) \X Shards
Owed(j) == (1..Len(jstripes[j])) \X Shards

DropAll(queue) == <<>>
Dequeue(queue) == Tail(queue)

(* It accepts the first connection of its proxy's acceptor, whoever made   *)
(* it; when the key is not its own it reads no value and goes on.          *)
Accept(j) ==
  LET conn == Head(backlog[jproxy[j]]) IN
  /\ tpc[j] = "accept"
  /\ backlog[jproxy[j]] # <<>>
  /\ backlog' = [backlog EXCEPT ![jproxy[j]] = Dequeue(@)]
  /\ tpc' = [tpc EXCEPT ![j] = "save"]
  /\ jdata' = [jdata EXCEPT ![j] = IF conn.key = jkey[j] THEN conn.val ELSE Blank]
  /\ jtodo' = [jtodo EXCEPT ![j] = Owed(j)]
  /\ UNCHANGED <<clientVars, coordVars, sets, upc, paramVars, planVars, readVars,
                 nodeVars>>

Replace(held, b) ==
  {x \in held : <<x.stripe, x.shard>> # <<b.stripe, b.shard>>} \cup {b}

(* One sender thread per block of the stripe at hand.  SetToMemcached      *)
(* reports success whether or not the datanode took the block.             *)
SetToMemcached(j, i, s) ==
  LET n == jplace[j][i][s] IN
  /\ tpc[j] = "save"
  /\ <<i, s>> \in jtodo[j]
  /\ \A t \in jtodo[j] : i <= t[1]
  /\ jtodo' = [jtodo EXCEPT ![j] = @ \ {<<i, s>>}]
  /\ mem' = IF up[n]
            THEN [mem EXCEPT ![n] = Replace(@, [stripe |-> jstripes[j][i],
                                                shard |-> s, data |-> jdata[j]])]
            ELSE mem
  /\ UNCHANGED <<clientVars, coordVars, sets, upc, tpc, paramVars, planVars,
                 jdata, readVars, backlog, up>>

(* updating[key] default-constructs an object when the key is not there.   *)
ObjectOf(k) == IF updating[k] = Absent THEN <<>> ELSE updating[k]

CommitNothing(k) == commit
CommitPublished(k) ==
  IF updating[k] = Absent THEN commit ELSE [commit EXCEPT ![k] = updating[k]]
CommitObject(k) == [commit EXCEPT ![k] = ObjectOf(k)]

ReportCommitAbort(j) ==
  /\ coordUp /\ mutexFree
  /\ tpc[j] = "save" /\ jtodo[j] = {}
  /\ tpc' = [tpc EXCEPT ![j] = "done"]
  /\ commit' = CommitObject(jkey[j])
  /\ updating' = [updating EXCEPT ![jkey[j]] = Absent]
  /\ UNCHANGED <<clientVars, coordUp, mutexFree, allocVars, sets, upc, paramVars,
                 planVars, dataVars, readVars, backlog, nodeVars>>

-----------------------------------------------------------------------------
(* Client::get and getValue                                                *)

Get(c, k) ==
  /\ coordUp
  /\ cpc[c] = "idle"
  /\ gets < MaxGets
  /\ GetUnset \/ keyValues[c][k] # None
  /\ gets' = gets + 1
  /\ cpc' = [cpc EXCEPT ![c] = "lookup"]
  /\ ckey' = [ckey EXCEPT ![c] = k]
  /\ cgot' = [cgot EXCEPT ![c] = None]
  /\ reader' = [reader EXCEPT ![c].round = gets + 1]
  /\ UNCHANGED <<cjob, keyValues, coordVars, sets, upc, tpc, paramVars, planVars,
                 dataVars, reads, backlog, nodeVars>>

(* commit.at(key) throws with m_mutex held, and the handler returns OK.    *)
GetValueMiss(c) ==
  /\ coordUp /\ mutexFree
  /\ cpc[c] = "lookup"
  /\ commit[ckey[c]] = Absent
  /\ mutexFree' = FALSE
  /\ cpc' = [cpc EXCEPT ![c] = "wait"]
  /\ UNCHANGED <<cjob, ckey, cgot, keyValues, coordUp, allocVars, tableVars, sets,
                 upc, tpc, paramVars, planVars, dataVars, readVars, backlog,
                 nodeVars>>

(* stripes[0] of an object that has no stripe: the coordinator dies.       *)
GetValueEmpty(c) ==
  /\ coordUp /\ mutexFree
  /\ cpc[c] = "lookup"
  /\ commit[ckey[c]] = <<>>
  /\ coordUp' = FALSE
  /\ cpc' = [cpc EXCEPT ![c] = "wait"]
  /\ UNCHANGED <<cjob, ckey, cgot, keyValues, mutexFree, allocVars, tableVars,
                 sets, upc, tpc, paramVars, planVars, dataVars, readVars, backlog,
                 nodeVars>>

(* With the coordinator gone the RPC fails, and get waits all the same.    *)
GetFails(c) ==
  /\ ~coordUp
  /\ cpc[c] = "lookup"
  /\ cpc' = [cpc EXCEPT ![c] = "wait"]
  /\ UNCHANGED <<cjob, ckey, cgot, keyValues, coordVars, sets, upc, tpc,
                 paramVars, planVars, dataVars, readVars, backlog, nodeVars>>

ShardAsNode(stripe, s) == s
NodeOf(stripe, s) == stripeInfo[stripe][s]

(* One reading thread per block of the object's i-th stripe.               *)
BlockReads(c, obj, i) ==
  {[client |-> c, round |-> reader[c].round, i |-> i, stripe |-> obj[i],
    shard |-> s, node |-> NodeOf(obj[i], s)] : s \in Shards}

GetValueFound(c) ==
  LET obj == commit[ckey[c]] IN
  /\ coordUp /\ mutexFree
  /\ cpc[c] = "lookup"
  /\ obj \notin {Absent, <<>>}
  /\ cpc' = [cpc EXCEPT ![c] = "wait"]
  /\ reader' = [reader EXCEPT ![c] = [pc |-> "read", obj |-> obj, i |-> 1,
                  got |-> {}, acc |-> None, round |-> reader[c].round]]
  /\ reads' = reads \cup BlockReads(c, obj, 1)
  /\ UNCHANGED <<cjob, ckey, cgot, keyValues, coordVars, sets, upc, tpc,
                 paramVars, planVars, dataVars, gets, backlog, nodeVars>>

-----------------------------------------------------------------------------
(* The thread of decodeAndGetObject                                        *)

Held(r) == {b \in mem[r.node] : b.stripe = r.stripe /\ b.shard = r.shard}

(* GetFromMemcached also reports success always: a block from a datanode   *)
(* that is down counts as received, and is all zeros.                      *)
BlockRead(r) ==
  IF up[r.node] /\ Held(r) # {} THEN (CHOOSE b \in Held(r) : TRUE).data ELSE Zero

Merge(acc, x) == IF acc \in {None, x} THEN x ELSE Garbage

(* Does the thread still lack blocks of the stripe it is decoding?          *)
LacksOneLess(rd) == Cardinality(rd.got) < K - 1
Lacks(rd) == Cardinality(rd.got) < K

(* Blocks that arrive after the K-th, or for an earlier stripe, are        *)
(* dropped.  A datanode asked for a block it does not hold exits.          *)
GetFromMemcached(r) ==
  LET rd == reader[r.client]
      counted == /\ rd.pc = "read" /\ rd.round = r.round /\ rd.i = r.i
                 /\ Lacks(rd)
  IN
  /\ r \in reads
  /\ reads' = reads \ {r}
  /\ reader' = IF counted
               THEN [reader EXCEPT ![r.client].got = @ \cup {r.shard},
                                   ![r.client].acc = Merge(@, BlockRead(r))]
               ELSE reader
  /\ up' = [up EXCEPT ![r.node] = @ /\ Held(r) # {}]
  /\ UNCHANGED <<clientVars, coordVars, sets, upc, tpc, paramVars, planVars,
                 dataVars, gets, backlog, mem>>

Decode(c) ==
  LET rd == reader[c] IN
  /\ rd.pc = "read"
  /\ ~ (Cardinality(rd.got) < K)
  /\ IF rd.i < Len(rd.obj)
     THEN /\ reader' = [reader EXCEPT ![c].i = @ + 1, ![c].got = {}]
          /\ reads' = reads \cup BlockReads(c, rd.obj, rd.i + 1)
     ELSE /\ reader' = [reader EXCEPT ![c].pc = "send"]
          /\ reads' = reads
  /\ UNCHANGED <<clientVars, coordVars, sets, upc, tpc, paramVars, planVars,
                 dataVars, gets, backlog, nodeVars>>

(* The thread connects to the client, which is waiting in its acceptor.    *)
Deliver(c) ==
  /\ cpc[c] = "wait"
  /\ reader[c].pc = "send"
  /\ cpc' = [cpc EXCEPT ![c] = "idle"]
  /\ cgot' = [cgot EXCEPT ![c] = reader[c].acc]
  /\ reader' = [reader EXCEPT ![c] = Idle]
  /\ UNCHANGED <<cjob, ckey, keyValues, coordVars, sets, upc, tpc, paramVars,
                 planVars, dataVars, gets, reads, backlog, nodeVars>>

Crash(n) ==
  /\ n \in Crashable
  /\ up[n]
  /\ up' = [up EXCEPT ![n] = FALSE]
  /\ UNCHANGED <<clientVars, coordVars, sets, upc, tpc, paramVars, planVars,
                 dataVars, readVars, backlog, mem>>

(* Every client has returned and every thread has ended: the only state in *)
(* which the system may stop.                                              *)
Finished ==
  /\ \A c \in Clients : cpc[c] = "idle"
  /\ \A j \in Jobs : tpc[j] \in {"none", "done"}
  /\ UNCHANGED vars

-----------------------------------------------------------------------------
ClientStep(c) ==
  \/ Connect(c) \/ CheckCommitAbort(c) \/ SetFails(c) \/ Deliver(c)
UploadStep(j) ==
  \/ UploadErase(j) \/ UploadLoadStripeId(j) \/ UploadStoreStripeId(j)
  \/ (\E a \in AZs : EncodeAndSetObject(j, a)) \/ UploadPublish(j)
ThreadStep(j) ==
  \/ Accept(j) \/ ReportCommitAbort(j)
  \/ \E t \in jtodo[j] : SetToMemcached(j, t[1], t[2])
GetValue(c) ==
  \/ GetValueMiss(c) \/ GetValueEmpty(c) \/ GetValueFound(c) \/ GetFails(c)

Next ==
  \/ \E c \in Clients : \/ ClientStep(c) \/ GetValue(c) \/ Decode(c)
                        \/ \E k \in KeysOf[c] : Get(c, k)
                        \/ \E k \in KeysOf[c], v \in Vals, n \in 1..MaxStripes :
                             Set(c, k, v, n)
  \/ \E j \in Jobs : UploadStep(j) \/ ThreadStep(j)
  \/ \E r \in reads : GetFromMemcached(r)
  \/ \E n \in Nodes : Crash(n)
  \/ Finished

Spec == Init /\ [][Next]_vars

(* Every handler and thread that can run eventually does; a client decides *)
(* freely whether to call set or get again.                                *)
Fairness ==
  /\ \A c \in Clients : /\ WF_vars(ClientStep(c))
                        /\ WF_vars(GetValue(c))
                        /\ WF_vars(Decode(c))
  /\ \A j \in Jobs : WF_vars(UploadStep(j)) /\ WF_vars(ThreadStep(j))
  /\ WF_vars(\E r \in reads : GetFromMemcached(r))

FairSpec == Spec /\ Fairness

-----------------------------------------------------------------------------
ClientPC == {"idle", "upload", "check", "lookup", "wait"}
UploadPC == {"unused", "erase", "load", "store", "rpc", "publish", "replied"}
ThreadPC == {"none", "accept", "save", "done"}
Readers  == [pc : {"none", "read", "send"}, obj : Objects, i : Nat,
             got : SUBSET Shards, acc : Tokens, round : Nat]
Requests == [client : Clients, round : Nat, i : Nat, stripe : Nat,
             shard : Shards, node : Nodes]

ClientTypeOK ==
  /\ cpc \in [Clients -> ClientPC]
  /\ cjob \in [Clients -> 0..MaxSets]
  /\ ckey \in [Clients -> Keys \cup {None}]
  /\ cgot \in [Clients -> Tokens]
  /\ keyValues \in [Clients -> [Keys -> Vals \cup {None}]]

CoordTypeOK ==
  /\ coordUp \in BOOLEAN
  /\ mutexFree \in BOOLEAN
  /\ nextStripe \in Nat
  /\ DOMAIN stripeInfo \subseteq Nat
  /\ \A s \in DOMAIN stripeInfo : stripeInfo[s] \in Placements
  /\ updating \in [Keys -> Objects \cup {Absent}]
  /\ commit \in [Keys -> Objects \cup {Absent}]

JobTypeOK ==
  /\ sets \in 0..MaxSets
  /\ upc \in [Jobs -> UploadPC]
  /\ tpc \in [Jobs -> ThreadPC]
  /\ jkey \in [Jobs -> Keys \cup {None}]
  /\ jval \in [Jobs -> Vals \cup {None}]
  /\ jsize \in [Jobs -> 0..MaxStripes]

PlanTypeOK ==
  /\ jstripes \in [Jobs -> Objects]
  /\ jplace \in [Jobs -> Seq(Placements)]
  /\ jreg \in [Jobs -> Nat]
  /\ jproxy \in [Jobs -> AZs \cup {None}]

DataTypeOK ==
  /\ jdata \in [Jobs -> Content \cup {None}]
  /\ jtodo \in [Jobs -> SUBSET (Nat \X Shards)]

ReadTypeOK ==
  /\ gets \in 0..MaxGets
  /\ reader \in [Clients -> Readers]
  /\ reads \subseteq Requests

NodeTypeOK ==
  /\ backlog \in [AZs -> Seq([key : Keys, val : Vals])]
  /\ up \in [Nodes -> BOOLEAN]
  /\ mem \in [Nodes -> SUBSET Block]

(* The type of every variable.                                             *)
TypeOK ==
  /\ ClientTypeOK
  /\ CoordTypeOK
  /\ JobTypeOK
  /\ PlanTypeOK
  /\ DataTypeOK
  /\ ReadTypeOK
  /\ NodeTypeOK

-----------------------------------------------------------------------------
(* What run_client tests after a get: the value the client last set for    *)
(* the key comes back.                                                     *)
ReadBack ==
  \A c \in Clients : cgot[c] # None => cgot[c] = keyValues[c][ckey[c]]

(* Every block of every committed object is on its datanode, unless that   *)
(* datanode is down: the metadata is never committed before the data it    *)
(* describes is stored, whatever connection the thread accepted.           *)
Stored(s, sh, n) == \E b \in mem[n] : b.stripe = s /\ b.shard = sh

CommittedIsStored ==
  \A k \in Keys : commit[k] # Absent =>
    \A i \in 1..Len(commit[k]), sh \in Shards :
      LET n == stripeInfo[commit[k][i]][sh] IN
      up[n] => Stored(commit[k][i], sh, n)

(* When an object is committed all of its blocks are on their datanodes.   *)
Whole(obj) ==
  \A i \in 1..Len(obj), sh \in Shards :
    Stored(obj[i], sh, stripeInfo[obj[i]][sh])

CommittedWhole ==
  [][\A k \in Keys :
       commit'[k] \notin {Absent, commit[k]} => Whole(commit[k])']_vars

(* The commit a waiting client finds is the commit of its own set, not one *)
(* left by an earlier set or made by another client's thread.              *)
CommitIsOwn ==
  \A c \in Clients :
    cpc[c] = "check" /\ commit[jkey[cjob[c]]] # Absent => tpc[cjob[c]] = "done"

(* At each proxy the threads waiting in accept are as many as the clients  *)
(* that have connected or still will: no connection is left unaccepted and *)
(* no thread waits for ever, although threads take each other's clients.   *)
AcceptBalance ==
  coordUp => \A a \in AZs :
    Cardinality({j \in Jobs : tpc[j] = "accept" /\ jproxy[j] = a}) =
      Len(backlog[a]) +
      Cardinality({c \in Clients : /\ cpc[c] = "upload"
                                   /\ upc[cjob[c]] \in {"publish", "replied"}
                                   /\ jproxy[cjob[c]] = a})

(* A call of Client::set returns.                                          *)
SetReturns ==
  \A c \in Clients : cpc[c] \in {"upload", "check"} ~> cpc[c] = "idle"

(* A call of Client::get returns.                                          *)
GetReturns ==
  \A c \in Clients : cpc[c] \in {"lookup", "wait"} ~> cpc[c] = "idle"

-----------------------------------------------------------------------------
(* The table of values that the committed metadata and the blocks on the   *)
(* datanodes amount to.                                                    *)
Holds(obj, v) ==
  \A i \in 1..Len(obj), sh \in Shards :
    \E b \in mem[stripeInfo[obj[i]][sh]] :
      b = [stripe |-> obj[i], shard |-> sh, data |-> v]

ValueOf(obj) ==
  IF \E v \in Vals : Holds(obj, v) THEN CHOOSE v \in Vals : Holds(obj, v)
                                   ELSE Garbage

Phase(j) == CASE upc[j] = "erase" -> "called"
              [] upc[j] # "erase" /\ tpc[j] # "done" -> "forgotten"
              [] OTHER -> "stored"

StoredValues ==
  [k \in Keys |-> IF commit[k] = Absent THEN None ELSE ValueOf(commit[k])]

CallOf(c) ==
  CASE cpc[c] = "idle" -> [op |-> "none"]
    [] cpc[c] \in {"upload", "check"} ->
         [op |-> "set", key |-> jkey[cjob[c]], val |-> jval[cjob[c]],
          phase |-> Phase(cjob[c])]
    [] OTHER -> [op |-> "get", key |-> ckey[c]]

Calls == [c \in Clients |-> CallOf(c)]

Promise == INSTANCE ObjectStore WITH
  db <- StoredValues, call <- Calls, result <- cgot

(* Set and get keep the promise of ObjectStore: the steps of coordinator,  *)
(* proxy and datanodes are, to the client, one table of values.            *)
KeepsPromise == Promise!Spec
=============================================================================
