---------------------------- MODULE BigObjectsInv ----------------------------
(***************************************************************************)
(* The inductive invariants behind TypeOK, CommittedIsStored and           *)
(* CommitIsOwn of BigObjects. TLC checks them on the small instances;      *)
(* BigObjects_proofs proves them for every instance.                       *)
(***************************************************************************)
EXTENDS BigObjects

InSet == {"upload", "check"}    \* where a client is inside Client::set
InGet == {"lookup", "wait"}     \* where it is inside Client::get

(* The jobs up to sets are used and name a key and a value; the thread     *)
(* exists from the RPC on; the plan has one placement per stripe.          *)
JobShape ==
  \A j \in Jobs :
    /\ upc[j] = "unused" <=> j > sets
    /\ upc[j] # "unused" => jkey[j] \in Keys /\ jval[j] \in Vals
    /\ upc[j] \in {"publish", "replied"} <=> tpc[j] # "none"
    /\ tpc[j] # "none" => jproxy[j] \in AZs
    /\ Len(jplace[j]) = Len(jstripes[j])

(* A client in a set waits for a used job, one in a get for a key.         *)
ClientShape ==
  \A c \in Clients :
    /\ cpc[c] \in InSet => cjob[c] \in 1..sets
    /\ cpc[c] = "check" => upc[cjob[c]] = "replied"
    /\ cpc[c] \in InGet => ckey[c] \in Keys

(* A saving thread holds a codeword and owes only blocks of its stripes.   *)
SaveShape ==
  \A j \in Jobs :
    /\ tpc[j] \in {"save", "done"} => jdata[j] \in Content
    /\ jtodo[j] \subseteq (1..Len(jstripes[j])) \X Shards
    /\ tpc[j] # "save" => jtodo[j] = {}

Known(obj) == \A i \in 1..Len(obj) : obj[i] \in DOMAIN stripeInfo

(* m_Stripe_info describes every stripe anything refers to.                *)
KnownStripes ==
  /\ \A j \in Jobs : Known(jstripes[j])
  /\ \A k \in Keys : /\ commit[k] # Absent => Known(commit[k])
                     /\ updating[k] # Absent => Known(updating[k])
  /\ \A c \in Clients : Known(reader[c].obj)

ShapeInv ==
  /\ TypeOK
  /\ JobShape
  /\ ClientShape
  /\ SaveShape
  /\ KnownStripes

-----------------------------------------------------------------------------
DisjointKeys ==
  \A c, d \in Clients : c # d => KeysOf[c] \cap KeysOf[d] = {}

(* Only one handler is between the load and the store of the counter, and  *)
(* what it loaded is current; stripe ids below the counter keep the        *)
(* placement the job sent to its proxy.                                    *)
AllocInv ==
  /\ \A i, j \in Jobs : upc[i] = "store" /\ upc[j] = "store" => i = j
  /\ \A j \in Jobs : upc[j] = "store" => jreg[j] = nextStripe
  /\ \A j \in Jobs : \A i \in 1..Len(jstripes[j]) :
       /\ jstripes[j][i] < nextStripe
       /\ stripeInfo[jstripes[j][i]] = jplace[j][i]

(* No two jobs share a stripe.                                             *)
OwnInv ==
  \A i, j \in Jobs : i # j =>
    \A x \in 1..Len(jstripes[i]), y \in 1..Len(jstripes[j]) :
      jstripes[i][x] # jstripes[j][y]

(* What a thread no longer owes is stored wherever the datanode is up.     *)
SaveInv ==
  \A j \in Jobs : tpc[j] \in {"save", "done"} =>
    \A i \in 1..Len(jstripes[j]), s \in Shards :
      <<i, s>> \notin jtodo[j] /\ up[jplace[j][i][s]] =>
        Stored(jstripes[j][i], s, jplace[j][i][s])

Unfinished(j) ==
  /\ upc[j] # "unused"
  /\ upc[j] # "replied" \/ tpc[j] # "done"

(* While the coordinator is up, every unfinished job is the current set of *)
(* a client.  A client sets only its own keys, and once its job has erased *)
(* the key's commit, the next commit of the key is the job's.              *)
Owned(j) == \E c \in Clients : cpc[c] \in InSet /\ cjob[c] = j

OwnerInv ==
  /\ coordUp => \A j \in Jobs : Unfinished(j) => Owned(j)
  /\ \A c \in Clients : cpc[c] \in InSet =>
       /\ jkey[cjob[c]] \in KeysOf[c]
       /\ upc[cjob[c]] # "erase" /\ commit[jkey[cjob[c]]] # Absent
            => tpc[cjob[c]] = "done"

(* A table entry is a default object or the plan of a job for its key; one *)
(* in the commit table is of a job whose thread has saved everything.      *)
TableInv ==
  \A k \in Keys :
    /\ commit[k] \in {Absent, <<>>} \/ \E j \in Jobs :
         jkey[j] = k /\ tpc[j] = "done" /\ commit[k] = jstripes[j]
    /\ updating[k] = Absent \/ \E j \in Jobs :
         jkey[j] = k /\ upc[j] = "replied" /\ updating[k] = jstripes[j]

SafeInv ==
  /\ ShapeInv
  /\ AllocInv
  /\ OwnInv
  /\ SaveInv
  /\ OwnerInv
  /\ TableInv
-----------------------------------------------------------------------------
(* Behind AcceptBalance: the threads in accept at a proxy, and the clients *)
(* whose set is on its way there.                                          *)
Accepting(a) == {j \in Jobs : tpc[j] = "accept" /\ jproxy[j] = a}
Coming(a) == {c \in Clients : /\ cpc[c] = "upload"
                             /\ upc[cjob[c]] \in {"publish", "replied"}
                             /\ jproxy[cjob[c]] = a}

(* No two clients wait for the upload of one job, and while the            *)
(* coordinator is up a client waits for every upload that has not replied. *)
UploadInv ==
  /\ \A c, d \in Clients :
       cpc[c] = "upload" /\ cpc[d] = "upload" /\ cjob[c] = cjob[d] => c = d
  /\ coordUp => \A j \in Jobs : upc[j] \in {"erase", "load", "store", "rpc"} =>
       \E c \in Clients : cpc[c] = "upload" /\ cjob[c] = j

BalanceInv ==
  /\ ShapeInv
  /\ UploadInv
  /\ AcceptBalance
-----------------------------------------------------------------------------
(* Behind the datanodes' survival: a get reads blocks of objects whose     *)
(* threads have saved everything, and reads each from the datanode it was  *)
(* sent to.                                                                *)
ReadInv ==
  /\ \A c \in Clients : reader[c].pc # "none" =>
       \E j \in Jobs : tpc[j] = "done" /\ reader[c].obj = jstripes[j]
  /\ \A r \in reads : \E j \in Jobs : tpc[j] = "done" /\
       \E i \in 1..Len(jstripes[j]) :
         r.stripe = jstripes[j][i] /\ r.node = jplace[j][i][r.shard]

(* A datanode that is asked only for blocks it holds goes on running: it   *)
(* stops only when it crashes.                                             *)
OnlyCrashes == [][\A n \in Nodes : up[n] /\ ~up'[n] => Crash(n)]_vars

-----------------------------------------------------------------------------
(* With one client and no crash the parts agree on everything.             *)
OneClient == \A c, d \in Clients : c = d

(* Nothing ever stops.                                                     *)
Running == coordUp /\ mutexFree /\ \A n \in Nodes : up[n]

(* A client's set is under way for key k and has erased it.                *)
Resetting(c, k) ==
  cpc[c] \in InSet /\ jkey[cjob[c]] = k /\ upc[cjob[c]] # "erase"

(* The value key k has for client c.                                       *)
Current(c, k) ==
  IF commit[k] = Absent THEN None
  ELSE IF Resetting(c, k) THEN jval[cjob[c]] ELSE keyValues[c][k]

(* An upload that is past its plan has planned at least one stripe.        *)
PlanMade ==
  \A j \in Jobs : upc[j] \in {"rpc", "publish", "replied"} => jstripes[j] # <<>>

(* A thread has a value only after its object is published, and it is the  *)
(* value of its own client's set.                                          *)
OwnData ==
  \A j \in Jobs : tpc[j] \in {"save", "done"} =>
    upc[j] = "replied" /\ jdata[j] = jval[j]

Published ==
  \A j \in Jobs : upc[j] = "replied" /\ tpc[j] # "done" =>
    updating[jkey[j]] = jstripes[j]

(* A connection not yet accepted is that of a client waiting in check.     *)
OwnConnection ==
  \A a \in AZs : \A x \in 1..Len(backlog[a]) :
    \E c \in Clients : /\ cpc[c] = "check"
                       /\ backlog[a][x] = [key |-> jkey[cjob[c]], val |-> jval[cjob[c]]]

CourseInv == PlanMade /\ OwnData /\ Published /\ OwnConnection

(* A datanode holds a block once.                                          *)
BlocksOnce ==
  \A n \in Nodes : \A b, d \in mem[n] :
    b.stripe = d.stripe /\ b.shard = d.shard => b = d

(* What a thread no longer owes is stored, with the value of its set.      *)
DataSaved ==
  \A j \in Jobs : tpc[j] \in {"save", "done"} =>
    \A i \in 1..Len(jstripes[j]), s \in Shards :
      <<i, s>> \notin jtodo[j] =>
        [stripe |-> jstripes[j][i], shard |-> s, data |-> jval[j]]
          \in mem[jplace[j][i][s]]

DataInv == BlocksOnce /\ DataSaved

(* The commit table holds, for every key, an object of the key's value.    *)
ValueInv ==
  \A c \in Clients, k \in Keys :
    /\ commit[k] # Absent => \E j \in Jobs :
         /\ tpc[j] = "done" /\ jkey[j] = k
         /\ commit[k] = jstripes[j] /\ jval[j] = Current(c, k)
    /\ ~ Resetting(c, k) /\ keyValues[c][k] # None => commit[k] # Absent

(* A get under way is of a key that has a value, and the value it returns  *)
(* is the one decoded from the blocks received so far.                     *)
GetInv ==
  \A c \in Clients :
    /\ cpc[c] # "idle" => cgot[c] = None
    /\ cgot[c] # None => cgot[c] = keyValues[c][ckey[c]]
    /\ cpc[c] \in InGet => keyValues[c][ckey[c]] # None
    /\ reader[c].pc # "none" =>
         /\ cpc[c] = "wait"
         /\ reader[c].obj = commit[ckey[c]]
         /\ reader[c].acc \in {None, keyValues[c][ckey[c]]}
         /\ reader[c].got # {} \/ reader[c].i > 1 \/ reader[c].pc = "send" =>
              reader[c].acc = keyValues[c][ckey[c]]

(* A block read in answer to the get under way is a block of its object.   *)
RoundInv ==
  /\ \A c \in Clients :
       /\ reader[c].round <= gets
       /\ cpc[c] = "lookup" \/ reader[c].pc # "none" => reader[c].round > 0
  /\ \A r \in reads :
       /\ r.round \in 1..gets
       /\ r.round = reader[r.client].round =>
            /\ reader[r.client].pc # "none"
            /\ r.i \in 1..Len(reader[r.client].obj)
            /\ r.stripe = reader[r.client].obj[r.i]
            /\ r.node = stripeInfo[r.stripe][r.shard]

OneInv ==
  /\ SafeInv /\ BalanceInv /\ ReadInv
  /\ Running /\ CourseInv /\ DataInv /\ ValueInv /\ GetInv /\ RoundInv
=============================================================================
