--------------------------- MODULE SmallObjectsInv ---------------------------
(***************************************************************************)
(* The inductive invariants behind the properties of SmallObjects: first   *)
(* those of any number of clients, then those of one client with its       *)
(* semaphores at zero.  SmallObjects_proofs and SmallSingle_proofs prove   *)
(* them for every instance.                                                *)
(***************************************************************************)
EXTENDS SmallObjects

Recorded(j) == job[j].upc \in {"publish", "replied"}

IsJob(b) ==
  /\ {"key", "val", "upc", "tpc", "idx", "obj", "proxy", "reply"} \subseteq DOMAIN b
  /\ b.idx \in Buffers
  /\ b.upc # "unused" => b.key \in Keys /\ b.val \in Vals

JobShape ==
  /\ sets \in Nat
  /\ DOMAIN job = Jobs
  /\ \A j \in Jobs : IsJob(job[j])
  /\ \A j \in Jobs : j > sets => job[j].upc = "unused"

CountShape ==
  /\ curStripe \in Nat /\ nextStripe \in Nat
  /\ curStripe < nextStripe
  /\ bufRest \in [Buffers -> 0..ShardSize]

(* One handler at a time chooses a buffer and takes room in it, and the    *)
(* buffer it has chosen has the room until it is taken.                    *)
OnePlacing ==
  \A i, j \in Jobs : job[i].upc \in Placing /\ job[j].upc \in Placing => i = j

RoomKept ==
  \A j \in Jobs : job[j].upc \in {"write", "record"} =>
                    Size[job[j].val] <= bufRest[job[j].idx]

(* What has been given out of a buffer is before what is left of it.       *)
IsSlot(obj) ==
  /\ obj.stripe \in 0..curStripe
  /\ obj.idx \in Buffers
  /\ obj.off \in Nat /\ obj.size \in Nat
  /\ obj.off + obj.size <= ShardSize
  /\ obj.stripe = curStripe => obj.off + obj.size <= ShardSize - bufRest[obj.idx]

Apart(x, y) ==
  x.stripe = y.stripe /\ x.idx = y.idx
    => x.off + x.size <= y.off \/ y.off + y.size <= x.off

SlotInv ==
  /\ \A j \in Jobs : Recorded(j) => IsSlot(job[j].obj)
  /\ \A i, j \in Jobs : i # j /\ Recorded(i) /\ Recorded(j)
                          => Apart(job[i].obj, job[j].obj)

(* An object table has for a key what some set of the key was given.       *)
IsEntry(k, obj) ==
  \/ obj \in {Absent, NoObject}
  \/ \E j \in Jobs : Recorded(j) /\ job[j].key = k /\ obj = job[j].obj

TableInv ==
  /\ DOMAIN commit = Keys /\ DOMAIN updating = Keys
  /\ \A k \in Keys : IsEntry(k, commit[k]) /\ IsEntry(k, updating[k])

Inv ==
  /\ JobShape
  /\ CountShape
  /\ OnePlacing
  /\ RoomKept
  /\ SlotInv
  /\ TableInv
-----------------------------------------------------------------------------
(* One client                                                              *)

client == CHOOSE c \in Clients : TRUE
OneClient == Clients = {client}

(* The set under way, the last one: where its handler stands (At) and the  *)
(* thread that takes its value (Thread).                                   *)
Busy == cpc[client] \in {"upload", "check"}
Cur == job[sets]
At == IF Busy THEN Cur.upc ELSE "idle"
Thread == IF Busy THEN Cur.tpc ELSE "done"

Before == {"erase", "choose", "roll", "wait", "renew", "write"}
HasObject == {"publish", "replied"}

HasFields(b) ==
  {"key", "val", "upc", "tpc", "idx", "obj", "proxy", "reply"} \subseteq DOMAIN b
IsEnc(e) == {"pc", "stripe", "proxy", "data", "todo"} \subseteq DOMAIN e

Shape ==
  /\ sets \in 0..MaxSets
  /\ DOMAIN cpc = Clients /\ DOMAIN cjob = Clients
  /\ DOMAIN job = Jobs /\ \A j \in Jobs : HasFields(job[j])
  /\ DOMAIN enc = Jobs /\ \A j \in Jobs : IsEnc(enc[j])
  /\ curProxy \in AZs
  /\ DOMAIN backlog = AZs /\ sem \in [AZs -> Nat]
  /\ bufOffset \in [AZs -> [Buffers -> Int]]
  /\ bufRest \in [Buffers -> Int]
  /\ DOMAIN commit = Keys /\ DOMAIN updating = Keys

(* Every set but the one under way has ended.                              *)
OneAtATime ==
  /\ \A j \in Jobs : j > sets => job[j].upc = "unused" /\ job[j].tpc = "none"
  /\ \A j \in Jobs : j < sets \/ (j = sets /\ ~Busy)
                       => job[j].upc = "replied" /\ job[j].tpc = "done"
  /\ Busy => sets \in Jobs /\ cjob[client] = sets
             /\ Cur.key \in Keys /\ Cur.val \in Vals

(* How far its handler, its thread and the client are with each other.     *)
Course ==
  Busy => /\ At \in Before \cup {"record"} \cup HasObject
          /\ Thread \in {"none", "accept", "report", "done"}
          /\ Thread = "none" <=> At \in Before
          /\ cpc[client] = "check" => At = "replied"
          /\ cpc[client] = "upload" => Thread \in {"none", "accept"}
          /\ At \in {"record"} \cup HasObject => Cur.proxy = curProxy
          /\ At \in HasObject => Cur.reply = curProxy /\ Cur.obj.stripe = curStripe

(* A connection is there for the thread from when the client connects      *)
(* until the thread takes it, and no other.                                *)
Connections ==
  \A a \in AZs :
    backlog[a] = IF Busy /\ cpc[client] = "check" /\ Thread = "accept" /\ a = curProxy
                 THEN <<[key |-> Cur.key, val |-> Cur.val]>> ELSE <<>>

(* The handler that rolls the buffers is woken by the copy of its own roll.*)
Posts ==
  /\ \A j \in Jobs : enc[j].pc = "copy" => At = "wait" /\ j = sets
  /\ At = "wait" => enc[sets].proxy = curProxy
  /\ \A a \in AZs : sem[a] = IF At = "wait" /\ enc[sets].pc # "copy" /\ a = curProxy
                             THEN 1 ELSE 0

(* What the coordinator has given out of a buffer is what the proxy has    *)
(* put into it, and what its thread has yet to put; the buffers of other   *)
(* proxies are empty.                                                      *)
Owed(i) == IF Thread = "accept" /\ At \in HasObject /\ i = Cur.idx
           THEN Size[Cur.val] ELSE 0

Offsets ==
  /\ \A a \in AZs, i \in Buffers : a # curProxy => bufOffset[a][i] = 0
  /\ \A i \in Buffers :
       bufOffset[curProxy][i] = IF At = "renew" THEN 0
                                ELSE ShardSize - bufRest[i] - Owed(i)

(* Only the set under way is in the updating table, and what is committed  *)
(* and was put into the current buffers is of the current stripe.          *)
Tables ==
  /\ \A k \in Keys : updating[k] # Absent =>
       k = Cur.key /\ At = "replied" /\ Thread # "done" /\ updating[k] = Cur.obj
  /\ Busy /\ At # "erase" /\ Thread # "done" => commit[Cur.key] = Absent
  /\ \A k \in keyInBuffer \cap Keys :
       commit[k] \in {Absent, NoObject} \/ commit[k].stripe = curStripe

SingleInv ==
  /\ Shape
  /\ OneAtATime
  /\ Course
  /\ Connections
  /\ Posts
  /\ Offsets
  /\ Tables
-----------------------------------------------------------------------------
(* The bytes: with one client whose values are read whole                  *)

(* The thread of job j has put its value into the buffer.                  *)
Written(j) == job[j].tpc \in {"report", "done"}

(* The object of job j is as the handler has recorded it.                  *)
Planned ==
  \A j \in Jobs : Recorded(j) =>
    /\ job[j].obj.idx = job[j].idx
    /\ job[j].obj.size = Size[job[j].val]
    /\ ~ Written(j) =>
         job[j].obj.off = ShardSize - bufRest[job[j].idx] - Size[job[j].val]

(* Each stripe before the current one has been rolled once.                *)
Rolling == At \in {"wait", "renew"}

Rolls ==
  /\ \A i \in Jobs : enc[i].pc # "none" =>
       /\ i <= sets
       /\ enc[i].stripe \in DOMAIN stripeInfo
       /\ enc[i].stripe < curStripe
            \/ (enc[i].stripe = curStripe /\ i = sets /\ Rolling)
  /\ \A i, j \in Jobs : i # j /\ enc[i].pc # "none" /\ enc[j].pc # "none"
                          => enc[i].stripe # enc[j].stripe
  /\ \A i \in Jobs : enc[i].pc # "save" => enc[i].todo = {}
  /\ At \in {"erase", "choose", "roll"} => enc[sets].pc = "none"
  /\ Rolling => enc[sets].pc # "none" /\ enc[sets].stripe = curStripe

(* The blocks on the datanodes are those the threads have saved.           *)
Saved ==
  /\ \A n \in Nodes : \A b \in disk[n] : \E i \in Jobs :
       /\ enc[i].pc = "save"
       /\ b.stripe = enc[i].stripe /\ b.idx \in Buffers \ enc[i].todo
       /\ b.data = enc[i].data[b.idx]
  /\ \A i \in Jobs : enc[i].pc = "save" =>
       \A x \in Buffers \ enc[i].todo :
         LET n == stripeInfo[enc[i].stripe][x] IN
         up[n] => [stripe |-> enc[i].stripe, idx |-> x, data |-> enc[i].data[x]]
                    \in disk[n]

Fits(shard, obj, v) ==
  \A x \in 1..Size[v] : shard[obj.off + x - 1] = <<v, x>>

(* A written value is in the buffer until the buffers are emptied, and in  *)
(* every copy that is made of them.                                        *)
Whereabouts ==
  \A j \in Jobs : Written(j) =>
    LET obj == job[j].obj IN
    /\ obj.stripe = curStripe /\ At # "renew" =>
         Fits(proxyBuf[curProxy][obj.idx], obj, job[j].val)
    /\ \A i \in Jobs : enc[i].pc = "save" /\ enc[i].stripe = obj.stripe =>
         Fits(enc[i].data[obj.idx], obj, job[j].val)
    /\ obj.stripe # curStripe \/ At = "renew" =>
         \E i \in Jobs : enc[i].pc = "save" /\ enc[i].stripe = obj.stripe

Emptied == At = "renew" => proxyBuf[curProxy] = EmptyBuffers

(* What a key is committed as is what the last set of it was given.        *)
Resetting(k) == Busy /\ Cur.key = k /\ At # "erase"
Current(k) == IF Resetting(k) THEN Cur.val ELSE keyValues[client][k]
Latest(j) ==
  \A i \in Jobs : job[i].key = job[j].key /\ job[i].upc \notin {"unused", "erase"}
                    => i <= j

Entry(k) ==
  /\ commit[k] # Absent => \E j \in Jobs :
       /\ Recorded(j) /\ job[j].tpc = "done" /\ Latest(j)
       /\ job[j].key = k /\ job[j].val = Current(k)
       /\ commit[k] = job[j].obj
  /\ keyValues[client][k] # None /\ ~ Resetting(k) => commit[k] # Absent

Entries ==
  /\ At = "replied" /\ Thread # "done" => updating[Cur.key] = Cur.obj
  /\ \A k \in Keys : Entry(k)

InGet == {"lookup", "route", "buffer", "node"}
Asked == cpc[client] \in InGet => ckey[client] \in Keys

DataInv ==
  /\ TypeOK /\ Asked
  /\ Inv /\ SingleInv
  /\ Planned
  /\ Rolls
  /\ Saved
  /\ Whereabouts /\ Emptied
  /\ Entries
-----------------------------------------------------------------------------
(* Gets                                                                    *)

(* A key committed in the current stripe is read from the buffers.         *)
Buffered ==
  /\ At \in {"record"} \cup HasObject => Cur.key \in keyInBuffer
  /\ \A k \in Keys : commit[k] # Absent /\ commit[k].stripe = curStripe
                       => k \in keyInBuffer

(* What the client has got is its value, or nothing from a dead datanode.  *)
Answered ==
  \/ cgot[client] = keyValues[client][ckey[client]]
  \/ cgot[client] = Garbage /\ BlockDown(ckey[client])

Reading ==
  /\ cpc[client] # "stuck"
  /\ cpc[client] # "idle" => cgot[client] = None
  /\ cgot[client] # None => Answered
  /\ cpc[client] \in InGet =>
       /\ ckey[client] \in Keys
       /\ keyValues[client][ckey[client]] # None
  /\ cpc[client] \in InGet \ {"lookup"} => cobj[client] = commit[ckey[client]]
  /\ cpc[client] = "buffer" =>
       csource[client] = curProxy /\ cobj[client].stripe = curStripe
  /\ cpc[client] = "node" =>
       /\ cobj[client].stripe \in DOMAIN stripeInfo \ {curStripe}
       /\ csource[client] = stripeInfo[cobj[client].stripe][cobj[client].idx]

GetInv ==
  /\ DataInv
  /\ Buffered
  /\ coordUp
  /\ Reading
=============================================================================
