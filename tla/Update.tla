------------------------------- MODULE Update -------------------------------
(***************************************************************************)
(* Client::update and updateGetLocation: the coordinator splits an update  *)
(* of an object into ranges of data blocks, tells the client which proxy   *)
(* takes which range, and makes out the notices for the proxies.  The code *)
(* ends there: no notice is sent and no new data.                          *)
(*                                                                         *)
(* Handlers of several updates run at once.  Sets of the keys updated do   *)
(* not: the tables of objects and stripes stay as they are.                *)
(***************************************************************************)
EXTENDS StripeCode, Ordered, Sequences, FiniteSetsExt

CONSTANTS
  Sites,        \* [sch, azs, at, shard, objects, calls]: the scheme; for each
                \* stripe its list of nodes and the size of its blocks; the
                \* objects, [key -> [big, stripes, block, offset, size]]; and
                \* a bound: the calls made in it
  MaxUpdates,   \* bound: the calls in any deployment
  Excess,       \* bound: how far past the end of its object an update goes
  OutOfRange    \* what reading a list of a message past its end may do

NoKey == "no key"

ASSUME BoundAssumption ==
  /\ MaxUpdates \in Nat /\ Excess \in Nat
  /\ OutOfRange # {} /\ OutOfRange \subseteq {"ignored", "thrown"}

VARIABLES
  site,     \* the deployment and what has been stored in it
  up,       \* the coordinator runs
  azTable,  \* the keys of m_AZ_info
  nextId,   \* m_next_update_opration_id
  upd       \* the calls of Client::update, each with its handler

vars == <<site, up, azTable, nextId, upd>>

Sch == site.sch
AzIds == 0..(site.azs - 1)
Updates == 1..MaxUpdates

NoReply == [azs |-> <<>>, ranges |-> <<>>, id |-> 0]
NoNotices == [data |-> <<>>, collector |-> -1, parities |-> {}]
Unused == [pc |-> "none", key |-> NoKey, offset |-> 0, length |-> 0,
           request |-> [key |-> NoKey, offset |-> 0, length |-> 0],
           split |-> <<>>, ranges |-> <<>>, reply |-> NoReply, notices |-> NoNotices,
           asked |-> 0, next |-> 0, slices |-> {}]

Init ==
  /\ site \in Sites
  /\ up = TRUE
  /\ azTable = AzIds
  /\ nextId = 0
  /\ upd = [u \in Updates |-> Unused]

At(u, pc) == upd[u].pc = pc

-----------------------------------------------------------------------------
(* split_update_length                                                     *)

Range0(s, x, offset, length) ==
  [stripe |-> s, block |-> x, offset |-> offset, length |-> length]

(* The sum of the first n numbers of a list.                               *)
SumUpTo(list, n) ==
  LET sum[m \in Nat] == IF m = 0 THEN 0 ELSE sum[m - 1] + list[m] IN sum[n]

(* The bytes of a stripe that are data, and those before the i-th stripe   *)
(* of an object.                                                           *)
DataSize(st, s) == st.sch.k * st.shard[s]
BytesBefore(st, obj, i) ==
  SumUpTo([j \in DOMAIN obj.stripes |-> DataSize(st, obj.stripes[j])], i - 1)

(* The stripe an update begins in.  An offset that is the end of a stripe  *)
(* is still in it, with k as the number of its block.                      *)
Skipped(st, obj, offset, i) == offset > BytesBefore(st, obj, i + 1)
StartOf(st, obj, offset) ==
  Min({i \in 1..Len(obj.stripes) : ~Skipped(st, obj, offset, i)} \cup {Len(obj.stripes)})

(* The data blocks of an object in the order of its bytes, from 0 on; and  *)
(* those after the one the update begins in: the rest of its stripe, then  *)
(* the stripes after it.                                                   *)
BlockOf(st, obj, n) ==
  [s |-> obj.stripes[n \div st.sch.k + 1], x |-> n % st.sch.k]
FirstFollowing(st, i, x) == (i - 1) * st.sch.k + Min({x + 1, st.sch.k})
Following(st, obj, i, x) ==
  LET from == FirstFollowing(st, i, x)
  IN [n \in 1..(Len(obj.stripes) * st.sch.k - from) |-> BlockOf(st, obj, from + n - 1)]

SizesOf(st, blocks) == [n \in DOMAIN blocks |-> st.shard[blocks[n].s]]

(* A range takes the rest of its block, or what is left of the update.     *)
WholeBlock(room, left) == room
Taken(room, left) == Min({room, left})

OneMore(left) == left >= 0
Needed(left) == left > 0

SplitBig(st, obj, offset, length) ==
  LET i == StartOf(st, obj, offset)
      s == obj.stripes[i]
      x == (offset - BytesBefore(st, obj, i)) \div st.shard[s]
      o == (offset - BytesBefore(st, obj, i)) % st.shard[s]
      first == Taken(st.shard[s] - o, length)
      next == Following(st, obj, i, x)
      sizes == SizesOf(st, next)
      left(n) == length - first - SumUpTo(sizes, n - 1)
      used == {n \in DOMAIN next : Needed(left(n))}
  IN <<Range0(s, x, o, first)>>
     \o [n \in 1..Cardinality(used) |->
           Range0(next[n].s, next[n].x, 0, Taken(sizes[n], left(n)))]

(* A small object is a part of one block.                                  *)
SplitSmall(obj, offset, length) ==
  <<Range0(obj.stripes[1], obj.block, obj.offset + offset, length)>>

SplitOf(st, obj, offset, length) ==
  IF obj.big THEN SplitBig(st, obj, offset, length) ELSE SplitSmall(obj, offset, length)

(* What a set leaves: the data of a big object fit in the stripes it was   *)
(* given, a small one lies in a data block of its stripe.                  *)
IsObject(st, obj) ==
  /\ obj.big \in BOOLEAN /\ obj.size \in Nat
  /\ obj.stripes \in Seq(DOMAIN st.at) \ {<<>>}
  /\ \A i, j \in DOMAIN obj.stripes : obj.stripes[i] = obj.stripes[j] => i = j
  /\ obj.big => obj.size <= BytesBefore(st, obj, Len(obj.stripes) + 1)
  /\ ~obj.big => /\ obj.block \in 0..(st.sch.k - 1) /\ obj.offset \in Nat
                 /\ obj.offset + obj.size <= st.shard[obj.stripes[1]]

ASSUME SitesAssumption ==
  \A s \in Sites :
    /\ IsScheme(s.sch)
    /\ s.azs \in Nat \ {0} /\ s.calls \in 0..MaxUpdates
    /\ s.at \in Seq([Blocks(s.sch) -> (0..(s.azs - 1)) \X Nat])
    /\ s.shard \in [DOMAIN s.at -> Nat \ {0}]
    /\ NoKey \notin DOMAIN s.objects
    /\ \A key \in DOMAIN s.objects : IsObject(s, s.objects[key])

-----------------------------------------------------------------------------
(* updateGetLocation                                                       *)

(* Only the stripe with the lowest id is gone on with.                     *)
FirstStripe(split) == Min({split[i].stripe : i \in DOMAIN split})
InFirst(split) == Pick(split, {i \in DOMAIN split : split[i].stripe = FirstStripe(split)})

(* The map of the ranges by AZ.                                            *)
AzOf(st, r) == st.at[r.stripe][r.block][1]
AzsOf(st, ranges) == Ascending({AzOf(st, ranges[i]) : i \in DOMAIN ranges})
PlacesOf(st, ranges, a) == {i \in DOMAIN ranges : AzOf(st, ranges[i]) = a}
OfAz(st, ranges, a) == Pick(ranges, PlacesOf(st, ranges, a))

ParitiesIn(st, s, xs, a) == {x \in xs : st.at[s][x][1] = a}

(* The local parities a notice may name: without the last block of         *)
(* Azure_LRC_1, and none of RS.                                            *)
Locals(sch) == IF sch.code = "RS" THEN {} ELSE {LocalOf(sch, i) : i \in 0..(sch.l - 1)}

GlobalAzs(st, s) == {st.at[s][x][1] : x \in Globals(st.sch)}
GlobalsIn(st, s, a) == Cardinality(ParitiesIn(st, s, Globals(st.sch), a))

(* Azure_LRC_1 collects where most global parities are, the first such AZ. *)
MostUpdated(st, s, ranges) ==
  Min({a \in {AzOf(st, ranges[i]) : i \in DOMAIN ranges} :
         \A i \in DOMAIN ranges : Len(OfAz(st, ranges, AzOf(st, ranges[i])))
                                    <= Len(OfAz(st, ranges, a))})
CollectorAzure(st, s, ranges) ==
  Min({a \in GlobalAzs(st, s) :
         \A b \in GlobalAzs(st, s) : GlobalsIn(st, s, b) <= GlobalsIn(st, s, a)})

(* OPPO_LRC means to count the local parities too, but adds those of the   *)
(* AZ whose number is in the variable it is about to set.  max[a] is the   *)
(* greatest when the AZs up to a have been compared.                       *)
CollectorsOppo(st, s) ==
  LET azs == GlobalAzs(st, s)
      rest == azs \ {Min(azs)}
      prev(a) == Max({b \in azs : b < a})
      anyLocals == {0} \cup {Cardinality(ParitiesIn(st, s, Locals(st.sch), a)) :
                              a \in 0..(st.azs - 1)}
      greater(a, b) == \E m, n \in anyLocals : GlobalsIn(st, s, a) + m > GlobalsIn(st, s, b) + n
      notGreater(a, b) ==
        \E m, n \in anyLocals : GlobalsIn(st, s, a) + m <= GlobalsIn(st, s, b) + n
      outcomes == {max \in [azs -> azs] :
        /\ max[Min(azs)] = Min(azs)
        /\ \A a \in rest : \/ /\ max[a] = max[prev(a)]
                               /\ notGreater(a, max[prev(a)])
                            \/ /\ max[a] = a
                               /\ greater(a, max[prev(a)])}
  IN {max[Max(azs)] : max \in outcomes}

NoCollector(st, s, ranges) == {-1}
Collectors(st, s, ranges) ==
  CASE st.sch.code = "RS" -> {-1}
    [] st.sch.code = "Azure_LRC_1" -> {CollectorAzure(st, s, ranges)}
    [] st.sch.code = "OPPO_LRC" -> CollectorsOppo(st, s)

(* The reply: the proxies by AZ, and all their ranges in one list.         *)
ByAz(st, ranges) ==
  {p \in (DOMAIN ranges) \X (DOMAIN ranges) :
     LET a == AzOf(st, ranges[p[1]])
         b == AzOf(st, ranges[p[2]])
     IN a < b \/ (a = b /\ p[1] < p[2])}

ReplyFor(st, ranges) ==
  LET azs == AzsOf(st, ranges)
      order == SortedBy(DOMAIN ranges, ByAz(st, ranges))
  IN [azs |-> [i \in DOMAIN azs |->
                 [az |-> azs[i], count |-> Cardinality(PlacesOf(st, ranges, azs[i]))]],
      ranges |-> [n \in DOMAIN order |-> ranges[order[n]]],
      id |-> 0]

(* A notice for the proxy of each AZ with a range names the nodes of the   *)
(* ranges and the local parities of the AZ; that for the collector, the    *)
(* parities of its AZ (Azure_LRC_1 only).                                  *)
NoticesFor(st, s, ranges, collector) ==
  LET azs == AzsOf(st, ranges)
      nodes(rs) == [j \in DOMAIN rs |-> st.at[s][rs[j].block]]
  IN [data |-> [i \in DOMAIN azs |->
                  [az |-> azs[i], nodes |-> nodes(OfAz(st, ranges, azs[i])),
                   parities |-> ParitiesIn(st, s, Locals(st.sch), azs[i])]],
      collector |-> collector,
      parities |-> IF st.sch.code = "Azure_LRC_1"
                   THEN ParitiesIn(st, s, Locals(st.sch) \cup Globals(st.sch), collector)
                   ELSE {}]

-----------------------------------------------------------------------------
(* The steps of a call                                                     *)

(* An update is asked for with the request given.                          *)
Ask(u, key, offset, length, request) ==
  /\ At(u, "none") /\ u <= site.calls
  /\ \A v \in 1..(u - 1) : ~At(v, "none")
  /\ upd' = [upd EXCEPT ![u] = [@ EXCEPT
       !.pc = "asked", !.key = key, !.offset = offset, !.length = length,
       !.request = request]]
  /\ UNCHANGED <<site, up, azTable, nextId>>

(* Client::update slices its request as it was made, with nothing set.      *)
Call(u, key, offset, length) == Ask(u, key, offset, length, upd[u].request)

(* A caller that fills it in.  The repository has none: this is what the   *)
(* handler does with the request its message is declared for.              *)
CallFilled(u, key, offset, length) ==
  Ask(u, key, offset, length, [key |-> key, offset |-> offset, length |-> length])

Split(u) ==
  LET q == upd[u].request IN
  /\ up
  /\ At(u, "asked")
  /\ q.key \in DOMAIN site.objects
  /\ upd' = [upd EXCEPT
       ![u].pc = "split",
       ![u].split = SplitOf(site, site.objects[q.key], q.offset, q.length)]
  /\ UNCHANGED <<site, up, azTable, nextId>>

(* A key that is not there is logged and looked up all the same: operator[]*)
(* makes an object without stripes, and its first stripe is read.          *)
Missing(u) == upd[u].request.key \notin DOMAIN site.objects

WaitForKey(u) == Split(u)
SplitMissing(u) ==
  /\ up
  /\ At(u, "asked")
  /\ Missing(u)
  /\ up' = FALSE
  /\ UNCHANGED <<site, azTable, nextId, upd>>

TakeFirst(u) ==
  /\ up
  /\ At(u, "split")
  /\ upd' = [upd EXCEPT ![u].pc = "taken", ![u].ranges = InFirst(upd[u].split)]
  /\ UNCHANGED <<site, up, azTable, nextId>>

FillReply(u) ==
  /\ up
  /\ At(u, "taken")
  /\ upd' = [upd EXCEPT ![u].pc = "filled", ![u].reply = ReplyFor(site, upd[u].ranges)]
  /\ UNCHANGED <<site, up, azTable, nextId>>

(* receive_client_shard_idx(idx) reads the list it was to add to.  Where   *)
(* that throws the reply goes out as it is.  m_AZ_info[collector] adds the *)
(* collector's AZ to the table if it is not there.                         *)
MakeNotices(u) ==
  LET ranges == upd[u].ranges
      s == FirstStripe(upd[u].split)
  IN
  /\ up
  /\ At(u, "filled")
  /\ "ignored" \in OutOfRange
  /\ \E c \in Collectors(site, s, ranges) :
       /\ azTable' = azTable \cup {c}
       /\ upd' = [upd EXCEPT ![u].pc = "notices",
                             ![u].notices = NoticesFor(site, s, ranges, c)]
  /\ UNCHANGED <<site, up, nextId>>

NoticesThrow(u) ==
  /\ up
  /\ At(u, "filled")
  /\ "thrown" \in OutOfRange
  /\ upd' = [upd EXCEPT ![u].pc = "replied"]
  /\ UNCHANGED <<site, up, azTable, nextId>>

(* Under m_mutex.                                                          *)
Number(u) ==
  /\ up
  /\ At(u, "notices")
  /\ upd' = [upd EXCEPT ![u].pc = "replied", ![u].reply.id = nextId]
  /\ nextId' = nextId + 1
  /\ UNCHANGED <<site, up, azTable>>

(* The client connects to the proxies in turn and reads, for each, its     *)
(* slice of the list of ranges; j runs on through the list.  The loop ends *)
(* there: what would write a range to the proxy is commented out (lines    *)
(* 224-226), so nothing is sent, though OPPO项目文档.md:149 says so.        *)
StartsAnew(j) == 0
RunsOn(j) == j

ConnectProxy(u) ==
  LET reply == upd[u].reply
      i == upd[u].asked + 1
      j == RunsOn(upd[u].next)
      slice == {[az |-> reply.azs[i].az, range |-> reply.ranges[j + t]] :
                  t \in 1..reply.azs[i].count}
  IN
  /\ At(u, "replied")
  /\ i <= Len(reply.azs)
  /\ upd' = [upd EXCEPT
       ![u].asked = i,
       ![u].next = j + reply.azs[i].count,
       ![u].slices = @ \cup slice]
  /\ UNCHANGED <<site, up, azTable, nextId>>

Return(u) ==
  /\ \/ At(u, "replied") /\ upd[u].asked = Len(upd[u].reply.azs)
     \/ ~up /\ upd[u].pc \in {"asked", "split", "taken", "filled", "notices"}
  /\ upd' = [upd EXCEPT ![u].pc = "returned"]
  /\ UNCHANGED <<site, up, azTable, nextId>>

Go(u) ==
  \/ Split(u) \/ SplitMissing(u) \/ TakeFirst(u) \/ FillReply(u)
  \/ MakeNotices(u) \/ NoticesThrow(u) \/ Number(u)
  \/ ConnectProxy(u) \/ Return(u)

Next ==
  \E u \in Updates :
    \/ \E key \in DOMAIN site.objects :
         \E offset \in 0..(site.objects[key].size - 1) :
           \E length \in 1..(site.objects[key].size + Excess - offset) :
             Call(u, key, offset, length) \/ CallFilled(u, key, offset, length)
    \/ Go(u)

(* Threads of the coordinator and of the client run.                       *)
Spec == Init /\ [][Next]_vars /\ \A u \in Updates : WF_vars(Go(u))

-----------------------------------------------------------------------------
(* The type of every variable.                                             *)
IsRange(r) ==
  /\ r.stripe \in DOMAIN site.at
  /\ r.block \in Blocks(Sch)
  /\ r.offset \in Nat /\ r.length \in Nat \ {0}

TypeOK ==
  /\ site \in Sites
  /\ up \in BOOLEAN
  /\ azTable \subseteq AzIds \cup {-1}
  /\ nextId \in 0..site.calls
  /\ \A u \in Updates :
       /\ upd[u].pc \in {"none", "asked", "split", "taken", "filled", "notices",
                         "replied", "returned"}
       /\ \A i \in DOMAIN upd[u].split : IsRange(upd[u].split[i])
       /\ \A m \in upd[u].slices : m.az \in AzIds /\ IsRange(m.range)

(* Where byte p of an object is: [stripe, block, offset].                  *)
Place(st, obj, p) ==
  IF ~obj.big
  THEN [stripe |-> obj.stripes[1], block |-> obj.block, offset |-> obj.offset + p]
  ELSE LET i == CHOOSE n \in 1..Len(obj.stripes) :
                  BytesBefore(st, obj, n) <= p /\ p < BytesBefore(st, obj, n + 1)
           s == obj.stripes[i]
           q == p - BytesBefore(st, obj, i)
       IN [stripe |-> s, block |-> q \div st.shard[s], offset |-> q % st.shard[s]]

BytesOf(r) ==
  {[stripe |-> r.stripe, block |-> r.block, offset |-> r.offset + n] :
     n \in 0..(r.length - 1)}

(* An update of bytes the object has, that does not begin where a stripe   *)
(* after the first does: split_update_length takes such an offset for the  *)
(* end of the stripe before.                                               *)
RegularIn(st, obj, offset, length) ==
  /\ offset + length <= obj.size
  /\ \A i \in 2..Len(obj.stripes) : obj.big => offset # BytesBefore(st, obj, i)
Regular(u) ==
  RegularIn(site, site.objects[upd[u].key], upd[u].offset, upd[u].length)

BytesAt(st, obj, offset, length) ==
  {Place(st, obj, p) : p \in offset..(offset + length - 1)}
Updated(u) == BytesAt(site, site.objects[upd[u].key], upd[u].offset, upd[u].length)

(* The ranges an update is split into cover its bytes and no others, each  *)
(* byte once, over blocks and stripes of different sizes.                  *)
IsExact(split, bytes) ==
  /\ UNION {BytesOf(split[i]) : i \in DOMAIN split} = bytes
  /\ \A i, j \in DOMAIN split : i # j => BytesOf(split[i]) \cap BytesOf(split[j]) = {}
SplitExact ==
  \A u \in Updates : At(u, "split") /\ Regular(u) => IsExact(upd[u].split, Updated(u))

(* When the client has gone through the reply, every byte it updates in    *)
(* the first stripe is in one of the slices it has read, the one of the    *)
(* proxy in the AZ of its block: the counts and the list of ranges are     *)
(* taken apart as they were put together.                                  *)
SlicesMatchAzs ==
  \A u \in Updates :
    At(u, "returned") /\ up /\ Regular(u)
      => \A b \in {c \in Updated(u) : c.stripe = FirstStripe(upd[u].split)} :
           /\ Cardinality({m \in upd[u].slices : b \in BytesOf(m.range)}) = 1
           /\ \A m \in upd[u].slices :
                b \in BytesOf(m.range) => m.az = site.at[b.stripe][b.block][1]

(* Every parity that an update of a stripe makes stale is named to a proxy,*)
(* where the placement has a group in one AZ: the local parities in the    *)
(* notice of their AZ, the global ones in that of the collector, wherever  *)
(* most of the updated blocks are.  The local parity of the global ones is *)
(* never named, the global ones only with Azure_LRC_1.                     *)
OneAz(s, xs) == \A x, y \in xs : site.at[s][x][1] = site.at[s][y][1]
Together(s, i) == OneAz(s, DataOf(Sch, i) \cup {LocalOf(Sch, i)})

ParitiesNamed ==
  \A u \in Updates :
    LET ranges == upd[u].ranges
        s == FirstStripe(upd[u].split)
        data == upd[u].notices.data
        blocks == {ranges[i].block : i \in DOMAIN ranges}
        named == UNION {data[i].parities : i \in DOMAIN data}
    IN At(u, "notices") /\ Sch.code # "RS" =>
         /\ \A i \in 0..(Sch.l - 1) :
              Together(s, i) /\ DataOf(Sch, i) \cap blocks # {}
                => LocalOf(Sch, i) \in named
         /\ Sch.code = "Azure_LRC_1" /\ OneAz(s, Globals(Sch))
              => Globals(Sch) \subseteq upd[u].notices.parities

(* The coordinator stops only of a request for a key it does not have, and *)
(* with a code that has local groups the table of AZs is left as it was:   *)
(* later calls pick a proxy by a random number below its size.             *)
LeavesTables ==
  /\ ~up => \E u \in Updates : ~At(u, "none") /\ Missing(u)
  /\ Sch.code # "RS" => azTable = AzIds

(* Every call returns, also one that another has stopped the coordinator   *)
(* under.                                                                  *)
UpdateReturns == \A u \in Updates : At(u, "asked") ~> At(u, "returned")
=============================================================================
