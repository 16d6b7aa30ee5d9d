------------------------------- MODULE Repair -------------------------------
(***************************************************************************)
(* requestRepair and do_repair: the coordinator's handlers of repair, with *)
(* the proxies taken together.  A handler goes through the stripes the     *)
(* failed datanodes held; a stripe takes a few jobs; a job reads blocks,   *)
(* combines them, writes the rebuilt blocks to new nodes and only then     *)
(* changes the list of nodes of the stripe.  Who of the proxies reads what *)
(* and what they send each other is in RepairTransfer, which implements    *)
(* this module.                                                            *)
(*                                                                         *)
(* A copy of a block is good or it is junk.  Datanodes that fail do not    *)
(* come back (they are killed and the operator calls Client::repair).      *)
(***************************************************************************)
EXTENDS RepairPlan

CONSTANTS
  Sites,         \* [sch, partial, azs, nodes, layouts, mayFail, quiet]: the
                 \* parameters, the nodes of an AZ, the stripes as they were
                 \* placed, the nodes that may fail, and whether they fail
                 \* only while no repair runs
  MaxRepairs,    \* bound: calls of Client::repair
  SerialRepair   \* TRUE: one call at a time

NodesOf(s) == (0..(s.azs - 1)) \X (0..(s.nodes - 1))
UsedBy(s) == UNION {Range(s.layouts[i]) : i \in 1..Len(s.layouts)}

ASSUME SitesAssumption ==
  \A s \in Sites :
    /\ IsScheme(s.sch)
    /\ {s.partial, s.quiet} \subseteq BOOLEAN
    /\ s.azs \in Nat \ {0} /\ s.nodes \in Nat \ {0}
    /\ s.layouts \in Seq(Injection(Blocks(s.sch), NodesOf(s))) \ {<<>>}
    /\ s.mayFail \subseteq UsedBy(s)
ASSUME BoundAssumption == MaxRepairs \in Nat /\ SerialRepair \in BOOLEAN

(* Every AZ begins with spare nodes that do not fail, one more than the    *)
(* nodes of it that may.                                                   *)
ASSUME SparesAssumption ==
  \A s \in Sites : \A n \in s.mayFail :
    Cardinality({i \in 0..(n[2] - 1) : <<n[1], i>> \notin UsedBy(s)})
      > Cardinality({m \in s.mayFail : m[1] = n[1]})

VARIABLES
  site,         \* the deployment
  up,           \* the datanodes that are up
  good, junk,   \* <<s, x, n>>: node n holds block x of stripe s, as encoded
                \* or with another content
  info,         \* m_Stripe_info: the list of nodes of each stripe
  index,        \* Node.stripes of m_Node_info
  req           \* the handlers of requestRepair

vars == <<site, up, good, junk, info, index, req>>
nodeVars == <<site, up>>
memVars == <<good, junk>>
tableVars == <<info, index>>

Stripes == 1..Len(site.layouts)
Handlers == 1..MaxRepairs
Sch == site.sch
AzNodes(a) == {a} \X (0..(site.nodes - 1))

NoPlan == [lost |-> {}, main |-> 0, reads |-> <<>>, from |-> <<>>, to |-> <<>>]
Unused == [pc |-> "none", list |-> {}, todo |-> {}, stripe |-> 1, jobs |-> <<>>,
           plan |-> NoPlan, got |-> {}, bad |-> {}, sound |-> FALSE, left |-> {}]

Init ==
  /\ site \in Sites
  /\ up = NodesOf(site)
  /\ good = {<<i, x, site.layouts[i][x]>> : i \in Stripes, x \in Blocks(Sch)}
  /\ junk = {}
  /\ info = site.layouts
  /\ index = [n \in NodesOf(site) |-> {i \in Stripes : n \in Range(site.layouts[i])}]
  /\ req = [h \in Handlers |-> Unused]

Active(h) == req[h].pc \notin {"none", "replied"}
At(h, pc) == req[h].pc = pc

Fail(n) ==
  /\ n \in up \cap site.mayFail
  /\ site.quiet => \A h \in Handlers : ~Active(h)
  /\ up' = up \ {n}
  /\ UNCHANGED <<site, memVars, tableVars, req>>

-----------------------------------------------------------------------------
(* requestRepair                                                           *)

(* Client::repair names the nodes that are down; the stripes come from     *)
(* Node.stripes, which only placement writes.                              *)
RequestRepair(h) ==
  LET list == NodesOf(site) \ up IN
  /\ At(h, "none")
  /\ \A i \in 1..(h - 1) : ~At(i, "none")
  /\ SerialRepair => \A i \in Handlers : ~Active(i)
  /\ list # {}
  /\ req' = [req EXCEPT ![h] = [Unused EXCEPT
       !.pc = "scan", !.list = list, !.todo = UNION {index[n] : n \in list}]]
  /\ UNCHANGED <<nodeVars, memVars, tableVars>>

LostOf(h, s) == FailedOf(info[s], req[h].list)

(* The next stripe of the hash set: not decodable, or nothing failed (any  *)
(* more).                                                                  *)
SkipStripe(h, s) ==
  /\ At(h, "scan")
  /\ s \in req[h].todo
  /\ GivenUp(Sch, LostOf(h, s)) \/ LostOf(h, s) = {}
  /\ req' = [req EXCEPT ![h].todo = @ \ {s}]
  /\ UNCHANGED <<nodeVars, memVars, tableVars>>

ExamineStripe(h, s) ==
  LET lost == LostOf(h, s) IN
  /\ At(h, "scan")
  /\ s \in req[h].todo
  /\ ~GivenUp(Sch, lost)
  /\ lost # {}
  /\ \E alone \in SetToSeqs(Alone(Sch, info[s], lost)),
        shared \in SetToSeqs(Shared(Sch, info[s], lost)) :
       req' = [req EXCEPT ![h].todo = @ \ {s}, ![h].stripe = s, ![h].pc = "plan",
                          ![h].jobs = JobsOf(Sch, info[s], lost, alone, shared)]
  /\ UNCHANGED <<nodeVars, memVars, tableVars>>

Reply(h) ==
  /\ At(h, "scan")
  /\ req[h].todo = {}
  /\ req' = [req EXCEPT ![h].pc = "replied"]
  /\ UNCHANGED <<nodeVars, memVars, tableVars>>

-----------------------------------------------------------------------------
(* do_repair                                                               *)

(* generate_repair_plan: the addresses are those of the tables now, and    *)
(* every block stays in its AZ.                                            *)
PlacesInOneAz(at, lost) == NewPlaces(at, AzNodes(AzOf(at[Min(lost)])), lost)
PlacesFor(at, lost) ==
  LET ofAz(a) == NewPlaces(at, AzNodes(a), InAz(at, lost, a))
      azs == AzsOf(at, lost)
  IN [x \in UNION {DOMAIN ofAz(a) : a \in azs} |-> ofAz(AzOf(at[x]))[x]]

PlanJob(h) ==
  LET lost == Head(req[h].jobs)
      at == info[req[h].stripe]
      reads == ReadsOf(Sch, at, lost, site.partial)
      places == PlacesFor(at, lost)
  IN
  /\ At(h, "plan")
  /\ \E main \in Mains(Sch, at, lost, site.partial) :
       req' = [req EXCEPT ![h].pc = "gather", ![h].jobs = Tail(@),
                          ![h].got = {}, ![h].bad = {},
                          ![h].plan = [lost |-> lost, main |-> main, reads |-> reads,
                                       from |-> at, to |-> places]]
  /\ UNCHANGED <<nodeVars, memVars, tableVars>>

Reads(h) == UNION Range(req[h].plan.reads)
Whole(h, x) == LET n == req[h].plan.from[x] IN
               n \in up /\ <<req[h].stripe, x, n>> \in good

(* A thread reads a block.  GetFromMemcached swallows the exception of a   *)
(* node that does not answer, and the buffer of zeros counts as the block. *)
ReadBlock(h, x) ==
  /\ At(h, "gather")
  /\ x \in Reads(h) \ req[h].got
  /\ req' = [req EXCEPT ![h].got = @ \cup {x},
                        ![h].bad = IF Whole(h, x) THEN @ ELSE @ \cup {x}]
  /\ UNCHANGED <<nodeVars, memVars, tableVars>>

(* Blocks are combined; the result is written, whatever it is.             *)
Combined(h, bad, ok) ==
  req' = [req EXCEPT ![h].pc = "store", ![h].sound = ok,
                     ![h].got = Reads(h), ![h].bad = bad,
                     ![h].left = Rebuilt(Sch, req[h].plan.lost)]

Combine(h) ==
  /\ At(h, "gather")
  /\ req[h].got = Reads(h)
  /\ \E ok \in Outcomes(Sch, req[h].plan.lost, site.partial, Reads(h), req[h].bad) :
       Combined(h, req[h].bad, ok)
  /\ UNCHANGED <<nodeVars, memVars, tableVars>>

(* SetToMemcached; a node that is down is not noticed.                     *)
StoreBlock(h, x) ==
  LET n == req[h].plan.to[x]
      copy == <<req[h].stripe, x, n>>
      write(held, is) == IF is THEN held \cup {copy} ELSE held \ {copy}
  IN
  /\ At(h, "store")
  /\ x \in req[h].left
  /\ req' = [req EXCEPT ![h].left = @ \ {x}]
  /\ IF n \in up
     THEN /\ good' = write(good, req[h].sound)
          /\ junk' = write(junk, ~req[h].sound)
     ELSE UNCHANGED memVars
  /\ UNCHANGED <<nodeVars, tableVars>>

(* The RPCs have returned: the blocks that were written are recorded where *)
(* they now are.  Node.stripes stays as it was.                            *)
AllOf(plan) == DOMAIN plan.to
Recorded(plan) == DOMAIN plan.to \cap Rebuilt(Sch, plan.lost)

Record(h) ==
  LET s == req[h].stripe
      plan == req[h].plan
  IN
  /\ At(h, "store")
  /\ req[h].left = {}
  /\ info' = [info EXCEPT ![s] =
       [x \in DOMAIN @ |-> IF x \in Recorded(plan) THEN plan.to[x] ELSE @[x]]]
  /\ req' = [req EXCEPT ![h].pc = IF req[h].jobs = <<>> THEN "scan" ELSE "plan"]
  /\ UNCHANGED <<nodeVars, memVars, index>>

-----------------------------------------------------------------------------
Step(h) ==
  \/ \E s \in Stripes : SkipStripe(h, s) \/ ExamineStripe(h, s)
  \/ PlanJob(h) \/ Combine(h) \/ Record(h) \/ Reply(h)
  \/ \E x \in Blocks(Sch) : ReadBlock(h, x) \/ StoreBlock(h, x)

Next ==
  \/ \E n \in NodesOf(site) : Fail(n)
  \/ \E h \in Handlers : RequestRepair(h) \/ Step(h)

Spec == Init /\ [][Next]_vars

-----------------------------------------------------------------------------
(* The type of every variable.                                             *)
TypeOK ==
  /\ site \in Sites
  /\ up \subseteq NodesOf(site)
  /\ good \cup junk \subseteq Stripes \X Blocks(Sch) \X NodesOf(site)
  /\ info \in [Stripes -> [Blocks(Sch) -> NodesOf(site)]]
  /\ index \in [NodesOf(site) -> SUBSET Stripes]
  /\ \A h \in Handlers :
       /\ req[h].pc \in {"none", "scan", "plan", "gather", "store", "replied"}
       /\ req[h].todo \subseteq Stripes
       /\ req[h].stripe \in Stripes
       /\ req[h].bad \subseteq req[h].got
       /\ req[h].got \subseteq Blocks(Sch) \ req[h].plan.lost
       /\ req[h].left \subseteq DOMAIN req[h].plan.to

(* No two blocks of a stripe are on one datanode, however many repairs     *)
(* have moved them: the spares of generate_repair_plan.                    *)
OwnNodes == \A s \in Stripes : IsInjective(info[s])

(* Repair keeps what placement was made for: after any repairs a stripe    *)
(* survives the loss of an AZ as it did when it was placed.                *)
StaysTolerant ==
  \A s \in Stripes, a \in 0..(site.azs - 1) :
    Recoverable(Sch, InAz(site.layouts[s], Blocks(Sch), a))
      => Recoverable(Sch, InAz(info[s], Blocks(Sch), a))

(* The list of nodes is never ahead of the datanodes: a block is on the    *)
(* node the coordinator names, or that node is down, even while handlers   *)
(* rebuild and move blocks.                                                *)
RecordedIsHeld ==
  \A s \in Stripes, x \in Blocks(Sch) :
    LET n == info[s][x] IN n \in up => <<s, x, n>> \in good \cup junk

(* Junk is written only for a loss repair is not made for, or when a node  *)
(* it read from was down or held junk itself.                              *)
WritesWhole ==
  [][\A h \in Handlers :
       At(h, "store") /\ ~(junk' \subseteq junk)
         => \/ ~Handled(Sch, FailedOf(req[h].plan.from, req[h].list), site.partial)
            \/ req[h].bad # {}]_vars

(* When requestRepair returns, no block of a stripe is left on a node it   *)
(* was told of, unless more was lost than repair is made for.              *)
Restored ==
  [][\A h \in Handlers :
       ~At(h, "replied") /\ req'[h].pc = "replied"
         => \A s \in Stripes : LostOf(h, s) = {}
                               \/ ~Handled(Sch, LostOf(h, s), site.partial)]_vars

(* What Client::repair hopes for: junk is written only when too much is    *)
(* lost for any decoder, or a read failed.                                 *)
RepairsRecoverable ==
  [][\A h \in Handlers :
       At(h, "store") /\ ~(junk' \subseteq junk)
         => \/ ~Recoverable(Sch, FailedOf(req[h].plan.from, req[h].list))
            \/ req[h].bad # {}]_vars
=============================================================================
