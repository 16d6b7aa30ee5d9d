--------------------------- MODULE RepairTransfer ---------------------------
(***************************************************************************)
(* mainRepair and helpRepair: how the proxies carry out one job of Repair. *)
(* The main proxy reads the blocks of its own AZ and accepts, from the     *)
(* acceptor all its threads share, one connection per helping AZ; a helper *)
(* reads its blocks, connects, and sends them as they are or as partial    *)
(* sums.  A buffer is the set of blocks it is the sum of, so a block that  *)
(* is left out or counted twice shows.                                     *)
(*                                                                         *)
(* got and bad of a handler are what the main proxy has read itself and    *)
(* which of it failed; once all is combined, those of the whole job.       *)
(***************************************************************************)
EXTENDS Repair

VARIABLES
  help,       \* help[h][a]: the helpRepair of AZ a for handler h
  backlog,    \* backlog[a]: the connections the acceptor of a's proxy holds
  accepted,   \* accepted[h]: those the mainRepair of h has accepted
  received    \* received[h]: those of them its threads have read

proxyVars == <<help, backlog, accepted, received>>
allVars == <<vars, proxyVars>>

AzIds == 0..(site.azs - 1)
Fresh == [sent |-> FALSE, got |-> {}, bad |-> {}]

InitTransfer ==
  /\ Init
  /\ help = [h \in Handlers |-> <<>>]
  /\ backlog = [a \in AzIds |-> <<>>]
  /\ accepted = [h \in Handlers |-> {}]
  /\ received = [h \in Handlers |-> {}]

Plan(h) == req[h].plan
Main(h) == Plan(h).main
Helpers(plan) == DOMAIN plan.reads \ {plan.main}
Single(plan) == Cardinality(plan.lost) = 1

(* do_repair starts a thread with an RPC for every AZ of the plan.         *)
StartJob(h) ==
  /\ PlanJob(h)
  /\ help' = [help EXCEPT ![h] = [a \in Helpers(req'[h].plan) |-> Fresh]]
  /\ accepted' = [accepted EXCEPT ![h] = {}]
  /\ received' = [received EXCEPT ![h] = {}]
  /\ UNCHANGED backlog

-----------------------------------------------------------------------------
(* Buffers                                                                 *)

(* The sum of some buffers, each under a key of its own: a block that is   *)
(* in an even number of them cancels out.                                  *)
Sum(terms) ==
  {x \in UNION {t[2] : t \in terms} :
     Cardinality({t \in terms : x \in t[2]}) % 2 = 1}

(* The blocks read, each in its buffer, and the sum of those in xs.        *)
Raw(got) == [x \in got |-> {x}]
SumOf(bufs, xs) == Sum({<<i, bufs[i]>> : i \in DOMAIN bufs \cap xs})

(* The blocks that enter the equation of row t.                            *)
Entering(t) == 0..(Sch.k - 1) \cup {t}

AllRows(plan) == Rows(Sch, plan.lost)
SumAllInRows(bufs, plan) == [t \in AllRows(plan) |-> SumOf(bufs, DOMAIN bufs)]
SumRows(bufs, plan) == [t \in AllRows(plan) |-> SumOf(bufs, Entering(t))]

(* What a helper sends.                                                    *)
Sums(plan, a) ==
  site.partial /\ (Single(plan) \/ Merges(Sch, plan.lost, plan.reads[a]))
Message(plan, a, bufs) ==
  IF ~Sums(plan, a) THEN bufs
  ELSE IF Single(plan) THEN [x \in {-1} |-> SumOf(bufs, DOMAIN bufs)]
  ELSE SumRows(bufs, plan)

-----------------------------------------------------------------------------
(* helpRepair                                                              *)

HelpRead(h, a, x) ==
  /\ At(h, "gather")
  /\ a \in DOMAIN help[h]
  /\ x \in Plan(h).reads[a] \ help[h][a].got
  /\ help' = [help EXCEPT ![h][a].got = @ \cup {x},
                          ![h][a].bad = IF Whole(h, x) THEN @ ELSE @ \cup {x}]
  /\ UNCHANGED <<vars, backlog, accepted, received>>

(* With all its blocks read it connects to the main proxy and writes.      *)
HelpSend(h, a) ==
  LET mine == help[h][a] IN
  /\ At(h, "gather")
  /\ a \in DOMAIN help[h]
  /\ ~mine.sent
  /\ mine.got = Plan(h).reads[a]
  /\ backlog' = [backlog EXCEPT ![Main(h)] = Append(@,
       [of |-> h, az |-> a, bufs |-> Message(Plan(h), a, Raw(mine.got))])]
  /\ help' = [help EXCEPT ![h][a].sent = TRUE]
  /\ UNCHANGED <<vars, accepted, received>>

-----------------------------------------------------------------------------
(* mainRepair                                                              *)

MainRead(h, x) ==
  /\ At(h, "gather")
  /\ x \in Plan(h).reads[Main(h)]
  /\ ReadBlock(h, x)
  /\ UNCHANGED proxyVars

(* As many connections as there are helpers, whoever made them.            *)
AwaitedAll(plan) == Cardinality(DOMAIN plan.reads)
Awaited(plan) == Cardinality(Helpers(plan))

Accept(h) ==
  /\ At(h, "gather")
  /\ Cardinality(accepted[h]) < Awaited(Plan(h))
  /\ backlog[Main(h)] # <<>>
  /\ accepted' = [accepted EXCEPT ![h] = @ \cup {Head(backlog[Main(h)])}]
  /\ backlog' = [backlog EXCEPT ![Main(h)] = Tail(@)]
  /\ UNCHANGED <<vars, help, received>>

(* A thread per connection reads it into data_or_parity, by the id of the  *)
(* AZ it begins with, under repair_buffer_lock.                            *)
Receive(h, conn) ==
  /\ At(h, "gather")
  /\ conn \in accepted[h] \ received[h]
  /\ received' = [received EXCEPT ![h] = @ \cup {conn}]
  /\ UNCHANGED <<vars, help, backlog, accepted>>

(* All threads are joined: data_or_parity, a part of it for every AZ.      *)
Joined(h) ==
  /\ req[h].got = Plan(h).reads[Main(h)]
  /\ Cardinality(accepted[h]) = Awaited(Plan(h))
  /\ received[h] = accepted[h]

Own(h) == [of |-> h, az |-> Main(h), bufs |-> Raw(req[h].got)]
Parts(h) == received[h] \cup {Own(h)}

(* One block: everything is summed.                                        *)
SingleSum(h) == Sum({<<c.az, SumOf(c.bufs, DOMAIN c.bufs)>> : c \in Parts(h)})

(* Several, with partial decoding: the right side of an equation is the    *)
(* sum of what the AZs give for it, which the main proxy works out for     *)
(* itself and for those that sent their blocks as they are.                *)
Given(plan, c, t) ==
  IF c.az # plan.main /\ Sums(plan, c.az) THEN c.bufs[t]
                                         ELSE SumOf(c.bufs, Entering(t))
RightSide(h, t) == Sum({<<c.az, Given(Plan(h), c, t)>> : c \in Parts(h)})

(* Without: the blocks themselves.                                         *)
BlocksAtMain(h) == UNION {DOMAIN c.bufs : c \in Parts(h)}

(* Is every block that was to be read in the sums, once, and no block of   *)
(* another repair?                                                         *)
Complete(h) ==
  /\ \A c \in Parts(h) : c.of = h
  /\ IF Single(Plan(h)) THEN SingleSum(h) = Reads(h)
     ELSE IF site.partial
     THEN \A t \in AllRows(Plan(h)) : RightSide(h, t) = Reads(h) \cap Entering(t)
     ELSE BlocksAtMain(h) = Reads(h)

(* The reads of the main proxy and of its helpers that failed.             *)
Bad(h) == req[h].bad \cup UNION {help[h][a].bad : a \in DOMAIN help[h]}

MainCombine(h) ==
  /\ At(h, "gather")
  /\ Joined(h)
  /\ \E ok \in IF Complete(h)
               THEN Outcomes(Sch, Plan(h).lost, site.partial, Reads(h), Bad(h))
               ELSE {FALSE} :
       Combined(h, Bad(h), ok)
  /\ UNCHANGED <<nodeVars, memVars, tableVars, proxyVars>>

-----------------------------------------------------------------------------
(* The coordinator's steps, and the writes of the main proxy, are those of *)
(* Repair.                                                                 *)
Coordinator(h) ==
  /\ \/ \E s \in Stripes : SkipStripe(h, s) \/ ExamineStripe(h, s)
     \/ Record(h) \/ Reply(h)
     \/ \E x \in Blocks(Sch) : StoreBlock(h, x)
  /\ UNCHANGED proxyVars

Proxies(h) ==
  \/ StartJob(h)
  \/ \E x \in Blocks(Sch) : MainRead(h, x) \/ \E a \in AzIds : HelpRead(h, a, x)
  \/ \E a \in AzIds : HelpSend(h, a)
  \/ Accept(h)
  \/ \E conn \in accepted[h] : Receive(h, conn)
  \/ MainCombine(h)

NodeFails == \E n \in NodesOf(site) : Fail(n) /\ UNCHANGED proxyVars

Request == \E h \in Handlers : RequestRepair(h) /\ UNCHANGED proxyVars
Work(h) == Coordinator(h) \/ Proxies(h)

NextTransfer == NodeFails \/ Request \/ \E h \in Handlers : Work(h)

(* Threads run: a handler that can go on does.  Nobody has to call repair. *)
Fairness == \A h \in Handlers : WF_allVars(Work(h))

SpecTransfer == InitTransfer /\ [][NextTransfer]_allVars /\ Fairness

-----------------------------------------------------------------------------
(* The proxies do together what Repair says of the handler: what the main  *)
(* proxy and the helpers have read is what has been read.                  *)
Gathered(h) ==
  [req[h] EXCEPT !.got = @ \cup UNION {help[h][a].got : a \in DOMAIN help[h]},
                 !.bad = Bad(h)]

Coarse == INSTANCE Repair WITH req <- [h \in Handlers |-> Gathered(h)]
ImplementsRepair == Coarse!Spec

(* Every call of requestRepair returns: no proxy waits for a connection    *)
(* that nobody makes, and no handler goes round for ever.                  *)
RequestReturns == \A h \in Handlers : At(h, "scan") ~> At(h, "replied")
=============================================================================
