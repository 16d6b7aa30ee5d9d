------------------------ MODULE RepairTransfer_proofs ------------------------
(***************************************************************************)
(* Proofs about RepairTransfer: what the proxies do together is what       *)
(* Repair says of a handler, for every deployment, scheme and placement.   *)
(***************************************************************************)
EXTENDS RepairTransfer, Repair_proofs

USE DEF nodeVars, memVars, tableVars, vars, At, proxyVars, allVars

-----------------------------------------------------------------------------
(* What a handler's helpers have read                                      *)

(* r is the handler, hs its helpers: they read what the plan has for their *)
(* AZs, the main proxy what it has for its own; afterwards the handler     *)
(* knows of all that was read.                                             *)
HelpTypes(plan, hs) ==
  /\ DOMAIN hs = Helpers(plan)
  /\ \A a \in DOMAIN hs :
       /\ hs[a] \in [sent : BOOLEAN, got : SUBSET plan.reads[a], bad : SUBSET plan.reads[a]]
       /\ hs[a].bad \subseteq hs[a].got
       /\ hs[a].sent => hs[a].got = plan.reads[a]

IsHelped(r, hs) ==
  /\ r.pc = "none" => DOMAIN hs = {}
  /\ r.pc = "gather" => HelpTypes(r.plan, hs) /\ r.got \subseteq r.plan.reads[r.plan.main]
  /\ r.pc # "gather" =>
       \A a \in DOMAIN hs : hs[a].got \subseteq r.got /\ hs[a].bad \subseteq r.bad

HelpInv ==
  /\ DOMAIN help = Handlers
  /\ \A h \in Handlers : IsHelped(req[h], help[h])

LEMMA HelpInit == InitTransfer => HelpInv
BY DEF InitTransfer, Init, HelpInv, IsHelped, Unused

(* What has been read and has failed so far is among what is to be read.   *)
LEMMA GatherFacts ==
  ASSUME Inv, HelpInv, NEW h \in Handlers, At(h, "gather")
  PROVE  /\ GoodPlan(site, Plan(h)) /\ Divided(Plan(h).reads, Main(h), Blocks(Sch) \ Plan(h).lost)
         /\ HelpTypes(Plan(h), help[h])
         /\ req[h].got \subseteq Plan(h).reads[Main(h)]
         /\ req[h].bad \subseteq req[h].got
         /\ Bad(h) \in SUBSET Reads(h)
         /\ Reads(h) = UNION {Plan(h).reads[a] : a \in DOMAIN Plan(h).reads}
<1>1. GoodPlan(site, Plan(h)) /\ req[h].bad \subseteq req[h].got
  BY ReqFacts, WorkingFacts DEF Working, Plan
<1>2. Divided(Plan(h).reads, Main(h), Blocks(Sch) \ Plan(h).lost)
  BY <1>1 DEF GoodPlan, Main, Sch
<1>3. /\ HelpTypes(Plan(h), help[h]) /\ req[h].got \subseteq Plan(h).reads[Main(h)]
  BY DEF HelpInv, IsHelped, Plan, Main
<1>4. Reads(h) = UNION {Plan(h).reads[a] : a \in DOMAIN Plan(h).reads}
  BY DEF Reads, Range, Plan
<1>5. \A a \in DOMAIN Plan(h).reads : Plan(h).reads[a] \subseteq Reads(h)
  BY <1>4
<1>6. Main(h) \in DOMAIN Plan(h).reads /\ DOMAIN help[h] \subseteq DOMAIN Plan(h).reads
  BY <1>2, <1>3 DEF Divided, HelpTypes, Helpers
<1>7. \A a \in DOMAIN help[h] : help[h][a].bad \subseteq Plan(h).reads[a]
  BY <1>3 DEF HelpTypes
<1>8. Bad(h) \in SUBSET Reads(h)
  BY <1>1, <1>3, <1>5, <1>6, <1>7 DEF Bad
<1> QED BY <1>1, <1>2, <1>3, <1>4, <1>8

-----------------------------------------------------------------------------
(* The steps                                                               *)

(* A step of handler h and its proxies.                                    *)
LEMMA HelpedStep ==
  ASSUME HelpInv, NEW h \in Handlers,
         \A i \in Handlers \ {h} : req'[i] = req[i] /\ help'[i] = help[i],
         DOMAIN help' = Handlers, IsHelped(req'[h], help'[h])
  PROVE  HelpInv'
<1>1. Handlers' = Handlers
  BY DEF Handlers
<1> QED BY <1>1 DEF HelpInv

(* The steps of the coordinator are not steps of a job being carried out.  *)
LEMMA CoordinatorKeeps ==
  ASSUME Inv, NEW h \in Handlers,
         \/ RequestRepair(h) \/ Reply(h) \/ Record(h)
         \/ \E s \in Stripes : SkipStripe(h, s) \/ ExamineStripe(h, s)
         \/ \E x \in Blocks(Sch) : StoreBlock(h, x)
  PROVE  /\ UNCHANGED site
         /\ \A i \in Handlers \ {h} : req'[i] = req[i]
         /\ req[h].pc # "gather" /\ req'[h].pc \notin {"none", "gather"}
         /\ req[h].pc # "none" => req'[h].got = req[h].got /\ req'[h].bad = req[h].bad
<1> DEFINE Kept == /\ \A i \in Handlers \ {h} : req'[i] = req[i]
                   /\ req[h].pc # "gather" /\ req'[h].pc \notin {"none", "gather"}
                   /\ req[h].pc # "none" => req'[h].got = req[h].got /\ req'[h].bad = req[h].bad
<1>1. DOMAIN req = Handlers
  BY ReqFacts
<1>2. CASE RequestRepair(h)
  BY <1>1, <1>2 DEF RequestRepair, Unused
<1>3. CASE Reply(h)
  BY <1>1, <1>3, ReqFacts DEF Reply
<1>4. CASE Record(h)
  <2> DEFINE pc == IF req[h].jobs = <<>> THEN "scan" ELSE "plan"
  <2>1. /\ req[h].pc = "store" /\ req' = [req EXCEPT ![h].pc = pc]
        /\ pc \in {"scan", "plan"}
    BY <1>4 DEF Record
  <2> HIDE DEF pc
  <2>2. /\ req'[h] = [req[h] EXCEPT !.pc = pc]
        /\ \A i \in Handlers \ {h} : req'[i] = req[i]
    BY <1>1, <2>1
  <2>3. req'[h].pc = pc /\ req'[h].got = req[h].got /\ req'[h].bad = req[h].bad
    BY <2>2, ReqFacts
  <2>4. UNCHANGED site
    BY <1>4 DEF Record
  <2> QED BY <2>1, <2>2, <2>3, <2>4
<1>5. ASSUME NEW s \in Stripes, SkipStripe(h, s)
      PROVE  Kept
  BY <1>1, <1>5, ReqFacts DEF SkipStripe
<1>6. ASSUME NEW s \in Stripes, ExamineStripe(h, s)
      PROVE  Kept
  <2>1. PICK jobs : req' = [req EXCEPT ![h].todo = @ \ {s}, ![h].stripe = s,
                                       ![h].pc = "plan", ![h].jobs = jobs]
    BY <1>6 DEF ExamineStripe
  <2>2. req[h].pc = "scan"
    BY <1>6 DEF ExamineStripe
  <2> QED BY <1>1, <2>1, <2>2, ReqFacts
<1>7. ASSUME NEW x \in Blocks(Sch), StoreBlock(h, x)
      PROVE  Kept
  BY <1>1, <1>7, ReqFacts, SMTT(30) DEF StoreBlock
<1>8. UNCHANGED site
  BY Zenon DEF RequestRepair, Reply, Record, SkipStripe, ExamineStripe, StoreBlock
<1> QED BY <1>2, <1>3, <1>4, <1>5, <1>6, <1>7, <1>8

LEMMA CoordinatorHelped ==
  ASSUME Inv, HelpInv, NEW h \in Handlers, UNCHANGED proxyVars,
         \/ RequestRepair(h) \/ Reply(h) \/ Record(h)
         \/ \E s \in Stripes : SkipStripe(h, s) \/ ExamineStripe(h, s)
         \/ \E x \in Blocks(Sch) : StoreBlock(h, x)
  PROVE  HelpInv'
<1>1. IsHelped(req[h], help[h]) /\ DOMAIN help = Handlers
  BY DEF HelpInv
<1>2. IsHelped(req'[h], help[h])
  BY <1>1, CoordinatorKeeps DEF IsHelped
<1> QED BY <1>1, <1>2, CoordinatorKeeps, HelpedStep

LEMMA StartHelped ==
  ASSUME Inv, HelpInv, NEW h \in Handlers, StartJob(h)
  PROVE  HelpInv'
<1> DEFINE plan == req'[h].plan
<1>1. DOMAIN req = Handlers /\ DOMAIN help = Handlers
  BY ReqFacts DEF HelpInv
<1>2. PICK new : req' = [req EXCEPT ![h].pc = "gather", ![h].jobs = Tail(@),
                                    ![h].got = {}, ![h].bad = {}, ![h].plan = new]
  BY DEF StartJob, PlanJob
<1>3. /\ req'[h].pc = "gather" /\ req'[h].got = {}
      /\ \A i \in Handlers \ {h} : req'[i] = req[i]
  BY <1>1, <1>2, ReqFacts
<1>4. help' = [help EXCEPT ![h] = [a \in Helpers(plan) |-> Fresh]]
  BY DEF StartJob
<1> HIDE DEF plan
<1>5. /\ help'[h] = [a \in Helpers(plan) |-> Fresh] /\ DOMAIN help' = Handlers
      /\ \A i \in Handlers \ {h} : help'[i] = help[i]
  BY <1>1, <1>4
<1>6. HelpTypes(plan, help'[h])
  BY <1>5 DEF HelpTypes, Fresh
<1>7. IsHelped(req'[h], help'[h])
  BY <1>3, <1>6 DEF IsHelped, plan
<1> QED BY <1>3, <1>5, <1>7, HelpedStep

LEMMA ReadHelped ==
  ASSUME Inv, HelpInv, NEW h \in Handlers, NEW x,
         \/ MainRead(h, x)
         \/ \E a \in AzIds : HelpRead(h, a, x)
  PROVE  HelpInv'
<1>1. DOMAIN req = Handlers /\ DOMAIN help = Handlers
  BY ReqFacts DEF HelpInv
<1>2. CASE MainRead(h, x)
  <2>1. /\ req'[h].pc = "gather" /\ req'[h].plan = req[h].plan
        /\ req'[h].got = req[h].got \cup {x} /\ x \in req[h].plan.reads[req[h].plan.main]
        /\ \A i \in Handlers \ {h} : req'[i] = req[i]
    BY <1>1, <1>2, ReqFacts DEF MainRead, ReadBlock, Main, Plan
  <2>2. HelpTypes(req[h].plan, help[h]) /\ req[h].got \subseteq req[h].plan.reads[req[h].plan.main]
    BY <1>2 DEF MainRead, HelpInv, IsHelped
  <2>3. IsHelped(req'[h], help[h])
    BY <2>1, <2>2 DEF IsHelped
  <2> QED BY <1>1, <1>2, <2>1, <2>3, HelpedStep DEF MainRead
<1>3. ASSUME NEW a \in AzIds, HelpRead(h, a, x)
      PROVE  HelpInv'
  <2> DEFINE plan == req[h].plan
             hs == help[h]
             bad == IF Whole(h, x) THEN hs[a].bad ELSE hs[a].bad \cup {x}
             mine == [hs[a] EXCEPT !.got = @ \cup {x}, !.bad = bad]
  <2>1. /\ req[h].pc = "gather" /\ a \in DOMAIN hs /\ x \in plan.reads[a] \ hs[a].got
        /\ help' = [help EXCEPT ![h] = [hs EXCEPT ![a] = mine]] /\ UNCHANGED req
    <3>1. /\ req[h].pc = "gather" /\ a \in DOMAIN hs /\ x \in plan.reads[a] \ hs[a].got
          /\ help' = [help EXCEPT ![h][a].got = @ \cup {x}, ![h][a].bad = bad]
          /\ UNCHANGED req
      BY <1>3 DEF HelpRead, Plan
    <3> HIDE DEF bad
    <3> QED BY <1>1, <3>1
  <2>2. HelpTypes(plan, hs) /\ req[h].got \subseteq plan.reads[plan.main]
    BY <2>1 DEF HelpInv, IsHelped
  <2>3. bad \subseteq hs[a].bad \cup {x}
    OBVIOUS
  <2> HIDE DEF bad
  <2>4. /\ mine \in [sent : BOOLEAN, got : SUBSET plan.reads[a], bad : SUBSET plan.reads[a]]
        /\ mine.bad \subseteq mine.got /\ (mine.sent => mine.got = plan.reads[a])
    BY <2>1, <2>2, <2>3 DEF HelpTypes
  <2> HIDE DEF mine
  <2>5. HelpTypes(plan, [hs EXCEPT ![a] = mine])
    BY <2>1, <2>2, <2>4 DEF HelpTypes
  <2>6. IsHelped(req'[h], help'[h])
    BY <1>1, <2>1, <2>2, <2>5 DEF IsHelped
  <2> QED BY <1>1, <2>1, <2>6, HelpedStep
<1> QED BY <1>2, <1>3

LEMMA SendHelped ==
  ASSUME HelpInv, NEW h \in Handlers, NEW a \in AzIds, HelpSend(h, a)
  PROVE  HelpInv'
<1> DEFINE plan == req[h].plan
           hs == help[h]
           mine == [hs[a] EXCEPT !.sent = TRUE]
<1>1. /\ req[h].pc = "gather" /\ a \in DOMAIN hs /\ hs[a].got = plan.reads[a]
      /\ help' = [help EXCEPT ![h] = [hs EXCEPT ![a] = mine]] /\ UNCHANGED req
  BY DEF HelpSend, Plan
<1>2. /\ HelpTypes(plan, hs) /\ req[h].got \subseteq plan.reads[plan.main]
      /\ DOMAIN help = Handlers
  BY <1>1 DEF HelpInv, IsHelped
<1>3. /\ mine \in [sent : BOOLEAN, got : SUBSET plan.reads[a], bad : SUBSET plan.reads[a]]
      /\ mine.bad \subseteq mine.got /\ mine.got = plan.reads[a]
  BY <1>1, <1>2 DEF HelpTypes
<1> HIDE DEF mine
<1>4. HelpTypes(plan, [hs EXCEPT ![a] = mine])
  BY <1>1, <1>2, <1>3 DEF HelpTypes
<1>5. IsHelped(req'[h], help'[h])
  BY <1>1, <1>2, <1>4 DEF IsHelped
<1> QED BY <1>1, <1>2, <1>5, HelpedStep

LEMMA CombineHelped ==
  ASSUME Inv, HelpInv, NEW h \in Handlers, MainCombine(h)
  PROVE  HelpInv'
<1>1. DOMAIN req = Handlers /\ DOMAIN help = Handlers
  BY ReqFacts DEF HelpInv
<1>2. /\ req'[h].pc = "store" /\ req'[h].got = Reads(h) /\ req'[h].bad = Bad(h)
      /\ \A i \in Handlers \ {h} : req'[i] = req[i]
      /\ At(h, "gather") /\ UNCHANGED help
  BY <1>1, ReqFacts DEF MainCombine, Combined
<1>3. HelpTypes(Plan(h), help[h]) /\ Reads(h) = UNION {Plan(h).reads[a] : a \in DOMAIN Plan(h).reads}
  BY <1>2, GatherFacts
<1>4. \A a \in DOMAIN help[h] : help[h][a].got \subseteq Reads(h) /\ help[h][a].bad \subseteq Bad(h)
  BY <1>3 DEF HelpTypes, Helpers, Bad
<1>5. IsHelped(req'[h], help[h])
  BY <1>2, <1>4 DEF IsHelped
<1> QED BY <1>1, <1>2, <1>5, HelpedStep

LEMMA TransferStep == Inv /\ HelpInv /\ [NextTransfer]_allVars => Inv' /\ HelpInv'
<1> SUFFICES ASSUME Inv, HelpInv, [NextTransfer]_allVars PROVE Inv' /\ HelpInv'
  OBVIOUS
<1>1. CASE UNCHANGED allVars
  BY <1>1, Stuttering DEF HelpInv, Handlers
<1>2. CASE NodeFails
  BY <1>2, Failing DEF NodeFails, Fail, HelpInv, Handlers
<1>3. CASE Request
  BY <1>3, CoordinatorStep, CoordinatorHelped DEF Request
<1>4. ASSUME NEW h \in Handlers, Coordinator(h) PROVE Inv' /\ HelpInv'
  BY <1>4, CoordinatorStep, CoordinatorHelped DEF Coordinator
<1>5. ASSUME NEW h \in Handlers, Proxies(h) PROVE Inv' /\ HelpInv'
  <2>1. CASE StartJob(h)
    BY <2>1, CoordinatorStep, StartHelped DEF StartJob
  <2>2. ASSUME NEW x, MainRead(h, x) PROVE Inv' /\ HelpInv'
    BY <2>2, Reading, ReadHelped DEF MainRead
  <2>3. CASE MainCombine(h)
    <3>1. PICK ok : Combined(h, Bad(h), ok)
      BY <2>3 DEF MainCombine
    <3>2. Bad(h) \in SUBSET Reads(h)
      BY <2>3, GatherFacts DEF MainCombine
    <3>3. Inv'
      BY <2>3, <3>1, <3>2, Combining DEF MainCombine
    <3> QED BY <2>3, <3>3, CombineHelped
  <2>4. ASSUME NEW a \in AzIds, NEW x, HelpRead(h, a, x) PROVE Inv' /\ HelpInv'
    BY <2>4, Stuttering, ReadHelped DEF HelpRead
  <2>5. ASSUME NEW a \in AzIds, HelpSend(h, a) PROVE Inv' /\ HelpInv'
    BY <2>5, Stuttering, SendHelped DEF HelpSend
  <2>6. CASE Accept(h) \/ \E conn \in accepted[h] : Receive(h, conn)
    <3>1. UNCHANGED <<vars, help>>
      BY <2>6 DEF Accept, Receive
    <3> QED BY <3>1, Stuttering DEF HelpInv, Handlers
  <2> QED BY <1>5, <2>1, <2>2, <2>3, <2>4, <2>5, <2>6 DEF Proxies
<1> QED BY <1>1, <1>2, <1>3, <1>4, <1>5 DEF NextTransfer, Work

LEMMA TransferInv == SpecTransfer => [](Inv /\ HelpInv)
<1>1. InitTransfer => Inv /\ HelpInv
  BY InitInv, HelpInit DEF InitTransfer
<1>2. Inv /\ HelpInv /\ [NextTransfer]_allVars => (Inv /\ HelpInv)'
  BY TransferStep
<1> QED BY <1>1, <1>2, PTL DEF SpecTransfer

-----------------------------------------------------------------------------
(* The connections of one call at a time                                   *)

(* What the helper of AZ a sends, and what has been sent.                  *)
Sending(h, a) == [of |-> h, az |-> a, bufs |-> Message(Plan(h), a, Raw(Plan(h).reads[a]))]
SentAll(h) == {Sending(h, a) : a \in {b \in DOMAIN help[h] : help[h][b].sent}}

(* A connection waits with the acceptor of the main proxy or has been      *)
(* accepted, and no other connection is there.                             *)
Queue(q, msgs) ==
  /\ q \in Seq(msgs)
  /\ \A i, j \in 1..Len(q) : q[i] = q[j] => i = j
NoQueue(zs) == \A z \in zs : backlog[z] = <<>>
Connected(h) ==
  /\ received[h] \subseteq accepted[h] /\ accepted[h] \subseteq SentAll(h)
  /\ Queue(backlog[Main(h)], SentAll(h) \ accepted[h])
  /\ NoQueue(AzIds \ {Main(h)})

ConnInv ==
  /\ DOMAIN backlog = AzIds /\ DOMAIN accepted = Handlers /\ DOMAIN received = Handlers
  /\ \A h \in Handlers : At(h, "gather") => Connected(h)
  /\ (\A h \in Handlers : ~At(h, "gather")) => NoQueue(AzIds)

LEMMA ConnInit == InitTransfer => ConnInv
BY DEF InitTransfer, Init, ConnInv, Unused, NoQueue

LEMMA SameSending ==
  ASSUME NEW h, site' = site, Plan(h)' = Plan(h)
  PROVE  \A a : Sending(h, a)' = Sending(h, a)
BY DEF Sending, Message, Sums, Single, Merges, SumRows, AllRows, Rows, Entering, SumOf, Sum,
       Raw, Sch

(* A step that leaves the connections alone.                               *)
LEMMA ConnectionsKept ==
  ASSUME ConnInv, UNCHANGED <<site, backlog, accepted, received>>, NEW h \in Handlers,
         \A i \in Handlers \ {h} : req'[i] = req[i] /\ help'[i] = help[i],
         At(h, "gather")' <=> At(h, "gather"),
         At(h, "gather") => /\ req'[h].plan = req[h].plan /\ DOMAIN help'[h] = DOMAIN help[h]
                            /\ \A a \in DOMAIN help[h] : help'[h][a].sent = help[h][a].sent
  PROVE  ConnInv'
<1>1. Handlers' = Handlers /\ AzIds' = AzIds
  BY DEF Handlers, AzIds
<1>2. \A i \in Handlers : At(i, "gather")' <=> At(i, "gather")
  OBVIOUS
<1>3. ASSUME NEW i \in Handlers, At(i, "gather")'
      PROVE  Connected(i)'
  <2>1. Plan(i)' = Plan(i) /\ Main(i)' = Main(i)
    BY <1>2, <1>3 DEF Plan, Main
  <2>2. SentAll(i)' = SentAll(i)
    <3>1. {b \in DOMAIN help[i] : help[i][b].sent}' = {b \in DOMAIN help[i] : help[i][b].sent}
      BY <1>2, <1>3
    <3> QED BY <2>1, <3>1, SameSending DEF SentAll
  <2>3. Connected(i)
    BY <1>2, <1>3 DEF ConnInv
  <2> QED BY <1>1, <2>1, <2>2, <2>3 DEF Connected, NoQueue
<1> QED BY <1>1, <1>2, <1>3 DEF ConnInv, NoQueue

(* A main proxy that has as many connections as it has helpers has those   *)
(* of all its helpers, and none is left over.                              *)
LEMMA AllArrived ==
  ASSUME Inv, HelpInv, ConnInv, NEW h \in Handlers, At(h, "gather"), Joined(h)
  PROVE  /\ received[h] = {Sending(h, a) : a \in Helpers(Plan(h))}
         /\ \A a \in Helpers(Plan(h)) : help[h][a].got = Plan(h).reads[a]
         /\ NoQueue(AzIds)
<1> DEFINE sent == {b \in DOMAIN help[h] : help[h][b].sent}
           helpers == Helpers(Plan(h))
           f == [a \in sent |-> Sending(h, a)]
<1>1. HelpTypes(Plan(h), help[h]) /\ IsFiniteSet(helpers)
  <2>1. IsFiniteSet(DOMAIN Plan(h).reads)
    BY GatherFacts DEF Divided
  <2> QED BY <2>1, GatherFacts, FS_Subset DEF Helpers
<1>2. Connected(h)
  BY DEF ConnInv
<1>3. sent \in SUBSET helpers /\ DOMAIN help[h] = helpers
  BY <1>1 DEF HelpTypes
<1>4. IsFiniteSet(sent) /\ Cardinality(sent) <= Cardinality(helpers)
      /\ (Cardinality(sent) = Cardinality(helpers) => sent = helpers)
  <2> HIDE DEF sent, helpers
  <2> QED BY <1>1, <1>3, FS_Subset
<1>5. SentAll(h) = {Sending(h, a) : a \in sent}
  BY DEF SentAll
<1>6. IsFiniteSet(SentAll(h)) /\ Cardinality(SentAll(h)) <= Cardinality(sent)
  <2> HIDE DEF sent
  <2>1. f \in Surjection(sent, SentAll(h))
    BY <1>5 DEF Surjection
  <2> QED BY <1>4, <2>1, FS_Surjection
<1>7. accepted[h] \in SUBSET SentAll(h) /\ Cardinality(accepted[h]) = Cardinality(helpers)
  BY <1>2 DEF Connected, Joined, Awaited
<1> HIDE DEF sent, helpers
<1>8. /\ Cardinality(accepted[h]) <= Cardinality(SentAll(h))
      /\ Cardinality(accepted[h]) = Cardinality(SentAll(h)) => accepted[h] = SentAll(h)
  BY <1>6, <1>7, FS_Subset
<1>9. Cardinality(sent) = Cardinality(helpers) /\ accepted[h] = SentAll(h)
  BY <1>1, <1>4, <1>6, <1>7, <1>8, FS_CardinalityType
<1>10. sent = helpers
  BY <1>4, <1>9
<1>11. received[h] = {Sending(h, a) : a \in helpers}
  BY <1>5, <1>9, <1>10 DEF Joined
<1>12. \A a \in helpers : help[h][a].got = Plan(h).reads[a]
  BY <1>1, <1>10 DEF HelpTypes, sent
<1>13. NoQueue(AzIds)
  <2>1. Queue(backlog[Main(h)], {})
    BY <1>2, <1>9 DEF Connected
  <2>2. backlog[Main(h)] = <<>>
    BY <2>1, EmptySeq DEF Queue
  <2> QED BY <1>2, <2>2 DEF Connected, NoQueue
<1> QED BY <1>11, <1>12, <1>13 DEF helpers

LEMMA CoordinatorConn ==
  ASSUME Inv, ConnInv, NEW h \in Handlers, UNCHANGED proxyVars,
         \/ RequestRepair(h) \/ Reply(h) \/ Record(h)
         \/ \E s \in Stripes : SkipStripe(h, s) \/ ExamineStripe(h, s)
         \/ \E x \in Blocks(Sch) : StoreBlock(h, x)
  PROVE  ConnInv'
<1>1. \A i \in Handlers \ {h} : help'[i] = help[i]
  OBVIOUS
<1>2. ~At(h, "gather") /\ ~At(h, "gather")'
  BY CoordinatorKeeps
<1> QED BY <1>1, <1>2, CoordinatorKeeps, ConnectionsKept

(* Only one handler is at work.                                            *)
LEMMA ConnOfOne ==
  ASSUME NEW h \in Handlers, \A i \in Handlers \ {h} : ~At(i, "gather")',
         DOMAIN backlog' = AzIds, DOMAIN accepted' = Handlers, DOMAIN received' = Handlers,
         UNCHANGED site,
         At(h, "gather")' => Connected(h)',
         ~At(h, "gather")' => NoQueue(AzIds)'
  PROVE  ConnInv'
<1>1. Handlers' = Handlers /\ AzIds' = AzIds
  BY DEF Handlers, AzIds
<1> QED BY <1>1 DEF ConnInv

LEMMA StartConn ==
  ASSUME SerialRepair, Inv, Inv', ConnInv, NEW h \in Handlers, StartJob(h)
  PROVE  ConnInv'
<1>1. DOMAIN req = Handlers /\ Handlers' = Handlers /\ AzIds' = AzIds
  BY ReqFacts DEF StartJob, PlanJob, Handlers, AzIds
<1>2. PICK new : req' = [req EXCEPT ![h].pc = "gather", ![h].jobs = Tail(@),
                                    ![h].got = {}, ![h].bad = {}, ![h].plan = new]
  BY DEF StartJob, PlanJob
<1>3. /\ req'[h].pc = "gather" /\ \A i \in Handlers \ {h} : req'[i] = req[i]
  BY <1>1, <1>2, ReqFacts
<1>4. \A i \in Handlers \ {h} : ~At(i, "gather")
  BY DEF StartJob, PlanJob, Inv, OneActive, Active
<1>5. NoQueue(AzIds)
  BY <1>4 DEF ConnInv, StartJob, PlanJob
<1>6. /\ received'[h] = {} /\ accepted'[h] = {} /\ UNCHANGED backlog
      /\ DOMAIN accepted' = Handlers /\ DOMAIN received' = Handlers
  BY DEF StartJob, ConnInv
<1>7. Main(h)' \in AzIds
  BY <1>1, <1>3 DEF Inv, AzInv, Working, GoodPlan, Main, Plan, AzIds
<1>8. Queue(<<>>, SentAll(h)')
  BY EmptySeq DEF Queue
<1>9. backlog'[Main(h)'] = <<>> /\ NoQueue(AzIds \ {Main(h)})'
  BY <1>1, <1>5, <1>6, <1>7 DEF NoQueue
<1>10. Connected(h)'
  BY <1>6, <1>8, <1>9 DEF Connected
<1>11. UNCHANGED site /\ DOMAIN backlog' = AzIds
  BY <1>6 DEF StartJob, PlanJob, ConnInv
<1> QED BY <1>1, <1>3, <1>4, <1>6, <1>10, <1>11, ConnOfOne

LEMMA ReadConn ==
  ASSUME Inv, HelpInv, ConnInv, NEW h \in Handlers, NEW x,
         \/ MainRead(h, x)
         \/ \E a \in AzIds : HelpRead(h, a, x)
  PROVE  ConnInv'
<1>1. DOMAIN req = Handlers /\ DOMAIN help = Handlers
  BY ReqFacts DEF HelpInv
<1>2. CASE MainRead(h, x)
  BY <1>1, <1>2, ReqFacts, ConnectionsKept DEF MainRead, ReadBlock
<1>3. ASSUME NEW a \in AzIds, HelpRead(h, a, x)
      PROVE  ConnInv'
  <2> DEFINE hs == help[h]
             bad == IF Whole(h, x) THEN hs[a].bad ELSE hs[a].bad \cup {x}
  <2>1. /\ At(h, "gather") /\ a \in DOMAIN hs
        /\ help' = [help EXCEPT ![h][a].got = @ \cup {x}, ![h][a].bad = bad]
        /\ UNCHANGED <<site, req, backlog, accepted, received>>
    BY <1>3 DEF HelpRead
  <2> HIDE DEF bad
  <2>2. HelpTypes(req[h].plan, hs)
    BY <2>1 DEF HelpInv, IsHelped
  <2>3. /\ \A i \in Handlers \ {h} : help'[i] = help[i]
        /\ DOMAIN help'[h] = DOMAIN hs
        /\ \A b \in DOMAIN hs : help'[h][b].sent = hs[b].sent
    BY <1>1, <2>1, <2>2 DEF HelpTypes
  <2> QED BY <2>1, <2>3, ConnectionsKept
<1> QED BY <1>2, <1>3

LEMMA SendConn ==
  ASSUME SerialRepair, Inv, HelpInv, ConnInv, NEW h \in Handlers, NEW a \in AzIds, HelpSend(h, a)
  PROVE  ConnInv'
<1> DEFINE hs == help[h]
           sent == {b \in DOMAIN hs : hs[b].sent}
           m == Sending(h, a)
           q == backlog[Main(h)]
           rest == SentAll(h) \ accepted[h]
<1>1. /\ At(h, "gather") /\ a \in DOMAIN hs /\ ~hs[a].sent /\ hs[a].got = Plan(h).reads[a]
      /\ help' = [help EXCEPT ![h][a].sent = TRUE]
      /\ UNCHANGED <<site, req, accepted, received>>
  BY DEF HelpSend
<1>2. backlog' = [backlog EXCEPT ![Main(h)] = Append(q, m)]
  BY <1>1 DEF HelpSend, Sending
<1>3. Main(h) \in AzIds /\ HelpTypes(Plan(h), hs) /\ DOMAIN help = Handlers
  BY <1>1, GatherFacts DEF GoodPlan, Main, AzIds, HelpInv
<1>4. {b \in DOMAIN help[h] : help[h][b].sent}' = sent \cup {a}
  BY <1>1, <1>3 DEF HelpTypes
<1>5. Plan(h)' = Plan(h) /\ Main(h)' = Main(h) /\ AzIds' = AzIds
  BY <1>1 DEF Plan, Main, AzIds
<1>6. SentAll(h)' = SentAll(h) \cup {m}
  BY <1>1, <1>4, <1>5, SameSending DEF SentAll
<1>7. Connected(h)
  BY <1>1 DEF ConnInv
<1>8. m \notin SentAll(h)
  <2>1. \A b \in sent : Sending(h, b).az = b /\ b # a
    BY <1>1 DEF Sending
  <2>2. m.az = a
    BY DEF Sending
  <2> QED BY <2>1, <2>2 DEF SentAll
<1>9. /\ backlog'[Main(h)] = Append(q, m) /\ DOMAIN backlog' = AzIds
      /\ \A z \in AzIds \ {Main(h)} : backlog'[z] = backlog[z]
  BY <1>2, <1>3 DEF ConnInv
<1>10. Queue(Append(q, m), rest \cup {m})
  <2>1. Queue(q, rest) /\ m \notin rest
    BY <1>7, <1>8 DEF Connected
  <2> HIDE DEF q, m, rest
  <2>2. q \in Seq(rest \cup {m})
    BY <2>1, SeqMonotonic DEF Queue
  <2>3. /\ Append(q, m) \in Seq(rest \cup {m}) /\ Len(q) \in Nat
        /\ Len(Append(q, m)) = Len(q) + 1
        /\ \A i \in 1..Len(q) : Append(q, m)[i] = q[i] /\ q[i] \in rest
        /\ Append(q, m)[Len(q) + 1] = m
    BY <2>1, <2>2, AppendProperties, LenProperties DEF Queue
  <2> QED BY <2>1, <2>3 DEF Queue
<1>11. rest \cup {m} = SentAll(h)' \ accepted'[h]
  BY <1>1, <1>6, <1>7, <1>8 DEF Connected
<1> HIDE DEF m, q, rest
<1>12. Queue(backlog'[Main(h)'], SentAll(h)' \ accepted'[h])
  BY <1>5, <1>9, <1>10, <1>11
<1>13. NoQueue(AzIds \ {Main(h)})'
  BY <1>5, <1>7, <1>9 DEF NoQueue, Connected
<1>14. Connected(h)'
  BY <1>1, <1>6, <1>7, <1>12, <1>13 DEF Connected
<1>15. \A i \in Handlers \ {h} : ~At(i, "gather")'
  BY <1>1 DEF Inv, OneActive, Active
<1> QED BY <1>1, <1>9, <1>14, <1>15, ConnOfOne DEF ConnInv

LEMMA AcceptConn ==
  ASSUME SerialRepair, Inv, ConnInv, NEW h \in Handlers, Accept(h)
  PROVE  ConnInv'
<1> DEFINE q == backlog[Main(h)]
           c == Head(q)
           rest == SentAll(h) \ accepted[h]
<1>1. /\ At(h, "gather") /\ q # <<>>
      /\ accepted' = [accepted EXCEPT ![h] = @ \cup {c}]
      /\ backlog' = [backlog EXCEPT ![Main(h)] = Tail(q)]
      /\ UNCHANGED <<site, req, help, received>>
  BY DEF Accept
<1>2. Main(h) \in AzIds
  BY <1>1, ReqFacts, WorkingFacts DEF Working, GoodPlan, Main, Plan, AzIds
<1>3. Plan(h)' = Plan(h) /\ Main(h)' = Main(h) /\ AzIds' = AzIds
  BY <1>1 DEF Plan, Main, AzIds
<1>4. SentAll(h)' = SentAll(h)
  BY <1>1, <1>3, SameSending DEF SentAll
<1>5. Connected(h)
  BY <1>1 DEF ConnInv
<1>6. /\ backlog'[Main(h)] = Tail(q) /\ DOMAIN backlog' = AzIds
      /\ \A z \in AzIds \ {Main(h)} : backlog'[z] = backlog[z]
      /\ accepted'[h] = accepted[h] \cup {c} /\ DOMAIN accepted' = Handlers
  BY <1>1, <1>2 DEF ConnInv
<1>7. c \in rest /\ Queue(Tail(q), rest \ {c})
  <2>1. Queue(q, rest)
    BY <1>5 DEF Connected
  <2> HIDE DEF q, rest
  <2>2. /\ q \in Seq(rest) /\ q # <<>>
        /\ Head(q) \in rest /\ Tail(q) \in Seq(rest) /\ Len(Tail(q)) = Len(q) - 1
        /\ Head(q) = q[1] /\ \A i \in 1..Len(Tail(q)) : Tail(q)[i] = q[i + 1]
        /\ Len(q) \in Nat /\ Len(q) > 0
    BY <1>1, <2>1, HeadTailProperties, LenProperties, EmptySeq DEF Queue
  <2>3. /\ \A i \in 1..Len(Tail(q)) : Tail(q)[i] = q[i + 1] /\ i + 1 \in 1..Len(q)
        /\ 1 \in 1..Len(q) /\ Len(Tail(q)) \in Nat
    BY <2>2
  <2>4. \A i, j \in 1..Len(Tail(q)) : Tail(q)[i] = Tail(q)[j] => i = j
    <3> SUFFICES ASSUME NEW i \in 1..Len(Tail(q)), NEW j \in 1..Len(Tail(q)), Tail(q)[i] = Tail(q)[j]
                 PROVE  i = j
      OBVIOUS
    <3>1. i + 1 = j + 1
      BY <2>1, <2>3 DEF Queue
    <3> QED BY <3>1, <2>3
  <2>5. \A i \in 1..Len(Tail(q)) : Tail(q)[i] \in rest \ {c}
    <3> SUFFICES ASSUME NEW i \in 1..Len(Tail(q)), Tail(q)[i] = c PROVE FALSE
      BY <2>2, ElementOfSeq
    <3>1. i + 1 = 1
      BY <2>1, <2>2, <2>3 DEF Queue
    <3> QED BY <3>1, <2>3
  <2>6. Tail(q) \in Seq(rest \ {c})
    <3> HIDE DEF c
    <3>1. Range(Tail(q)) \subseteq rest \ {c}
      BY <2>2, <2>5, LenProperties DEF Range
    <3>2. Tail(q) \in Seq(Range(Tail(q)))
      BY <2>2, SeqOfRange
    <3> QED BY <3>1, <3>2, SeqMonotonic
  <2> QED BY <2>2, <2>4, <2>6 DEF Queue
<1>8. SentAll(h)' \ accepted'[h] = rest \ {c} /\ accepted'[h] \subseteq SentAll(h)'
  BY <1>4, <1>5, <1>6, <1>7 DEF Connected
<1> HIDE DEF q, rest, c
<1>9. Queue(backlog'[Main(h)'], SentAll(h)' \ accepted'[h])
  BY <1>3, <1>6, <1>7, <1>8
<1>10. NoQueue(AzIds \ {Main(h)})'
  BY <1>3, <1>5, <1>6 DEF NoQueue, Connected
<1>11. Connected(h)'
  BY <1>1, <1>5, <1>6, <1>8, <1>9, <1>10 DEF Connected
<1>12. \A i \in Handlers \ {h} : ~At(i, "gather")'
  BY <1>1 DEF Inv, OneActive, Active
<1> QED BY <1>1, <1>6, <1>11, <1>12, ConnOfOne DEF ConnInv

LEMMA ReceiveConn ==
  ASSUME SerialRepair, Inv, ConnInv, NEW h \in Handlers, NEW conn, Receive(h, conn)
  PROVE  ConnInv'
<1>1. /\ At(h, "gather") /\ conn \in accepted[h]
      /\ received' = [received EXCEPT ![h] = @ \cup {conn}]
      /\ UNCHANGED <<site, req, help, backlog, accepted>>
  BY DEF Receive
<1>2. Plan(h)' = Plan(h) /\ Main(h)' = Main(h) /\ AzIds' = AzIds
  BY <1>1 DEF Plan, Main, AzIds
<1>3. SentAll(h)' = SentAll(h)
  BY <1>1, <1>2, SameSending DEF SentAll
<1>4. Connected(h)
  BY <1>1 DEF ConnInv
<1>5. received'[h] = received[h] \cup {conn} /\ DOMAIN received' = Handlers
  BY <1>1 DEF ConnInv
<1>6. Connected(h)'
  BY <1>1, <1>2, <1>3, <1>4, <1>5 DEF Connected, NoQueue
<1>7. \A i \in Handlers \ {h} : ~At(i, "gather")'
  BY <1>1 DEF Inv, OneActive, Active
<1> QED BY <1>1, <1>5, <1>6, <1>7, ConnOfOne DEF ConnInv

LEMMA CombineConn ==
  ASSUME SerialRepair, Inv, HelpInv, ConnInv, NEW h \in Handlers, MainCombine(h)
  PROVE  ConnInv'
<1>1. DOMAIN req = Handlers
  BY ReqFacts
<1>2. /\ req'[h].pc = "store" /\ \A i \in Handlers \ {h} : req'[i] = req[i]
      /\ At(h, "gather") /\ Joined(h) /\ UNCHANGED <<site, proxyVars>>
  BY <1>1, ReqFacts DEF MainCombine, Combined
<1>3. NoQueue(AzIds)
  BY <1>2, AllArrived
<1>4. NoQueue(AzIds)'
  BY <1>2, <1>3 DEF NoQueue, AzIds
<1>5. \A i \in Handlers \ {h} : ~At(i, "gather")'
  BY <1>2 DEF Inv, OneActive, Active
<1> QED BY <1>2, <1>4, <1>5, ConnOfOne DEF ConnInv

LEMMA ConnStep ==
  ASSUME SerialRepair, Inv, HelpInv, ConnInv, Inv', [NextTransfer]_allVars
  PROVE  ConnInv'
<1>1. CASE UNCHANGED <<site, req, help, backlog, accepted, received>>
  <2>1. Handlers' = Handlers /\ AzIds' = AzIds
    BY <1>1 DEF Handlers, AzIds
  <2>2. CASE \E h \in Handlers : TRUE
    BY <1>1, <2>2, ConnectionsKept
  <2>3. CASE Handlers = {}
    BY <1>1, <2>1, <2>3 DEF ConnInv, NoQueue
  <2> QED BY <2>2, <2>3
<1>2. CASE NodeFails
  BY <1>1, <1>2 DEF NodeFails, Fail
<1>3. CASE Request
  BY <1>3, CoordinatorConn DEF Request
<1>4. ASSUME NEW h \in Handlers, Coordinator(h) PROVE ConnInv'
  BY <1>4, CoordinatorConn DEF Coordinator
<1>5. ASSUME NEW h \in Handlers, Proxies(h) PROVE ConnInv'
  BY <1>5, StartConn, ReadConn, SendConn, AcceptConn, ReceiveConn, CombineConn DEF Proxies
<1> QED BY <1>1, <1>2, <1>3, <1>4, <1>5 DEF NextTransfer, Work

LEMMA ConnectionInv ==
  ASSUME SerialRepair PROVE SpecTransfer => [](Inv /\ HelpInv /\ ConnInv)
<1> DEFINE All == Inv /\ HelpInv /\ ConnInv
<1>1. InitTransfer => All
  BY InitInv, HelpInit, ConnInit DEF InitTransfer
<1>2. All /\ [NextTransfer]_allVars => All'
  BY TransferStep, ConnStep
<1>3. QED
  BY <1>1, <1>2, PTL DEF SpecTransfer

(***************************************************************************)
(* With the reads of a job spread over proxies that finish in any order,   *)
(* the coordinator's tables still name only nodes that hold the block, and *)
(* the blocks lost with the failed nodes can be decoded (requestRepair).   *)
(***************************************************************************)
THEOREM TransferSafe == SpecTransfer => [](RecordedIsHeld /\ StaysTolerant)
<1>1. Inv => RecordedIsHeld /\ StaysTolerant
  BY InvIsTolerant DEF Inv
<1> QED BY <1>1, TransferInv, PTL

(* One call of requestRepair at a time leaves every record well-formed, a  *)
(* place to write for every block it rebuilds, and no two blocks of a      *)
(* stripe on one datanode (do_repair, mainRepair, helpRepair).             *)
THEOREM TransferSerial ==
  ASSUME SerialRepair PROVE SpecTransfer => [](TypeOK /\ OwnNodes)
<1>1. Inv => TypeOK /\ OwnNodes
  BY InvIsTyped DEF Inv
<1> QED BY <1>1, TransferInv, PTL

-----------------------------------------------------------------------------
(* Sums                                                                    *)

(* The sum of buffers no two of which share a block is all their blocks.   *)
LEMMA DisjointSum ==
  ASSUME NEW terms, \A s, t \in terms : s # t => s[2] \cap t[2] = {}
  PROVE  Sum(terms) = UNION {t[2] : t \in terms}
<1> SUFFICES ASSUME NEW t \in terms, NEW x \in t[2]
             PROVE  Cardinality({s \in terms : x \in s[2]}) % 2 = 1
  BY DEF Sum
<1>1. {s \in terms : x \in s[2]} = {t}
  OBVIOUS
<1>2. Cardinality({t}) = 1
  BY FS_Singleton
<1>3. Cardinality({s \in terms : x \in s[2]}) = 1
  BY <1>1, <1>2
<1>4. \A n : n = 1 => n % 2 = 1
  OBVIOUS
<1> QED BY <1>3, <1>4

(* The blocks read sum up to themselves, all of them or some.              *)
LEMMA SumOfRaw ==
  ASSUME NEW got, NEW xs
  PROVE  /\ SumOf(Raw(got), xs) = got \cap xs
         /\ DOMAIN Raw(got) = got
<1> DEFINE terms == {<<i, Raw(got)[i]>> : i \in DOMAIN Raw(got) \cap xs}
<1>1. DOMAIN Raw(got) = got /\ \A i \in got : Raw(got)[i] = {i}
  BY DEF Raw
<1>2. terms = {<<i, {i}>> : i \in got \cap xs}
  BY <1>1
<1>3. \A s, t \in terms : s # t => s[2] \cap t[2] = {}
  BY <1>2
<1>4. UNION {t[2] : t \in terms} = got \cap xs
  <2>1. \A t \in terms : \E i \in got \cap xs : t[2] = {i}
    BY <1>2
  <2>2. \A i \in got \cap xs : <<i, {i}>> \in terms /\ <<i, {i}>>[2] = {i}
    BY <1>2
  <2> HIDE DEF terms
  <2>3. \A x : (\E t \in terms : x \in t[2]) <=> x \in got \cap xs
    BY <2>1, <2>2
  <2> QED BY <2>3
<1>5. Sum(terms) = got \cap xs
  <2> HIDE DEF terms
  <2> QED BY <1>3, <1>4, DisjointSum
<1> QED BY <1>1, <1>5 DEF SumOf

(* One buffer sums up to itself.                                           *)
LEMMA SumOfOne ==
  ASSUME NEW i, NEW B
  PROVE  SumOf([x \in {i} |-> B], {i}) = B
<1> DEFINE terms == {<<j, [x \in {i} |-> B][j]>> : j \in DOMAIN [x \in {i} |-> B] \cap {i}}
<1>1. terms = {<<i, B>>}
  OBVIOUS
<1>2. Sum(terms) = UNION {t[2] : t \in terms}
  <2>1. \A s, t \in terms : s # t => s[2] \cap t[2] = {}
    BY <1>1
  <2> HIDE DEF terms
  <2> QED BY <2>1, DisjointSum
<1>3. UNION {t[2] : t \in terms} = B
  <2>1. \A t : t \in terms <=> t = <<i, B>>
    BY <1>1
  <2> HIDE DEF terms
  <2>2. \A x : (\E t \in terms : x \in t[2]) <=> x \in B
    <3>1. <<i, B>>[2] = B
      OBVIOUS
    <3> QED BY <2>1, <3>1
  <2> QED BY <2>2
<1> QED BY <1>2, <1>3 DEF SumOf

(* What the AZs contribute, each its own share of a set of blocks, sums up *)
(* to all of these blocks.                                                 *)
LEMMA SumOfShares ==
  ASSUME NEW reads, NEW xs, NEW terms,
         \A a, b \in DOMAIN reads : a # b => reads[a] \cap reads[b] = {},
         terms = {<<a, reads[a] \cap xs>> : a \in DOMAIN reads}
  PROVE  Sum(terms) = (UNION {reads[a] : a \in DOMAIN reads}) \cap xs
<1>1. \A s, t \in terms : s # t => s[2] \cap t[2] = {}
  OBVIOUS
<1>2. UNION {t[2] : t \in terms} = (UNION {reads[a] : a \in DOMAIN reads}) \cap xs
  <2>1. \A t \in terms : \E a \in DOMAIN reads : t[2] = reads[a] \cap xs
    OBVIOUS
  <2>2. \A a \in DOMAIN reads : \E t \in terms : t[2] = reads[a] \cap xs
    <3>1. \A a \in DOMAIN reads : /\ <<a, reads[a] \cap xs>> \in terms
                                  /\ <<a, reads[a] \cap xs>>[2] = reads[a] \cap xs
      OBVIOUS
    <3> QED BY <3>1
  <2>3. \A x : (\E t \in terms : x \in t[2]) <=> (\E a \in DOMAIN reads : x \in reads[a] /\ x \in xs)
    BY <2>1, <2>2
  <2> QED BY <2>3
<1> QED BY <1>1, <1>2, DisjointSum

-----------------------------------------------------------------------------
(* What the main proxy has when its threads are joined                     *)

(* A part of it for every AZ, with the blocks of that AZ.                  *)
LEMMA PartsOfJob ==
  ASSUME Inv, HelpInv, ConnInv, NEW h \in Handlers, At(h, "gather"), Joined(h)
  PROVE  /\ \A c \in Parts(h) : c = Own(h) \/ \E a \in Helpers(Plan(h)) : c = Sending(h, a)
         /\ Own(h) \in Parts(h) /\ \A a \in Helpers(Plan(h)) : Sending(h, a) \in Parts(h)
         /\ Own(h) = [of |-> h, az |-> Main(h), bufs |-> Raw(Plan(h).reads[Main(h)])]
         /\ Main(h) \in DOMAIN Plan(h).reads
         /\ DOMAIN Plan(h).reads = Helpers(Plan(h)) \cup {Main(h)} /\ Main(h) \notin Helpers(Plan(h))
<1>1. received[h] = {Sending(h, a) : a \in Helpers(Plan(h))}
  BY AllArrived
<1>2. req[h].got = Plan(h).reads[Main(h)]
  BY DEF Joined
<1>3. Main(h) \in DOMAIN Plan(h).reads
  BY GatherFacts DEF Divided
<1> QED BY <1>1, <1>2, <1>3 DEF Parts, Own, Helpers, Main

(* The buffer of one block, of a row of partial sums.                      *)
LEMMA SentSums ==
  ASSUME NEW plan, NEW a, NEW got
  PROVE  /\ ~Sums(plan, a) => Message(plan, a, Raw(got)) = Raw(got)
         /\ Sums(plan, a) /\ Single(plan) =>
              SumOf(Message(plan, a, Raw(got)), DOMAIN Message(plan, a, Raw(got))) = got
         /\ Sums(plan, a) /\ ~Single(plan) =>
              \A t \in AllRows(plan) : Message(plan, a, Raw(got))[t] = got \cap Entering(t)
<1>1. SumOf(Raw(got), DOMAIN Raw(got)) = got
  BY SumOfRaw
<1>2. CASE Sums(plan, a) /\ Single(plan)
  <2>1. Message(plan, a, Raw(got)) = [x \in {-1} |-> got]
    BY <1>1, <1>2 DEF Message
  <2> QED BY <1>2, <2>1, SumOfOne
<1>3. CASE Sums(plan, a) /\ ~Single(plan)
  <2>1. Message(plan, a, Raw(got)) = [t \in AllRows(plan) |-> SumOf(Raw(got), Entering(t))]
    BY <1>3 DEF Message, SumRows
  <2> QED BY <1>3, <2>1, SumOfRaw
<1>4. CASE ~Sums(plan, a)
  BY <1>4 DEF Message
<1> QED BY <1>2, <1>3, <1>4

(* The parts make the job complete: whatever partial sums the AZs send,    *)
(* the main proxy gets every block to be read in every equation, once.     *)
LEMMA JoinedIsComplete ==
  ASSUME Inv, HelpInv, ConnInv, NEW h \in Handlers, At(h, "gather"), Joined(h)
  PROVE  Complete(h)
<1> DEFINE plan == Plan(h)
           reads == plan.reads
           main == Main(h)
           part(a) == IF a = main THEN Own(h) ELSE Sending(h, a)
<1>1. /\ Parts(h) = {part(a) : a \in DOMAIN reads}
      /\ \A a \in DOMAIN reads : part(a).of = h /\ part(a).az = a
      /\ \A a \in DOMAIN reads :
           part(a).bufs = IF a = main THEN Raw(reads[a]) ELSE Message(plan, a, Raw(reads[a]))
  BY PartsOfJob DEF Sending
<1>2. /\ \A a, b \in DOMAIN reads : a # b => reads[a] \cap reads[b] = {}
      /\ Reads(h) = UNION {reads[a] : a \in DOMAIN reads}
  BY GatherFacts DEF Divided
<1>3. \A c \in Parts(h) : c.of = h
  BY <1>1
<1> HIDE DEF part
<1>4. ASSUME Single(plan) PROVE SingleSum(h) = Reads(h)
  <2> DEFINE terms == {<<c.az, SumOf(c.bufs, DOMAIN c.bufs)>> : c \in Parts(h)}
             xs == Reads(h)
  <2>1. ASSUME NEW a \in DOMAIN reads
        PROVE  SumOf(part(a).bufs, DOMAIN part(a).bufs) = reads[a]
    <3>1. SumOf(Raw(reads[a]), DOMAIN Raw(reads[a])) = reads[a]
      BY SumOfRaw
    <3>2. CASE part(a).bufs = Raw(reads[a])
      BY <3>1, <3>2
    <3>3. CASE part(a).bufs = Message(plan, a, Raw(reads[a])) /\ Sums(plan, a)
      BY <1>4, <3>3, SentSums
    <3> QED BY <1>1, <3>2, <3>3, SentSums
  <2>2. terms = {<<part(a).az, SumOf(part(a).bufs, DOMAIN part(a).bufs)>> : a \in DOMAIN reads}
    BY <1>1
  <2>3. terms = {<<a, reads[a] \cap xs>> : a \in DOMAIN reads}
    <3>1. \A a \in DOMAIN reads : reads[a] \cap xs = reads[a]
      BY <1>2
    <3>2. \A a \in DOMAIN reads :
            <<part(a).az, SumOf(part(a).bufs, DOMAIN part(a).bufs)>> = <<a, reads[a] \cap xs>>
      BY <1>1, <2>1, <3>1
    <3> HIDE DEF terms, xs
    <3> QED BY <2>2, <3>2, ZenonT(60)
  <2>4. Sum(terms) = (UNION {reads[a] : a \in DOMAIN reads}) \cap xs
    <3> HIDE DEF terms, xs
    <3> QED BY <1>2, <2>3, SumOfShares
  <2> QED BY <1>2, <2>4 DEF SingleSum
<1>5. ASSUME ~Single(plan), NEW t \in AllRows(plan)
      PROVE  RightSide(h, t) = Reads(h) \cap Entering(t)
  <2> DEFINE terms == {<<c.az, Given(plan, c, t)>> : c \in Parts(h)}
             xs == Entering(t)
  <2>1. ASSUME NEW a \in DOMAIN reads
        PROVE  Given(plan, part(a), t) = reads[a] \cap xs
    <3>1. CASE a = main
      BY <1>1, <3>1, SumOfRaw DEF Given, Main
    <3>2. CASE a # main /\ Sums(plan, a)
      BY <1>1, <1>5, <3>2, SentSums DEF Given, Main
    <3>3. CASE a # main /\ ~Sums(plan, a)
      BY <1>1, <3>3, SentSums, SumOfRaw DEF Given
    <3> QED BY <3>1, <3>2, <3>3
  <2>2. terms = {<<part(a).az, Given(plan, part(a), t)>> : a \in DOMAIN reads}
    BY <1>1
  <2>3. terms = {<<a, reads[a] \cap xs>> : a \in DOMAIN reads}
    BY <1>1, <2>1, <2>2
  <2>4. Sum(terms) = (UNION {reads[a] : a \in DOMAIN reads}) \cap xs
    <3> HIDE DEF terms, xs
    <3> QED BY <1>2, <2>3, SumOfShares
  <2> QED BY <1>2, <2>4 DEF RightSide
<1>6. ASSUME ~site.partial PROVE BlocksAtMain(h) = Reads(h)
  <2>1. ASSUME NEW a \in DOMAIN reads
        PROVE  DOMAIN part(a).bufs = reads[a]
    <3>1. part(a).bufs = Raw(reads[a])
      BY <1>1, <1>6, SentSums DEF Sums
    <3> QED BY <3>1, SumOfRaw
  <2>2. BlocksAtMain(h) = UNION {DOMAIN part(a).bufs : a \in DOMAIN reads}
    BY <1>1 DEF BlocksAtMain
  <2> QED BY <1>2, <2>1, <2>2
<1> QED BY <1>3, <1>4, <1>5, <1>6 DEF Complete

(***************************************************************************)
(* A main proxy that goes on has, in every equation it solves, the sum of  *)
(* exactly the blocks that were to be read, and nothing of another repair, *)
(* in whatever order the helpers connect and whichever of them sum up      *)
(* before they send (mainRepair, helpRepair).                              *)
(***************************************************************************)
THEOREM SumsComplete ==
  ASSUME SerialRepair
  PROVE  SpecTransfer =>
           [](\A h \in Handlers : At(h, "gather") /\ Joined(h) => Complete(h))
<1>1. Inv /\ HelpInv /\ ConnInv => \A h \in Handlers : At(h, "gather") /\ Joined(h) => Complete(h)
  BY JoinedIsComplete
<1> QED BY <1>1, ConnectionInv, PTL

-----------------------------------------------------------------------------
(* Repaired stripes are whole                                              *)

LEMMA WholeTransferStep ==
  ASSUME SerialRepair, Inv, HelpInv, ConnInv, WholeInv, Inv', [NextTransfer]_allVars
  PROVE  WholeInv' /\ Writes /\ Replies
<1>1. CASE UNCHANGED vars
  BY <1>1, WholeFail DEF Writes, Replies
<1>2. CASE NodeFails
  BY <1>2, WholeFail DEF NodeFails, Fail, Writes, Replies
<1>3. CASE Request
  BY <1>3, WholeCoordinator, CoordinatorReplies DEF Request
<1>4. ASSUME NEW h \in Handlers, Coordinator(h) PROVE WholeInv' /\ Writes /\ Replies
  BY <1>4, WholeCoordinator, CoordinatorReplies DEF Coordinator
<1>5. ASSUME NEW h \in Handlers, Proxies(h) PROVE WholeInv' /\ Writes /\ Replies
  <2>1. CASE StartJob(h)
    BY <2>1, WholeCoordinator, CoordinatorReplies DEF StartJob
  <2>2. ASSUME NEW x \in Blocks(Sch), MainRead(h, x) PROVE WholeInv' /\ Writes /\ Replies
    BY <2>2, WholeCoordinator, CoordinatorReplies DEF MainRead
  <2>3. CASE MainCombine(h)
    <3>1. Complete(h) /\ At(h, "gather")
      BY <2>3, JoinedIsComplete DEF MainCombine
    <3>2. PICK ok \in Outcomes(Sch, req[h].plan.lost, site.partial, Reads(h), Bad(h)) :
            Combined(h, Bad(h), ok)
      BY <2>3, <3>1 DEF MainCombine, Plan
    <3>3. UNCHANGED <<nodeVars, memVars, tableVars>>
      BY <2>3 DEF MainCombine
    <3>4. WholeInv'
      BY <3>1, <3>2, <3>3, WholeCombine
    <3> QED BY <3>2, <3>3, <3>4, CoordinatorReplies
  <2>4. CASE UNCHANGED vars
    BY <1>1, <2>4
  <2> QED BY <1>5, <2>1, <2>2, <2>3, <2>4 DEF Proxies, HelpRead, HelpSend, Accept, Receive
<1> QED BY <1>1, <1>2, <1>3, <1>4, <1>5 DEF NextTransfer, Work

LEMMA WholeTransfer ==
  ASSUME SerialRepair
  PROVE  SpecTransfer => [](Inv /\ HelpInv /\ ConnInv /\ WholeInv)
<1> DEFINE All == Inv /\ HelpInv /\ ConnInv
<1>1. InitTransfer => WholeInv
  BY WholeInit DEF InitTransfer
<1>2. All /\ All' /\ WholeInv /\ [NextTransfer]_allVars => WholeInv'
  BY WholeTransferStep
<1> QED BY <1>1, <1>2, ConnectionInv, PTL DEF SpecTransfer

(***************************************************************************)
(* Repair writes junk only for a loss it is not made for, or when a block  *)
(* it read was not there or junk itself: the blocks and the rows the plan  *)
(* names are enough, whichever of several jobs of a stripe was done before *)
(* and however the proxies divided the work (requestRepair, do_repair,     *)
(* mainRepair, helpRepair).                                                *)
(***************************************************************************)
THEOREM TransferWritesWhole ==
  ASSUME SerialRepair PROVE SpecTransfer => WritesWhole
<1>1. Inv /\ HelpInv /\ ConnInv /\ WholeInv /\ Inv' /\ [NextTransfer]_allVars => Writes
  BY WholeTransferStep
<1> QED BY <1>1, WholeTransfer, PTL DEF SpecTransfer, WritesWhole, Writes

(***************************************************************************)
(* When requestRepair returns, every block of every stripe the repair is   *)
(* made for has moved off the nodes the call was told of: no stripe of the *)
(* failed nodes is missed, no block of a stripe left out of its jobs, and  *)
(* none moved to a node that fails as well.                                *)
(***************************************************************************)
THEOREM TransferRestores ==
  ASSUME SerialRepair PROVE SpecTransfer => Restored
<1>1. Inv /\ HelpInv /\ ConnInv /\ WholeInv /\ Inv' /\ [NextTransfer]_allVars => Replies
  BY WholeTransferStep
<1> QED BY <1>1, WholeTransfer, PTL DEF SpecTransfer, Restored, Replies

-----------------------------------------------------------------------------
(* The operators Repair takes from other modules are the same under        *)
(* Coarse: no variable that is substituted occurs in them.                 *)

LEMMA SameBlocks ==
  /\ \A sch : Coarse!Blocks(sch) = Blocks(sch)
  /\ \A s : Coarse!NodesOf(s) = NodesOf(s)
  /\ \A f : Coarse!Range(f) = Range(f)
  /\ \A at, list : Coarse!FailedOf(at, list) = FailedOf(at, list)
  /\ Coarse!Handlers = Handlers
BY DEF Coarse!Blocks, Blocks, Coarse!Size, Size, Coarse!NodesOf, NodesOf, Coarse!Range, Range,
       Coarse!FailedOf, FailedOf, Coarse!Handlers, Handlers

LEMMA SameGivenUp == \A sch, lost : Coarse!GivenUp(sch, lost) = GivenUp(sch, lost)
<1> USE DEF Coarse!Cardinality, Cardinality, Coarse!Members, Members, Coarse!DataOf, DataOf,
            Coarse!LocalOf, LocalOf, Coarse!Globals, Globals, Coarse!GlobalsOf, GlobalsOf,
            Coarse!DealtBefore, DealtBefore, Coarse!Dealt, Dealt, Coarse!Groups, Groups,
            Coarse!Blocks, Blocks, Coarse!Size, Size, Coarse!Counted, Counted,
            Coarse!Surviving, Surviving, Coarse!Touched, Touched,
            Coarse!Recoverable, Recoverable
<1>1. \A sch, lost : Coarse!SeemsDecodable(sch, lost) = SeemsDecodable(sch, lost)
  BY DEF Coarse!SeemsDecodable, SeemsDecodable
<1>2. \A sch, lost : Coarse!Surviving(sch, lost) = Surviving(sch, lost)
  OBVIOUS
<1> QED
  <2> HIDE DEF Surviving, Coarse!Surviving
  <2> QED BY <1>1, <1>2 DEF Coarse!GivenUp, GivenUp

LEMMA SameRecoverable ==
  /\ \A sch, lost : Coarse!Recoverable(sch, lost) = Recoverable(sch, lost)
  /\ \A sch : Coarse!Blocks(sch) = Blocks(sch)
BY DEF Coarse!Cardinality, Cardinality, Coarse!Members, Members, Coarse!DataOf, DataOf,
       Coarse!LocalOf, LocalOf, Coarse!Globals, Globals, Coarse!GlobalsOf, GlobalsOf,
       Coarse!DealtBefore, DealtBefore, Coarse!Dealt, Dealt, Coarse!Groups, Groups,
       Coarse!Blocks, Blocks, Coarse!Size, Size, Coarse!Touched, Touched,
       Coarse!Recoverable, Recoverable

LEMMA SameJobs ==
  /\ \A S : Coarse!SetToSeqs(S) = SetToSeqs(S)
  /\ \A sch, at, lost : Coarse!Alone(sch, at, lost) = Alone(sch, at, lost)
  /\ \A sch, at, lost : Coarse!Shared(sch, at, lost) = Shared(sch, at, lost)
  /\ \A sch, at, lost, alone, shared :
       Coarse!JobsOf(sch, at, lost, alone, shared) = JobsOf(sch, at, lost, alone, shared)
<1> USE DEF Coarse!Cardinality, Cardinality, Coarse!AzsOf, AzsOf, Coarse!AzOf, AzOf,
            Coarse!InAz, InAz, Coarse!Alone, Alone, Coarse!Shared, Shared
<1>1. \A S : Coarse!SetToSeqs(S) = SetToSeqs(S)
  BY DEF Coarse!SetToSeqs, SetToSeqs, Coarse!Range, Range, Coarse!IsInjective, IsInjective
<1>2. \A sch, at, lost : Coarse!Alone(sch, at, lost) = Alone(sch, at, lost)
  OBVIOUS
<1>3. \A sch, at, lost : Coarse!Shared(sch, at, lost) = Shared(sch, at, lost)
  OBVIOUS
<1>4. \A sch, at, lost, alone, shared :
        Coarse!JobsOf(sch, at, lost, alone, shared) = JobsOf(sch, at, lost, alone, shared)
  BY DEF Coarse!JobsOf, JobsOf, Coarse!Range, Range, Coarse!Beyond, Beyond, Coarse!Limit, Limit,
         Coarse!SortedBy, SortedBy, Coarse!Before, Before, Coarse!ByTurn, ByTurn
<1> QED BY <1>1, <1>2, <1>3, <1>4

LEMMA SamePlan ==
  /\ \A sch, at, lost, partial : Coarse!ReadsOf(sch, at, lost, partial) = ReadsOf(sch, at, lost, partial)
  /\ \A sch, at, lost, partial : Coarse!Mains(sch, at, lost, partial) = Mains(sch, at, lost, partial)
<1> USE DEF Coarse!Cardinality, Cardinality, Coarse!AzsOf, AzsOf, Coarse!AzOf, AzOf,
            Coarse!InAz, InAz, Coarse!Blocks, Blocks, Coarse!Size, Size,
            Coarse!Live, Live, Coarse!Limit, Limit, Coarse!InLimit, InLimit, Coarse!Rows, Rows,
            Coarse!ToSet, ToSet, Coarse!AtMost, AtMost, Coarse!Min, Min,
            Coarse!InRowOrder, InRowOrder, Coarse!Ascending, Ascending,
            Coarse!SortedBy, SortedBy, Coarse!Before, Before
<1>1. \A sch, at, lost : Coarse!PartialReads(sch, at, lost) = PartialReads(sch, at, lost)
  BY DEF Coarse!PartialReads, PartialReads
<1>2. \A sch, at, lost : Coarse!Taken(sch, at, lost) = Taken(sch, at, lost)
  BY DEF Coarse!Taken, Taken, Coarse!InReadOrder, InReadOrder, Coarse!Wanted, Wanted
<1>3. \A sch, at, lost : Coarse!FullReads(sch, at, lost) = FullReads(sch, at, lost)
  BY <1>2 DEF Coarse!FullReads, FullReads
<1>4. \A sch, at, x : Coarse!SingleReads(sch, at, x) = SingleReads(sch, at, x)
  BY DEF Coarse!SingleReads, SingleReads, Coarse!ByAz, ByAz, Coarse!ByMain, ByMain,
         Coarse!ReadsRS, ReadsRS, Coarse!ReadsAzure, ReadsAzure, Coarse!ReadsOppo, ReadsOppo,
         Coarse!GroupWith, GroupWith, Coarse!Members, Members, Coarse!DataOf, DataOf,
         Coarse!LocalOf, LocalOf, Coarse!Globals, Globals, Coarse!GlobalsOf, GlobalsOf,
         Coarse!DealtBefore, DealtBefore, Coarse!Dealt, Dealt, Coarse!Groups, Groups
<1>5. \A xs : Coarse!Cardinality(xs) = Cardinality(xs)
  OBVIOUS
<1>6. \A at, xs : Coarse!AzsOf(at, xs) = AzsOf(at, xs)
  OBVIOUS
<1>7. \A n : Coarse!AzOf(n) = AzOf(n)
  OBVIOUS
<1> QED
  <2> HIDE DEF Cardinality, Coarse!Cardinality, AzsOf, Coarse!AzsOf, AzOf, Coarse!AzOf
  <2> QED BY <1>1, <1>2, <1>3, <1>4, <1>5, <1>6, <1>7
          DEF Coarse!ReadsOf, ReadsOf, Coarse!Mains, Mains

LEMMA SamePlaces == \A at, lost : Coarse!PlacesFor(at, lost) = PlacesFor(at, lost)
BY DEF Coarse!PlacesFor, PlacesFor, Coarse!NewPlaces, NewPlaces, Coarse!AzsOf, AzsOf,
       Coarse!AzOf, AzOf, Coarse!InAz, InAz, Coarse!AzNodes, AzNodes, Coarse!Free, Free,
       Coarse!Range, Range, Coarse!Cardinality, Cardinality

LEMMA SameOutcomes ==
  /\ \A sch, lost : Coarse!Rebuilt(sch, lost) = Rebuilt(sch, lost)
  /\ \A sch, lost, partial, read, bad :
       Coarse!Outcomes(sch, lost, partial, read, bad) = Outcomes(sch, lost, partial, read, bad)
<1>1. \A sch, lost : Coarse!Rebuilt(sch, lost) = Rebuilt(sch, lost)
  BY DEF Coarse!Rebuilt, Rebuilt, Coarse!InLimit, InLimit, Coarse!Limit, Limit,
         Coarse!Cardinality, Cardinality
<1>2. \A sch, lost : Coarse!Solvable(sch, lost) = Solvable(sch, lost)
  BY DEF Coarse!Solvable, Solvable, Coarse!Rows, Rows, Coarse!InLimit, InLimit, Coarse!Limit, Limit,
         Coarse!ToSet, ToSet, Coarse!AtMost, AtMost, Coarse!Min, Min,
         Coarse!InRowOrder, InRowOrder, Coarse!Ascending, Ascending,
         Coarse!SortedBy, SortedBy, Coarse!Before, Before, Coarse!LocalOf, LocalOf,
         Coarse!DataOf, DataOf, Coarse!Cardinality, Cardinality
<1>3. \A xs : Coarse!Cardinality(xs) = Cardinality(xs)
  BY DEF Coarse!Cardinality, Cardinality
<1>4. \A sch, read : Coarse!Decodes(sch, read) = Decodes(sch, read)
  BY <1>3, SameRecoverable DEF Coarse!Decodes, Decodes
<1>5. ASSUME NEW sch, NEW lost, NEW partial, NEW read, NEW bad
      PROVE  Coarse!Outcomes(sch, lost, partial, read, bad) = Outcomes(sch, lost, partial, read, bad)
  <2>1. /\ Coarse!Cardinality(lost) = Cardinality(lost)
        /\ Coarse!Solvable(sch, lost) <=> Solvable(sch, lost)
        /\ Coarse!Decodes(sch, read) <=> Decodes(sch, read)
        /\ Coarse!Decodes(sch, read \ bad) <=> Decodes(sch, read \ bad)
    BY <1>2, <1>3, <1>4
  <2> QED BY <2>1, Zenon DEF Coarse!Outcomes, Outcomes
<1> QED BY <1>1, <1>5

-----------------------------------------------------------------------------
(* The handlers as Repair sees them                                        *)

GatherMap == [h \in Handlers |-> Gathered(h)]

(* r is a handler's record, hs its helpers.                                *)
Together(r, hs) ==
  [r EXCEPT !.got = @ \cup UNION {hs[a].got : a \in DOMAIN hs},
            !.bad = @ \cup UNION {hs[a].bad : a \in DOMAIN hs}]

LEMMA TogetherAgain ==
  ASSUME NEW st, NEW r, NEW hs, IsReq(st, r), IsHelped(r, hs), r.pc # "gather"
  PROVE  Together(r, hs) = r
<1> DEFINE got == r.got \cup UNION {hs[a].got : a \in DOMAIN hs}
           bad == r.bad \cup UNION {hs[a].bad : a \in DOMAIN hs}
<1>1. \A a \in DOMAIN hs : hs[a].got \subseteq r.got /\ hs[a].bad \subseteq r.bad
  BY DEF IsHelped
<1>2. got = r.got /\ bad = r.bad
  BY <1>1
<1>3. Together(r, hs) = [r EXCEPT !.got = got, !.bad = bad]
  BY DEF Together
<1> HIDE DEF got, bad
<1>4. Together(r, hs) = [r EXCEPT !.got = r.got, !.bad = r.bad]
  BY <1>2, <1>3
<1> QED BY <1>4 DEF IsReq

LEMMA GatheredTogether ==
  /\ \A h : Gathered(h) = Together(req[h], help[h])
  /\ \A h : Gathered(h)' = Together(req'[h], help'[h])
BY DEF Gathered, Together, Bad

LEMMA GatheredFacts ==
  ASSUME Inv, HelpInv, NEW h \in Handlers
  PROVE  /\ GatherMap[h] = Gathered(h)
         /\ Gathered(h) = [req[h] EXCEPT !.got = Gathered(h).got, !.bad = Gathered(h).bad]
         /\ Gathered(h).got = req[h].got \cup UNION {help[h][a].got : a \in DOMAIN help[h]}
         /\ Gathered(h).bad = Bad(h)
         /\ Gathered(h).pc = req[h].pc /\ Gathered(h).list = req[h].list
         /\ Gathered(h).plan = req[h].plan /\ Gathered(h).stripe = req[h].stripe
         /\ ~At(h, "gather") => Gathered(h) = req[h]
<1> DEFINE got == req[h].got \cup UNION {help[h][a].got : a \in DOMAIN help[h]}
           bad == Bad(h)
<1>1. Gathered(h) = [req[h] EXCEPT !.got = got, !.bad = bad]
  BY DEF Gathered
<1> HIDE DEF got, bad
<1>2. /\ Gathered(h).got = got /\ Gathered(h).bad = bad
      /\ Gathered(h).pc = req[h].pc /\ Gathered(h).list = req[h].list
      /\ Gathered(h).plan = req[h].plan /\ Gathered(h).stripe = req[h].stripe
  BY <1>1, ReqFacts
<1>3. ASSUME ~At(h, "gather") PROVE Gathered(h) = req[h]
  BY <1>3, TogetherAgain, GatheredTogether DEF Inv, Shape, HelpInv
<1>4. GatherMap[h] = Gathered(h)
  BY DEF GatherMap
<1> QED BY <1>1, <1>2, <1>3, <1>4 DEF got, bad

(* A step of handler h and its proxies, as Repair sees it.                 *)
LEMMA GatheredStep ==
  ASSUME NEW h \in Handlers, DOMAIN req' = Handlers,
         \A i \in Handlers \ {h} : req'[i] = req[i] /\ help'[i] = help[i]
  PROVE  GatherMap' = [GatherMap EXCEPT ![h] = Gathered(h)']
<1>1. Handlers' = Handlers
  BY DEF Handlers
<1>2. \A i \in Handlers \ {h} : Gathered(i)' = Gathered(i)
  BY GatheredTogether
<1> QED BY <1>1, <1>2 DEF GatherMap

LEMMA GatheredSame ==
  ASSUME \A i \in Handlers : Gathered(i)' = Gathered(i)
  PROVE  GatherMap' = GatherMap
<1>1. Handlers' = Handlers
  BY DEF Handlers
<1> QED BY <1>1 DEF GatherMap

(* The coordinator's steps are those of Repair.                            *)
LEMMA CoordinatorGathered ==
  ASSUME Inv, HelpInv, Inv', HelpInv', NEW h \in Handlers, UNCHANGED proxyVars,
         \/ RequestRepair(h) \/ Reply(h) \/ Record(h)
         \/ \E s \in Stripes : SkipStripe(h, s) \/ ExamineStripe(h, s)
         \/ \E x \in Blocks(Sch) : StoreBlock(h, x)
  PROVE  /\ GatherMap[h] = req[h]
         /\ GatherMap' = [GatherMap EXCEPT ![h] = req'[h]]
         /\ \A i \in Handlers : GatherMap[i].pc = req[i].pc
<1>1. /\ \A i \in Handlers \ {h} : req'[i] = req[i] /\ help'[i] = help[i]
      /\ req[h].pc # "gather" /\ req'[h].pc # "gather"
  BY CoordinatorKeeps
<1>2. Handlers' = Handlers
  BY DEF Handlers
<1>3. DOMAIN req' = Handlers
  BY <1>2, ReqFacts DEF Inv, Shape
<1>4. Gathered(h)' = req'[h]
  <2>1. IsReq(site', req'[h]) /\ IsHelped(req'[h], help'[h])
    BY <1>2 DEF Inv, Shape, HelpInv
  <2> QED BY <1>1, <2>1, TogetherAgain, GatheredTogether
<1> QED BY <1>1, <1>3, <1>4, GatheredStep, GatheredFacts

-----------------------------------------------------------------------------
(* Step by step                                                            *)

USE DEF Coarse!vars, Coarse!nodeVars, Coarse!memVars, Coarse!tableVars, Coarse!At,
        Coarse!Sch, Sch, Coarse!Stripes, Stripes

LEMMA CoarseRequest ==
  ASSUME Inv, HelpInv, Inv', HelpInv', NEW h \in Handlers, RequestRepair(h), UNCHANGED proxyVars
  PROVE  Coarse!RequestRepair(h)
<1>1. /\ GatherMap[h] = req[h]
      /\ GatherMap' = [GatherMap EXCEPT ![h] = req'[h]]
      /\ \A i \in Handlers : GatherMap[i].pc = req[i].pc
  BY CoordinatorGathered
<1>2. /\ 1..(h - 1) \subseteq Handlers /\ DOMAIN req = Handlers
  BY ReqFacts, BoundAssumption DEF Handlers
<1>3. req'[h] = [Unused EXCEPT !.pc = "scan", !.list = NodesOf(site) \ up,
                               !.todo = UNION {index[n] : n \in NodesOf(site) \ up}]
  BY <1>2 DEF RequestRepair
<1>4. Coarse!Unused = Unused
  BY DEF Coarse!Unused, Unused, Coarse!NoPlan, NoPlan
<1>5. /\ GatherMap[h].pc = "none" /\ \A i \in 1..(h - 1) : ~(GatherMap[i].pc = "none")
      /\ SerialRepair => \A i \in Handlers : GatherMap[i].pc \in {"none", "replied"}
      /\ NodesOf(site) \ up # {} /\ UNCHANGED <<nodeVars, memVars, tableVars>>
  BY <1>1, <1>2 DEF RequestRepair, Active
<1> HIDE DEF GatherMap, Unused
<1> QED BY <1>1, <1>3, <1>4, <1>5, SameBlocks DEF Coarse!RequestRepair, Coarse!Active, GatherMap

LEMMA CoarseReply ==
  ASSUME Inv, HelpInv, Inv', HelpInv', NEW h \in Handlers, Reply(h), UNCHANGED proxyVars
  PROVE  Coarse!Reply(h)
<1>1. /\ GatherMap[h] = req[h]
      /\ GatherMap' = [GatherMap EXCEPT ![h] = req'[h]]
  BY CoordinatorGathered
<1>2. /\ req[h].pc = "scan" /\ req[h].todo = {}
      /\ req'[h] = [req[h] EXCEPT !.pc = "replied"]
      /\ UNCHANGED <<nodeVars, memVars, tableVars>>
  BY ReqFacts DEF Reply
<1>3. GatherMap' = [GatherMap EXCEPT ![h].pc = "replied"]
  BY <1>1, <1>2
<1> QED BY <1>1, <1>2, <1>3, SameBlocks DEF Coarse!Reply, GatherMap

LEMMA CoarseSkip ==
  ASSUME Inv, HelpInv, Inv', HelpInv', NEW h \in Handlers, NEW s \in Stripes,
         SkipStripe(h, s), UNCHANGED proxyVars
  PROVE  Coarse!SkipStripe(h, s)
<1>1. /\ GatherMap[h] = req[h]
      /\ GatherMap' = [GatherMap EXCEPT ![h] = req'[h]]
  BY CoordinatorGathered
<1>2. /\ req[h].pc = "scan" /\ s \in req[h].todo
      /\ GivenUp(Sch, LostOf(h, s)) \/ LostOf(h, s) = {}
      /\ req'[h] = [req[h] EXCEPT !.todo = @ \ {s}]
      /\ UNCHANGED <<nodeVars, memVars, tableVars>>
  BY ReqFacts DEF SkipStripe
<1>3. Coarse!LostOf(h, s) = LostOf(h, s)
  BY <1>1, SameBlocks DEF Coarse!LostOf, LostOf, GatherMap
<1>4. GatherMap' = [GatherMap EXCEPT ![h].todo = @ \ {s}]
  BY <1>1, <1>2
<1> QED BY <1>1, <1>2, <1>3, <1>4, SameGivenUp DEF Coarse!SkipStripe, GatherMap

LEMMA CoarseExamine ==
  ASSUME Inv, HelpInv, Inv', HelpInv', NEW h \in Handlers, NEW s \in Stripes,
         ExamineStripe(h, s), UNCHANGED proxyVars
  PROVE  Coarse!ExamineStripe(h, s)
<1> DEFINE lost == LostOf(h, s)
<1>1. /\ GatherMap[h] = req[h]
      /\ GatherMap' = [GatherMap EXCEPT ![h] = req'[h]]
  BY CoordinatorGathered
<1>2. PICK alone \in SetToSeqs(Alone(Sch, info[s], lost)),
           shared \in SetToSeqs(Shared(Sch, info[s], lost)) :
        req' = [req EXCEPT ![h].todo = @ \ {s}, ![h].stripe = s, ![h].pc = "plan",
                           ![h].jobs = JobsOf(Sch, info[s], lost, alone, shared)]
  BY DEF ExamineStripe
<1> DEFINE jobs == JobsOf(Sch, info[s], lost, alone, shared)
<1>3. /\ req[h].pc = "scan" /\ s \in req[h].todo /\ ~GivenUp(Sch, lost) /\ lost # {}
      /\ UNCHANGED <<nodeVars, memVars, tableVars>>
  BY DEF ExamineStripe
<1>4. Coarse!LostOf(h, s) = lost
  BY <1>1, SameBlocks DEF Coarse!LostOf, LostOf, GatherMap
<1>5. /\ alone \in Coarse!SetToSeqs(Coarse!Alone(Sch, info[s], lost))
      /\ shared \in Coarse!SetToSeqs(Coarse!Shared(Sch, info[s], lost))
      /\ Coarse!JobsOf(Sch, info[s], lost, alone, shared) = jobs
      /\ ~Coarse!GivenUp(Sch, lost)
  BY <1>2, <1>3, SameJobs, SameGivenUp
<1>6. req' = [req EXCEPT ![h].todo = @ \ {s}, ![h].stripe = s, ![h].pc = "plan", ![h].jobs = jobs]
  BY <1>2
<1> HIDE DEF jobs, lost
<1>7. GatherMap' = [GatherMap EXCEPT ![h].todo = @ \ {s}, ![h].stripe = s, ![h].pc = "plan",
                                     ![h].jobs = jobs]
  <2>1. req'[h] = [req[h] EXCEPT !.todo = @ \ {s}, !.stripe = s, !.pc = "plan", !.jobs = jobs]
    BY <1>6, ReqFacts
  <2> QED BY <1>1, <2>1
<1> DEFINE was == Coarse!LostOf(h, s)
           after(l, al, sh) ==
             [GatherMap EXCEPT ![h].todo = @ \ {s}, ![h].stripe = s, ![h].pc = "plan",
                               ![h].jobs = Coarse!JobsOf(Sch, info[s], l, al, sh)]
           examined(l) ==
             /\ GatherMap[h].pc = "scan" /\ s \in GatherMap[h].todo
             /\ ~Coarse!GivenUp(Sch, l) /\ l # {}
             /\ \E al \in Coarse!SetToSeqs(Coarse!Alone(Sch, info[s], l)),
                   sh \in Coarse!SetToSeqs(Coarse!Shared(Sch, info[s], l)) :
                  GatherMap' = after(l, al, sh)
<1>8. GatherMap' = after(lost, alone, shared)
  BY <1>5, <1>7
<1>9. examined(lost)
  <2> HIDE DEF after
  <2> QED BY <1>1, <1>3, <1>5, <1>8
<1>10. examined(was)
  <2>1. was = lost
    BY <1>4
  <2> HIDE DEF was, examined
  <2> QED BY <1>9, <2>1
<1> QED BY <1>3, <1>10, Zenon DEF Coarse!ExamineStripe, GatherMap

LEMMA CoarseStore ==
  ASSUME Inv, HelpInv, Inv', HelpInv', NEW h \in Handlers, NEW x \in Blocks(Sch),
         StoreBlock(h, x), UNCHANGED proxyVars
  PROVE  Coarse!StoreBlock(h, x)
<1>1. /\ GatherMap[h] = req[h]
      /\ GatherMap' = [GatherMap EXCEPT ![h] = req'[h]]
  BY CoordinatorGathered
<1>2. /\ req[h].pc = "store" /\ x \in req[h].left
      /\ req'[h] = [req[h] EXCEPT !.left = @ \ {x}]
      /\ UNCHANGED <<nodeVars, tableVars>>
  BY ReqFacts DEF StoreBlock
<1>3. GatherMap' = [GatherMap EXCEPT ![h].left = @ \ {x}]
  BY <1>1, <1>2
<1> DEFINE n == GatherMap[h].plan.to[x]
           copy == <<GatherMap[h].stripe, x, n>>
           write(held, is) == IF is THEN held \cup {copy} ELSE held \ {copy}
<1>4. IF n \in up THEN /\ good' = write(good, GatherMap[h].sound)
                       /\ junk' = write(junk, ~GatherMap[h].sound)
                  ELSE UNCHANGED memVars
  <2> HIDE DEF GatherMap
  <2> QED BY <1>1 DEF StoreBlock
<1> QED BY <1>1, <1>2, <1>3, <1>4 DEF Coarse!StoreBlock, GatherMap

LEMMA CoarseRecord ==
  ASSUME Inv, HelpInv, Inv', HelpInv', NEW h \in Handlers, Record(h), UNCHANGED proxyVars
  PROVE  Coarse!Record(h)
<1>1. /\ GatherMap[h] = req[h]
      /\ GatherMap' = [GatherMap EXCEPT ![h] = req'[h]]
  BY CoordinatorGathered
<1> DEFINE pc == IF req[h].jobs = <<>> THEN "scan" ELSE "plan"
           plan == req[h].plan
<1>2. /\ req[h].pc = "store" /\ req[h].left = {}
      /\ req' = [req EXCEPT ![h].pc = pc]
      /\ info' = [info EXCEPT ![req[h].stripe] =
           [x \in DOMAIN @ |-> IF x \in Recorded(plan) THEN plan.to[x] ELSE @[x]]]
      /\ UNCHANGED <<nodeVars, memVars, index>>
  BY DEF Record
<1> HIDE DEF pc
<1>3. req'[h] = [req[h] EXCEPT !.pc = pc]
  BY <1>2, ReqFacts
<1>4. GatherMap' = [GatherMap EXCEPT ![h].pc = pc]
  BY <1>1, <1>3
<1>5. Coarse!Recorded(plan) = Recorded(plan)
  BY SameOutcomes DEF Coarse!Recorded, Recorded
<1> DEFINE tables(r) ==
             info' = [info EXCEPT ![r.stripe] =
               [x \in DOMAIN @ |-> IF x \in Coarse!Recorded(r.plan) THEN r.plan.to[x] ELSE @[x]]]
           handlers(r) ==
             GatherMap' = [GatherMap EXCEPT ![h].pc = IF r.jobs = <<>> THEN "scan" ELSE "plan"]
<1>6. tables(req[h]) /\ handlers(req[h])
  BY <1>2, <1>4, <1>5 DEF pc
<1>7. tables(GatherMap[h]) /\ handlers(GatherMap[h])
  <2> HIDE DEF tables, handlers
  <2> QED BY <1>1, <1>6
<1>8. GatherMap[h].pc = "store" /\ GatherMap[h].left = {}
  BY <1>1, <1>2
<1> QED BY <1>2, <1>7, <1>8, Zenon DEF Coarse!Record, GatherMap

LEMMA CoarsePlan ==
  ASSUME Inv, HelpInv, Inv', HelpInv', NEW h \in Handlers, StartJob(h)
  PROVE  Coarse!PlanJob(h)
<1>1. /\ DOMAIN req = Handlers /\ DOMAIN help = Handlers /\ Handlers' = Handlers
      /\ DOMAIN req' = Handlers
  BY ReqFacts DEF HelpInv, Inv, Shape, Handlers
<1> DEFINE lost == Head(req[h].jobs)
           at == info[req[h].stripe]
           plan(main) == [lost |-> lost, main |-> main, reads |-> ReadsOf(Sch, at, lost, site.partial),
                          from |-> at, to |-> PlacesFor(at, lost)]
<1>2. PICK main \in Mains(Sch, at, lost, site.partial) :
        req' = [req EXCEPT ![h].pc = "gather", ![h].jobs = Tail(@),
                           ![h].got = {}, ![h].bad = {}, ![h].plan = plan(main)]
  BY DEF StartJob, PlanJob
<1>3. /\ req[h].pc = "plan"
      /\ help' = [help EXCEPT ![h] = [a \in Helpers(req'[h].plan) |-> Fresh]]
      /\ UNCHANGED <<nodeVars, memVars, tableVars>>
  BY DEF StartJob, PlanJob
<1>4. GatherMap[h] = req[h]
  BY <1>3, GatheredFacts
<1> DEFINE new == plan(main)
<1>5. req' = [req EXCEPT ![h].pc = "gather", ![h].jobs = Tail(@),
                         ![h].got = {}, ![h].bad = {}, ![h].plan = new]
  BY <1>2
<1> HIDE DEF new
<1>6. /\ req'[h] = [req[h] EXCEPT !.pc = "gather", !.jobs = Tail(@),
                                  !.got = {}, !.bad = {}, !.plan = new]
      /\ \A i \in Handlers \ {h} : req'[i] = req[i] /\ help'[i] = help[i]
      /\ help'[h] = [a \in Helpers(req'[h].plan) |-> Fresh]
  BY <1>1, <1>3, <1>5
<1>7. Gathered(h)' = req'[h]
  <2>1. \A a \in DOMAIN help'[h] : help'[h][a].got = {} /\ help'[h][a].bad = {}
    BY <1>6 DEF Fresh
  <2>2. /\ UNION {help'[h][a].got : a \in DOMAIN help'[h]} = {}
        /\ UNION {help'[h][a].bad : a \in DOMAIN help'[h]} = {}
    BY <2>1
  <2>3. req'[h].got = {} /\ req'[h].bad = {}
    BY <1>6, ReqFacts
  <2>4. Gathered(h)' = [req'[h] EXCEPT !.got = {}, !.bad = {}]
    BY <2>2, <2>3, GatheredTogether DEF Together
  <2> QED BY <1>6, <2>4, ReqFacts
<1>8. GatherMap' = [GatherMap EXCEPT ![h] = req'[h]]
  BY <1>1, <1>6, <1>7, GatheredStep
<1>9. GatherMap' = [GatherMap EXCEPT ![h].pc = "gather", ![h].jobs = Tail(@),
                                     ![h].got = {}, ![h].bad = {}, ![h].plan = new]
  BY <1>4, <1>6, <1>8
<1> DEFINE after(r, m) ==
             [GatherMap EXCEPT ![h].pc = "gather", ![h].jobs = Tail(@), ![h].got = {}, ![h].bad = {},
                ![h].plan = [lost |-> Head(r.jobs), main |-> m,
                             reads |-> Coarse!ReadsOf(Sch, info[r.stripe], Head(r.jobs), site.partial),
                             from |-> info[r.stripe],
                             to |-> Coarse!PlacesFor(info[r.stripe], Head(r.jobs))]]
           planned(r) ==
             /\ r.pc = "plan"
             /\ \E m \in Coarse!Mains(Sch, info[r.stripe], Head(r.jobs), site.partial) :
                  GatherMap' = after(r, m)
<1>10. GatherMap' = after(req[h], main)
  BY <1>9, SamePlan, SamePlaces DEF new
<1>11. planned(req[h])
  <2> HIDE DEF after
  <2> QED BY <1>2, <1>3, <1>10, SamePlan
<1>12. planned(GatherMap[h])
  <2> HIDE DEF planned
  <2> QED BY <1>4, <1>11
<1> QED BY <1>3, <1>12, Zenon DEF Coarse!PlanJob, GatherMap

(* A block is read by one proxy only.                                      *)
LEMMA CoarseRead ==
  ASSUME Inv, HelpInv, Inv', HelpInv', NEW h \in Handlers, NEW x,
         \/ MainRead(h, x)
         \/ \E a \in AzIds : HelpRead(h, a, x)
  PROVE  Coarse!ReadBlock(h, x)
<1> DEFINE g == Gathered(h)
           bad == IF Whole(h, x) THEN g.bad ELSE g.bad \cup {x}
<1>1. /\ At(h, "gather") /\ DOMAIN req = Handlers /\ DOMAIN help = Handlers /\ Handlers' = Handlers
      /\ DOMAIN req' = Handlers /\ UNCHANGED <<nodeVars, memVars, tableVars>>
  BY ReqFacts DEF MainRead, HelpRead, ReadBlock, HelpInv, Inv, Shape, Handlers
<1>2. /\ HelpTypes(Plan(h), help[h]) /\ req[h].got \subseteq Plan(h).reads[Main(h)]
      /\ Divided(Plan(h).reads, Main(h), Blocks(Sch) \ Plan(h).lost)
      /\ Reads(h) = UNION {Plan(h).reads[a] : a \in DOMAIN Plan(h).reads}
  BY <1>1, GatherFacts
<1>3. /\ \A i \in Handlers \ {h} : req'[i] = req[i] /\ help'[i] = help[i]
      /\ x \in Reads(h) \ g.got
      /\ Gathered(h)' = [g EXCEPT !.got = @ \cup {x}, !.bad = bad]
  <2>1. CASE MainRead(h, x)
    <3> DEFINE own == IF Whole(h, x) THEN req[h].bad ELSE req[h].bad \cup {x}
    <3>1. /\ x \in Plan(h).reads[Main(h)] \ req[h].got /\ UNCHANGED help
          /\ req' = [req EXCEPT ![h].got = @ \cup {x}, ![h].bad = own]
      BY <2>1 DEF MainRead, ReadBlock
    <3>2. own = IF Whole(h, x) THEN req[h].bad ELSE req[h].bad \cup {x}
      OBVIOUS
    <3> HIDE DEF own
    <3>3. /\ req'[h] = [req[h] EXCEPT !.got = @ \cup {x}, !.bad = own]
          /\ \A i \in Handlers \ {h} : req'[i] = req[i]
      BY <1>1, <3>1
    <3>4. x \in Reads(h) \ g.got
      <4>1. \A a \in DOMAIN help[h] : x \notin help[h][a].got
        BY <1>2, <3>1 DEF HelpTypes, Helpers, Divided, Main
      <4>2. x \in Reads(h)
        BY <1>2, <3>1 DEF Divided
      <4>3. g.got = req[h].got \cup UNION {help[h][a].got : a \in DOMAIN help[h]}
        BY GatheredFacts
      <4>4. x \notin UNION {help[h][a].got : a \in DOMAIN help[h]}
        BY <4>1
      <4> HIDE DEF g
      <4> QED BY <3>1, <4>2, <4>3, <4>4
    <3> DEFINE got == g.got \cup {x}
               all == req'[h].bad \cup UNION {help[h][a].bad : a \in DOMAIN help[h]}
    <3>5. /\ req'[h].got \cup UNION {help[h][a].got : a \in DOMAIN help[h]} = got
          /\ all = bad
      <4>1. req'[h].got = req[h].got \cup {x} /\ req'[h].bad = own
        BY <3>3, ReqFacts
      <4> QED BY <3>2, <4>1, GatheredFacts DEF Bad
    <3> HIDE DEF got, all, bad
    <3>6. Gathered(h)' = [req'[h] EXCEPT !.got = got, !.bad = bad]
      BY <3>1, <3>5, GatheredTogether, ZenonT(60) DEF Together, all
    <3>7. [req'[h] EXCEPT !.got = got, !.bad = bad] = [req[h] EXCEPT !.got = got, !.bad = bad]
      BY <3>3, ReqFacts
    <3>8. [g EXCEPT !.got = got, !.bad = bad] = [req[h] EXCEPT !.got = got, !.bad = bad]
      <4>1. g = [req[h] EXCEPT !.got = g.got, !.bad = g.bad]
        BY GatheredFacts
      <4> HIDE DEF g
      <4> QED BY <4>1, ReqFacts
    <3> QED BY <3>1, <3>3, <3>4, <3>6, <3>7, <3>8 DEF got
  <2>2. ASSUME NEW a \in AzIds, HelpRead(h, a, x)
        PROVE  /\ \A i \in Handlers \ {h} : req'[i] = req[i] /\ help'[i] = help[i]
               /\ x \in Reads(h) \ g.got
               /\ Gathered(h)' = [g EXCEPT !.got = @ \cup {x}, !.bad = bad]
    <3> DEFINE hs == help[h]
               own == IF Whole(h, x) THEN hs[a].bad ELSE hs[a].bad \cup {x}
    <3>1. /\ a \in DOMAIN hs /\ x \in Plan(h).reads[a] \ hs[a].got /\ UNCHANGED req
          /\ help' = [help EXCEPT ![h][a].got = @ \cup {x}, ![h][a].bad = own]
      BY <2>2 DEF HelpRead
    <3>2. own = IF Whole(h, x) THEN hs[a].bad ELSE hs[a].bad \cup {x}
      OBVIOUS
    <3> HIDE DEF own
    <3>3. /\ DOMAIN help'[h] = DOMAIN hs
          /\ help'[h][a].got = hs[a].got \cup {x} /\ help'[h][a].bad = own
          /\ \A b \in DOMAIN hs \ {a} : help'[h][b] = hs[b]
          /\ \A i \in Handlers \ {h} : help'[i] = help[i]
      BY <1>1, <1>2, <3>1 DEF HelpTypes
    <3>4. x \in Reads(h) \ g.got
      <4>1. \A b \in DOMAIN hs : x \notin hs[b].got
        BY <1>2, <3>1 DEF HelpTypes, Helpers, Divided
      <4>2. x \notin req[h].got
        BY <1>2, <3>1 DEF HelpTypes, Helpers, Divided, Main
      <4>3. x \in Reads(h)
        BY <1>2, <3>1 DEF HelpTypes, Helpers
      <4>4. g.got = req[h].got \cup UNION {hs[b].got : b \in DOMAIN hs}
        BY GatheredFacts
      <4>5. x \notin UNION {hs[b].got : b \in DOMAIN hs}
        BY <4>1
      <4> HIDE DEF g
      <4> QED BY <4>2, <4>3, <4>4, <4>5
    <3> DEFINE got == g.got \cup {x}
    <3>5. /\ req[h].got \cup UNION {help'[h][b].got : b \in DOMAIN help'[h]} = got
          /\ req[h].bad \cup UNION {help'[h][b].bad : b \in DOMAIN help'[h]} = bad
      <4>1. \A y : (\E b \in DOMAIN hs : y \in help'[h][b].got)
                     <=> (\E b \in DOMAIN hs : y \in hs[b].got) \/ y = x
        BY <3>1, <3>3
      <4>2. \A y : (\E b \in DOMAIN hs : y \in help'[h][b].bad)
                     <=> (\E b \in DOMAIN hs : y \in hs[b].bad) \/ (y = x /\ ~Whole(h, x))
        <5>1. CASE Whole(h, x)
          <6>1. \A b \in DOMAIN hs : help'[h][b].bad = hs[b].bad
            BY <3>1, <3>2, <3>3, <5>1
          <6> QED BY <3>3, <5>1, <6>1
        <5>2. CASE ~Whole(h, x)
          <6>1. help'[h][a].bad = hs[a].bad \cup {x}
            BY <3>2, <3>3, <5>2
          <6> QED BY <3>1, <3>3, <5>2, <6>1
        <5> QED BY <5>1, <5>2
      <4>3. /\ g.got = req[h].got \cup UNION {hs[b].got : b \in DOMAIN hs}
            /\ g.bad = req[h].bad \cup UNION {hs[b].bad : b \in DOMAIN hs}
        BY GatheredFacts DEF Bad
      <4> HIDE DEF g
      <4>4. \A y : /\ y \in g.got <=> y \in req[h].got \/ \E b \in DOMAIN hs : y \in hs[b].got
                   /\ y \in g.bad <=> y \in req[h].bad \/ \E b \in DOMAIN hs : y \in hs[b].bad
        BY <4>3
      <4>5. req[h].got \cup UNION {help'[h][b].got : b \in DOMAIN help'[h]} = got
        BY <3>3, <4>1, <4>4
      <4>6. req[h].bad \cup UNION {help'[h][b].bad : b \in DOMAIN help'[h]} = bad
        <5>1. CASE Whole(h, x)
          BY <3>3, <4>2, <4>4, <5>1
        <5>2. CASE ~Whole(h, x)
          BY <3>3, <4>2, <4>4, <5>2, SMTT(30)
        <5> QED BY <5>1, <5>2
      <4> QED BY <4>5, <4>6
    <3> HIDE DEF got, bad
    <3>6. Gathered(h)' = [req[h] EXCEPT !.got = got, !.bad = bad]
      BY <3>1, <3>5, GatheredTogether, Zenon DEF Together
    <3>7. [g EXCEPT !.got = got, !.bad = bad] = [req[h] EXCEPT !.got = got, !.bad = bad]
      <4>1. g = [req[h] EXCEPT !.got = g.got, !.bad = g.bad]
        BY GatheredFacts
      <4> HIDE DEF g
      <4> QED BY <4>1, ReqFacts
    <3> QED BY <3>1, <3>3, <3>4, <3>6, <3>7 DEF got
  <2> QED BY <2>1, <2>2
<1>4. GatherMap' = [GatherMap EXCEPT ![h] = Gathered(h)']
  BY <1>1, <1>3, GatheredStep
<1>5. GatherMap[h] = g
  BY GatheredFacts
<1>6. /\ Coarse!Reads(h) = Reads(h) /\ (Coarse!Whole(h, x) <=> Whole(h, x))
  BY <1>5, SameBlocks, GatheredFacts DEF Coarse!Reads, Reads, Coarse!Whole, Whole, GatherMap
<1> DEFINE after(is) ==
             [GatherMap EXCEPT ![h].got = @ \cup {x},
                               ![h].bad = IF is THEN @ ELSE @ \cup {x}]
<1>7. GatherMap' = after(Whole(h, x))
  <2>1. GatherMap' = [GatherMap EXCEPT ![h].got = @ \cup {x}, ![h].bad = bad]
    <3> HIDE DEF g, bad
    <3> QED BY <1>3, <1>4, <1>5
  <2> QED BY <1>5, <2>1
<1>8. GatherMap' = after(Coarse!Whole(h, x))
  <2>1. CASE Whole(h, x)
    BY <1>6, <1>7, <2>1
  <2>2. CASE ~Whole(h, x)
    BY <1>6, <1>7, <2>2
  <2> QED BY <2>1, <2>2
<1>9. GatherMap[h].pc = "gather" /\ x \in Coarse!Reads(h) \ GatherMap[h].got
  BY <1>1, <1>3, <1>5, <1>6, GatheredFacts
<1> QED BY <1>1, <1>8, <1>9, Zenon DEF Coarse!ReadBlock, GatherMap

(* When the main proxy goes on, all has been read and all is in its sums.  *)
LEMMA CoarseCombine ==
  ASSUME Inv, HelpInv, ConnInv, Inv', HelpInv', NEW h \in Handlers, MainCombine(h)
  PROVE  Coarse!Combine(h)
<1> DEFINE g == Gathered(h)
<1>1. /\ At(h, "gather") /\ Joined(h) /\ UNCHANGED proxyVars
      /\ UNCHANGED <<nodeVars, memVars, tableVars>>
  BY DEF MainCombine
<1>2. DOMAIN req = Handlers /\ DOMAIN req' = Handlers /\ Handlers' = Handlers
  BY ReqFacts DEF Inv, Shape, Handlers
<1>3. Complete(h)
  BY <1>1, JoinedIsComplete
<1>4. PICK ok \in Outcomes(Sch, Plan(h).lost, site.partial, Reads(h), Bad(h)) :
        Combined(h, Bad(h), ok)
  BY <1>3 DEF MainCombine
<1> DEFINE left == Rebuilt(Sch, Plan(h).lost)
<1>5. /\ req'[h] = [req[h] EXCEPT !.pc = "store", !.sound = ok, !.got = Reads(h),
                                  !.bad = Bad(h), !.left = left]
      /\ \A i \in Handlers \ {h} : req'[i] = req[i] /\ help'[i] = help[i]
  BY <1>1, <1>2, <1>4 DEF Combined, Plan
<1>6. Gathered(h)' = req'[h]
  <2>1. IsReq(site', req'[h]) /\ IsHelped(req'[h], help'[h])
    BY <1>2 DEF Inv, Shape, HelpInv
  <2>2. req'[h].pc = "store"
    BY <1>5, ReqFacts
  <2> QED BY <2>1, <2>2, TogetherAgain, GatheredTogether
<1>7. GatherMap' = [GatherMap EXCEPT ![h] = req'[h]]
  BY <1>2, <1>5, <1>6, GatheredStep
<1>8. /\ GatherMap[h] = g /\ g.bad = Bad(h) /\ g.pc = "gather" /\ g.plan = Plan(h)
      /\ g = [req[h] EXCEPT !.got = g.got, !.bad = g.bad]
  BY <1>1, GatheredFacts DEF Plan
<1>9. g.got = Reads(h)
  <2>1. g.got = req[h].got \cup UNION {help[h][a].got : a \in DOMAIN help[h]}
    BY GatheredFacts
  <2>2. /\ \A a \in Helpers(Plan(h)) : help[h][a].got = Plan(h).reads[a]
        /\ req[h].got = Plan(h).reads[Main(h)] /\ DOMAIN help[h] = Helpers(Plan(h))
    BY <1>1, AllArrived, GatherFacts DEF Joined, HelpTypes
  <2>3. DOMAIN Plan(h).reads = Helpers(Plan(h)) \cup {Main(h)}
    BY <1>1, PartsOfJob
  <2>4. Reads(h) = UNION {Plan(h).reads[a] : a \in DOMAIN Plan(h).reads}
    BY <1>1, GatherFacts
  <2> HIDE DEF g
  <2>5. \A y : (\E a \in DOMAIN help[h] : y \in help[h][a].got)
                 <=> \E a \in Helpers(Plan(h)) : y \in Plan(h).reads[a]
    BY <2>2
  <2>6. \A y : y \in Reads(h) <=> \E a \in Helpers(Plan(h)) \cup {Main(h)} : y \in Plan(h).reads[a]
    BY <2>3, <2>4
  <2>7. \A y : y \in g.got <=> y \in Reads(h)
    BY <2>1, <2>2, <2>5, <2>6
  <2> QED BY <2>7
<1> HIDE DEF g, left
<1>10. GatherMap' = [GatherMap EXCEPT ![h].pc = "store", ![h].sound = ok, ![h].got = Reads(h),
                                      ![h].bad = g.bad, ![h].left = left]
  <2>1. req'[h] = [g EXCEPT !.pc = "store", !.sound = ok, !.got = Reads(h),
                            !.bad = g.bad, !.left = left]
    BY <1>5, <1>8, ReqFacts
  <2> QED BY <1>7, <1>8, <2>1
<1>11. Coarse!Reads(h) = Reads(h)
  BY <1>8, SameBlocks DEF Coarse!Reads, Reads, GatherMap, Plan
<1> DEFINE combined(r, xs, o) ==
             GatherMap' = [GatherMap EXCEPT ![h].pc = "store", ![h].sound = o, ![h].got = xs,
                             ![h].bad = r.bad, ![h].left = Coarse!Rebuilt(Sch, r.plan.lost)]
           combining(r, xs) ==
             /\ r.pc = "gather" /\ r.got = xs
             /\ \E o \in Coarse!Outcomes(Sch, r.plan.lost, site.partial, xs, r.bad) : combined(r, xs, o)
<1>12. combined(g, Reads(h), ok)
  BY <1>8, <1>10, SameOutcomes DEF left
<1>13. combining(g, Reads(h))
  <2> HIDE DEF combined
  <2> QED BY <1>4, <1>8, <1>9, <1>12, SameOutcomes
<1>14. combining(GatherMap[h], Coarse!Reads(h))
  <2> HIDE DEF combining
  <2> QED BY <1>8, <1>11, <1>13
<1> QED BY <1>1, <1>14, Zenon DEF Coarse!Combine, Coarse!Combined, GatherMap

(* The connections are nothing Repair sees.                                *)
LEMMA CoarseUnchanged ==
  ASSUME NEW h \in Handlers, HelpInv, UNCHANGED vars,
         \/ \E a \in AzIds : HelpSend(h, a)
         \/ Accept(h) \/ \E conn \in accepted[h] : Receive(h, conn)
  PROVE  UNCHANGED Coarse!vars
<1>1. CASE \E a \in AzIds : HelpSend(h, a)
  <2>1. PICK a \in AzIds : /\ help' = [help EXCEPT ![h][a].sent = TRUE]
                           /\ At(h, "gather") /\ a \in DOMAIN help[h]
    BY <1>1 DEF HelpSend
  <2>2. DOMAIN help = Handlers /\ HelpTypes(Plan(h), help[h])
    BY <2>1 DEF HelpInv, IsHelped, Plan
  <2>3. /\ \A i \in Handlers \ {h} : help'[i] = help[i]
        /\ DOMAIN help'[h] = DOMAIN help[h]
        /\ \A b \in DOMAIN help[h] : /\ help'[h][b].got = help[h][b].got
                                     /\ help'[h][b].bad = help[h][b].bad
    BY <2>1, <2>2 DEF HelpTypes
  <2>4. ASSUME NEW i \in Handlers PROVE Gathered(i)' = Gathered(i)
    <3>1. CASE i # h
      BY <2>3, <3>1, GatheredTogether
    <3>2. CASE i = h
      <4> DEFINE gots(hs) == UNION {hs[b].got : b \in DOMAIN hs}
                 bads(hs) == UNION {hs[b].bad : b \in DOMAIN hs}
      <4>1. gots(help'[h]) = gots(help[h]) /\ bads(help'[h]) = bads(help[h])
        BY <2>3
      <4>2. /\ Gathered(h)' = [req[h] EXCEPT !.got = @ \cup gots(help'[h]),
                                             !.bad = @ \cup bads(help'[h])]
            /\ Gathered(h) = [req[h] EXCEPT !.got = @ \cup gots(help[h]),
                                            !.bad = @ \cup bads(help[h])]
        BY GatheredTogether DEF Together
      <4> HIDE DEF gots, bads
      <4> QED BY <3>2, <4>1, <4>2
    <3> QED BY <3>1, <3>2
  <2> QED BY <2>4, GatheredSame DEF GatherMap
<1>2. CASE Accept(h) \/ \E conn \in accepted[h] : Receive(h, conn)
  <2>1. UNCHANGED help
    BY <1>2 DEF Accept, Receive
  <2>2. \A i \in Handlers : Gathered(i)' = Gathered(i)
    BY <2>1, GatheredTogether
  <2> QED BY <2>2, GatheredSame DEF GatherMap
<1> QED BY <1>1, <1>2

LEMMA CoarseFail ==
  ASSUME Inv, HelpInv, NEW n \in NodesOf(site), Fail(n), UNCHANGED proxyVars
  PROVE  Coarse!Fail(n)
<1>1. \A i \in Handlers : Gathered(i)' = Gathered(i)
  BY GatheredTogether DEF Fail
<1>2. GatherMap' = GatherMap
  BY <1>1, GatheredSame
<1>3. \A i \in Handlers : GatherMap[i].pc = req[i].pc
  BY GatheredFacts
<1>4. site.quiet => \A i \in Handlers : GatherMap[i].pc \in {"none", "replied"}
  BY <1>3 DEF Fail, Active
<1> HIDE DEF GatherMap
<1> QED BY <1>2, <1>4, SameBlocks DEF Fail, Coarse!Fail, Coarse!Active, GatherMap

LEMMA CoarseInit ==
  ASSUME InitTransfer PROVE Coarse!Init
<1>1. GatherMap = [h \in Handlers |-> Unused]
  <2>1. ASSUME NEW h \in Handlers PROVE Gathered(h) = Unused
    <3>1. req[h] = Unused /\ DOMAIN help[h] = {}
      BY DEF InitTransfer, Init
    <3>2. Together(req[h], help[h]) = [Unused EXCEPT !.got = {}, !.bad = {}]
      <4>1. /\ UNION {help[h][a].got : a \in DOMAIN help[h]} = {}
            /\ UNION {help[h][a].bad : a \in DOMAIN help[h]} = {}
        BY <3>1
      <4> DEFINE got == req[h].got \cup UNION {help[h][a].got : a \in DOMAIN help[h]}
                 bad == req[h].bad \cup UNION {help[h][a].bad : a \in DOMAIN help[h]}
      <4>2. Together(req[h], help[h]) = [req[h] EXCEPT !.got = got, !.bad = bad]
        BY DEF Together
      <4>3. got = {} /\ bad = {}
        BY <3>1, <4>1 DEF Unused
      <4> HIDE DEF got, bad
      <4> QED BY <3>1, <4>2, <4>3
    <3> QED BY <3>2, GatheredTogether DEF Unused
  <2> QED BY <2>1 DEF GatherMap
<1>2. Coarse!Unused = Unused
  BY DEF Coarse!Unused, Unused, Coarse!NoPlan, NoPlan
<1> QED BY <1>1, <1>2, SameBlocks DEF InitTransfer, Init, Coarse!Init, GatherMap

LEMMA CoarseStep ==
  ASSUME Inv, HelpInv, ConnInv, Inv', HelpInv', [NextTransfer]_allVars
  PROVE  [Coarse!Next]_(Coarse!vars)
<1>1. CASE UNCHANGED allVars
  <2>1. \A i \in Handlers : Gathered(i)' = Gathered(i)
    BY <1>1, GatheredTogether
  <2> QED BY <1>1, <2>1, GatheredSame DEF GatherMap
<1>2. CASE NodeFails
  BY <1>2, CoarseFail, SameBlocks DEF NodeFails, Coarse!Next
<1>3. CASE Request
  BY <1>3, CoarseRequest, SameBlocks DEF Request, Coarse!Next
<1>4. ASSUME NEW h \in Handlers, Coordinator(h) PROVE Coarse!Step(h)
  BY <1>4, CoarseSkip, CoarseExamine, CoarseRecord, CoarseReply, CoarseStore, SameBlocks
     DEF Coordinator, Coarse!Step
<1>5. ASSUME NEW h \in Handlers, Proxies(h) PROVE Coarse!Step(h) \/ UNCHANGED Coarse!vars
  <2>1. CASE StartJob(h)
    BY <2>1, CoarsePlan DEF Coarse!Step
  <2>2. ASSUME NEW x \in Blocks(Sch), MainRead(h, x) \/ \E a \in AzIds : HelpRead(h, a, x)
        PROVE  Coarse!Step(h)
    BY <2>2, CoarseRead, SameBlocks DEF Coarse!Step
  <2>3. CASE MainCombine(h)
    BY <2>3, CoarseCombine DEF Coarse!Step
  <2>4. CASE \/ \E a \in AzIds : HelpSend(h, a)
             \/ Accept(h) \/ \E conn \in accepted[h] : Receive(h, conn)
    <3>1. UNCHANGED vars
      BY <2>4 DEF HelpSend, Accept, Receive
    <3> QED BY <2>4, <3>1, CoarseUnchanged
  <2> QED BY <1>5, <2>1, <2>2, <2>3, <2>4 DEF Proxies
<1> QED BY <1>1, <1>2, <1>3, <1>4, <1>5, SameBlocks DEF NextTransfer, Work, Coarse!Next

(***************************************************************************)
(* The proxies of a job do together what Repair says of its handler: the   *)
(* reads of the main proxy and of the helpers, the connections in whatever *)
(* order and the sums in whatever form are one gathering of the blocks and *)
(* one combining of them (do_repair, mainRepair, helpRepair).              *)
(***************************************************************************)
THEOREM TransferRefines ==
  ASSUME SerialRepair PROVE SpecTransfer => ImplementsRepair
<1> DEFINE All == Inv /\ HelpInv /\ ConnInv
<1>1. InitTransfer => Coarse!Init
  BY CoarseInit
<1>2. All /\ All' /\ [NextTransfer]_allVars => [Coarse!Next]_(Coarse!vars)
  BY CoarseStep
<1>3. QED
  BY <1>1, <1>2, ConnectionInv, PTL DEF SpecTransfer, ImplementsRepair, Coarse!Spec
=============================================================================
