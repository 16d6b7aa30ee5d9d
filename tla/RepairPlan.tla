----------------------------- MODULE RepairPlan -----------------------------
(***************************************************************************)
(* What requestRepair and generate_repair_plan work out for one stripe:    *)
(* in which jobs its failed blocks are rebuilt, which blocks a job reads   *)
(* through the proxy of which AZ, where the rebuilt blocks go, and whether *)
(* the equations the proxies solve determine them.  Nothing here has state.*)
(*                                                                         *)
(* A datanode is <<az, i>>, the i-th of its AZ in the configuration file.  *)
(* at is the list of nodes of a stripe: at[x] is the node of block x.      *)
(***************************************************************************)
EXTENDS StripeCode, Ordered, Sequences, SequencesExt

AzOf(n) == n[1]
InAz(at, xs, a) == {x \in xs \cap DOMAIN at : AzOf(at[x]) = a}
AzsOf(at, xs) == {AzOf(at[x]) : x \in xs}
AtMost(seq, n) == SubSeq(seq, 1, Min({n, Len(seq)}))

FailedOf(at, list) == {x \in DOMAIN at : at[x] \in list}

-----------------------------------------------------------------------------
(* The check that requestRepair makes of a stripe                          *)

(* Blocks are counted up to k + g_m + real_l: without the last block of    *)
(* Azure_LRC_1, and with local parities RS does not have.                  *)
Counted(sch) == 0..(sch.k + sch.g + sch.l - 1)
Surviving(sch, lost) == Cardinality(Counted(sch) \ lost)

(* check_decodable_azure_lrc, whatever the code: the survivors are sorted  *)
(* into groups by their number over l; then the matrix must have a solution*)
SeemsDecodable(sch, lost) ==
  LET alive == Counted(sch) \ lost
      lrc == [sch EXCEPT !.code = "Azure_LRC_1"]
  IN /\ sch.k <= sch.g + Cardinality({x \div sch.l : x \in alive})
     /\ Recoverable(lrc, Blocks(lrc) \ alive)

(* Only a stripe of which exactly k blocks survive is looked at.           *)
GivenUp(sch, lost) ==
  Surviving(sch, lost) = sch.k /\ ~SeemsDecodable(sch, lost)

-----------------------------------------------------------------------------
(* The jobs: each is one call of do_repair, the set of blocks it is given. *)

(* The blocks a multi-block job rebuilds; the rest takes jobs of its own.  *)
Limit(sch) == sch.k + sch.g + IF sch.code = "Azure_LRC_1" THEN sch.l ELSE 0
InLimit(sch, lost) == {x \in lost : x < Limit(sch)}

(* OPPO_LRC: the AZs of which one block failed, which the group gives back. *)
Alone(sch, at, lost) ==
  {a \in AzsOf(at, lost) : sch.code = "OPPO_LRC" /\ Cardinality(InAz(at, lost, a)) = 1}
Shared(sch, at, lost) == AzsOf(at, lost) \ Alone(sch, at, lost)

(* In the order of the AZs, and of their numbers in an AZ.                 *)
ByTurn(at, xs, azs) ==
  {p \in xs \X xs :
     \E i, j \in DOMAIN azs : /\ azs[i] = AzOf(at[p[1]])
                              /\ azs[j] = AzOf(at[p[2]])
                              /\ i < j \/ (i = j /\ p[1] < p[2])}

NoneBeyond(sch, xs) == {}
Beyond(sch, xs) == {x \in xs : x >= Limit(sch)}

(* alone and shared are those AZs as the map of failed blocks by AZ is     *)
(* walked.                                                                 *)
JobsOf(sch, at, lost, alone, shared) ==
  LET real == {x \in lost : AzOf(at[x]) \in Range(shared)}
      beyond == Beyond(sch, real)
      last == SortedBy(beyond, ByTurn(at, beyond, shared))
  IN [i \in DOMAIN alone |-> InAz(at, lost, alone[i])]
     \o (IF real = {} THEN <<>> ELSE <<real>>)
     \o [i \in DOMAIN last |-> {last[i]}]

-----------------------------------------------------------------------------
(* Where a rebuilt block goes: the r-th failed block of an AZ, to the r-th *)
(* of the nodes az of that AZ that the stripe does not use.                *)
AnyOf(at, az) == az
Free(at, az) == az \ Range(at)

NewPlaces(at, az, lost) ==
  LET free == Free(at, az)
      match(x, n) == Cardinality({y \in lost : y < x})
                       = Cardinality({m \in free : m[2] < n[2]})
  IN [x \in {y \in lost : \E n \in free : match(y, n)} |->
        CHOOSE n \in free : match(x, n)]

-----------------------------------------------------------------------------
(* One block: it is the sum of what is read (for a parity of RS, with the  *)
(* coefficients of its row).                                               *)

GroupWith(sch, x) == CHOOSE i \in Groups(sch) : x \in Members(sch, i)

FirstBlocks(sch, x) == 0..sch.k
ReadsRS(sch, x) == IF x < sch.k THEN (0..sch.k) \ {x} ELSE 0..(sch.k - 1)
ReadsAzure(sch, x) == Members(sch, GroupWith(sch, x)) \ {x}
ReadsOppo(sch, x) == Members(sch, GroupWith(sch, x)) \ {x}

(* The main proxy reads what is in its AZ, the proxies of the other AZs    *)
(* the rest; a group said to lie in one AZ is read by the main proxy alone.*)
ByAz(at, xs, main) ==
  [a \in AzsOf(at, xs) \cup {main} |-> InAz(at, xs, a)]
ByMain(xs, main) == [a \in {main} |-> xs]

SingleReads(sch, at, x) ==
  LET main == AzOf(at[x]) IN
  CASE sch.code = "RS" -> ByAz(at, ReadsRS(sch, x), main)
    [] sch.code = "Azure_LRC_1" /\ x \in Members(sch, sch.l) ->
         ByMain(ReadsAzure(sch, x), main)
    [] sch.code = "Azure_LRC_1" /\ x \notin Members(sch, sch.l) ->
         ByAz(at, ReadsAzure(sch, x), main)
    [] sch.code = "OPPO_LRC" -> ByMain(ReadsOppo(sch, x), main)

-----------------------------------------------------------------------------
(* Several blocks                                                          *)

Live(sch, lost) ==
  {x \in Blocks(sch) \ lost : sch.code = "Azure_LRC_1" \/ x < sch.k + sch.g}

(* Without partial decoding: the AZs are sorted by comparing their lists   *)
(* of live blocks, so the one whose first live block is last comes first;  *)
(* k blocks are taken (k + 1 for Azure_LRC_1, and never its last block).   *)
Wanted(sch) == IF sch.code = "Azure_LRC_1" THEN sch.k + 1 ELSE sch.k

InReadOrder(sch, at, lost) ==
  LET live == Live(sch, lost)
      first(x) == Min(InAz(at, live, AzOf(at[x])))
      xs == {x \in live : x < Limit(sch)}
      later(x, y) == first(x) > first(y)
      order == {p \in xs \X xs : \/ later(p[1], p[2])
                                 \/ ~later(p[2], p[1]) /\ p[1] < p[2]}
  IN SortedBy(xs, order)

Taken(sch, at, lost) ==
  AtMost(InReadOrder(sch, at, lost), Wanted(sch))

(* With partial decoding: one equation, the row of a parity, per block to  *)
(* be rebuilt: those of the failed parities, then the first ones there are.*)
LastRowsFirst(rows) == Reverse(Ascending(rows))
InRowOrder(rows) == Ascending(rows)

Rows(sch, lost) ==
  LET failed == InLimit(sch, lost)
      own == {x \in failed : x >= sch.k}
      others == InRowOrder((sch.k..(Limit(sch) - 1)) \ own)
  IN own \cup ToSet(AtMost(others, Cardinality(failed \ own)))

PartialReads(sch, at, lost) ==
  LET xs == {x \in Live(sch, lost) : x < sch.k \/ x \in Rows(sch, lost)}
  IN [a \in AzsOf(at, xs) |-> InAz(at, xs, a)]

FullReads(sch, at, lost) ==
  LET xs == ToSet(Taken(sch, at, lost)) IN [a \in AzsOf(at, xs) |-> InAz(at, xs, a)]

(* The first AZ of the plan has the main proxy: with partial decoding the  *)
(* first of a hash map, which may be any.  There is none if no block is    *)
(* left to read; the code does not ask.                                    *)
Mains(sch, at, lost, partial) ==
  IF Cardinality(lost) = 1 THEN AzsOf(at, lost)
  ELSE IF partial THEN DOMAIN PartialReads(sch, at, lost)
  ELSE LET taken == Taken(sch, at, lost) IN
       {AzOf(at[taken[i]]) : i \in DOMAIN taken \cap {1}}

ReadsOf(sch, at, lost, partial) ==
  IF Cardinality(lost) = 1 THEN SingleReads(sch, at, CHOOSE x \in lost : TRUE)
  ELSE IF partial THEN PartialReads(sch, at, lost)
  ELSE FullReads(sch, at, lost)

(* What of a job is rebuilt and written: all of one block, the blocks      *)
(* within the limit of several.                                            *)
Rebuilt(sch, lost) == IF Cardinality(lost) = 1 THEN lost ELSE InLimit(sch, lost)

(* A helping AZ with no fewer blocks than there are equations sends the    *)
(* partial sums of the equations, any other its blocks as they are.        *)
Merges(sch, lost, reads) == Cardinality(reads) >= Cardinality(InLimit(sch, lost))

-----------------------------------------------------------------------------
(* Do the blocks read determine those to be rebuilt?                       *)

(* The rows of live parities are equations in the lost data: as many as    *)
(* there are unknowns, and none of them a local row without an unknown.    *)
Solvable(sch, lost) ==
  LET data == {x \in lost : x < sch.k}
      live == Rows(sch, lost) \ lost
  IN /\ Cardinality(live) = Cardinality(data)
     /\ \A i \in 0..(sch.l - 1) :
          sch.code = "Azure_LRC_1" /\ LocalOf(sch, i) \in live
            => DataOf(sch, i) \cap data # {}

(* decode tries every k of the blocks it is given.                         *)
Decodes(sch, read) ==
  IF sch.code = "Azure_LRC_1" THEN Recoverable(sch, Blocks(sch) \ read)
                              ELSE Cardinality(read) >= sch.k

(* The outcomes of a job whose reads of bad gave something else than the   *)
(* block: decode may happen not to use one of k + 1 blocks.                *)
Outcomes(sch, lost, partial, read, bad) ==
  LET full == Cardinality(lost) > 1 /\ ~partial
      sound == \/ Cardinality(lost) = 1
               \/ partial /\ Solvable(sch, lost)
               \/ full /\ Decodes(sch, read)
  IN IF bad = {} THEN {sound}
     ELSE IF full /\ sch.code = "Azure_LRC_1" /\ Decodes(sch, read \ bad) THEN BOOLEAN
     ELSE {FALSE}

-----------------------------------------------------------------------------
(* The losses repair is made for.  More are recoverable: see the run       *)
(* MCRepairRows.                                                           *)
Handled(sch, lost, partial) ==
  LET data == {x \in lost : x < sch.k} IN
  CASE sch.code = "RS" -> Cardinality(lost) <= sch.g
    [] sch.code = "OPPO_LRC" -> /\ Surviving(sch, lost) > sch.k
                                /\ Cardinality(InLimit(sch, lost)) <= sch.g
    [] sch.code = "Azure_LRC_1" ->
         \/ Cardinality(lost) = 1
         \/ /\ Surviving(sch, lost) > sch.k
            /\ IF partial
               THEN Cardinality(data) <= Cardinality(Globals(sch) \ lost)
               ELSE sch.l <= 2
=============================================================================
