----------------------------- MODULE StripeCode -----------------------------
(***************************************************************************)
(* The blocks of a stripe, the local groups its code ties together and the *)
(* losses it survives.  A scheme is what setParameter stores: the code and *)
(* the placement by name, k data blocks in l local groups of b, and g      *)
(* global parity blocks.  Blocks are numbered as stripe.nodes is: data,    *)
(* global parities, local parities, and for Azure_LRC_1 one more, the      *)
(* local parity of the global ones.                                        *)
(***************************************************************************)
EXTENDS Integers, FiniteSets

(* run_client computes b as k over l, rounded up, and setParameter checks   *)
(* nothing.  Here no group is empty: with k = 9 and l = 4, say, the code   *)
(* would place fewer local parities than it encodes.  RS ignores l and b.  *)
IsScheme(sch) ==
  /\ sch.code \in {"RS", "OPPO_LRC", "Azure_LRC_1"}
  /\ sch.place \in {"Random", "Best_Placement"}
  /\ {sch.k, sch.l, sch.g, sch.b} \subseteq Nat \ {0}
  /\ sch.b = (sch.k + sch.l - 1) \div sch.l
  /\ (sch.l - 1) * sch.b < sch.k

Size(sch) == CASE sch.code = "RS" -> sch.k + sch.g
               [] sch.code = "OPPO_LRC" -> sch.k + sch.g + sch.l
               [] sch.code = "Azure_LRC_1" -> sch.k + sch.g + sch.l + 1
Blocks(sch) == 0..(Size(sch) - 1)

DataOf(sch, i)   == {x \in 0..(sch.k - 1) : x \div sch.b = i}
Globals(sch)     == sch.k..(sch.k + sch.g - 1)
LocalOf(sch, i)  == sch.k + sch.g + i

(* OPPO_LRC deals the global parities out to the groups in turn, and the   *)
(* ones a group gets are consecutive.                                      *)
Dealt(sch, i) == Cardinality({j \in 0..(sch.g - 1) : j % sch.l = i})
DealtBefore(sch, i) == Cardinality({j \in 0..(sch.g - 1) : j % sch.l < i})
GlobalsOf(sch, i) ==
  {sch.k + DealtBefore(sch, i) + j : j \in 0..(Dealt(sch, i) - 1)}

(* The blocks of one local group: any one of them is the sum of the rest.  *)
Groups(sch) == CASE sch.code = "RS" -> {}
                 [] sch.code = "OPPO_LRC" -> 0..(sch.l - 1)
                 [] sch.code = "Azure_LRC_1" -> 0..sch.l
Members(sch, i) ==
  CASE sch.code = "OPPO_LRC" ->
         DataOf(sch, i) \cup GlobalsOf(sch, i) \cup {LocalOf(sch, i)}
    [] sch.code = "Azure_LRC_1" /\ i < sch.l -> DataOf(sch, i) \cup {LocalOf(sch, i)}
    [] sch.code = "Azure_LRC_1" /\ i = sch.l -> Globals(sch) \cup {LocalOf(sch, i)}

(* Can the lost blocks be had back?  Each group that lost any makes up for *)
(* one of its own; the g global parities make up for what is left.  This   *)
(* is the best any matrix can do (maximal recoverability); for RS, which   *)
(* has no groups, it is exact.                                             *)
Touched(sch, lost) == {i \in Groups(sch) : Members(sch, i) \cap lost # {}}

Recoverable(sch, lost) ==
  Cardinality(lost) - Cardinality(Touched(sch, lost)) <= sch.g
=============================================================================
