------------------------------ MODULE MCUpdate ------------------------------
(* Objects of one, two and three stripes with blocks of different sizes, and*)
(* a small object, under each code.                                         *)
EXTENDS Update

Azure(place, k, l, g, b) ==
  [code |-> "Azure_LRC_1", place |-> place, k |-> k, l |-> l, g |-> g, b |-> b]
Rs(k, g) == [code |-> "RS", place |-> "Random", k |-> k, l |-> 1, g |-> g, b |-> k]
Oppo(k, l, g, b) ==
  [code |-> "OPPO_LRC", place |-> "Random", k |-> k, l |-> l, g |-> g, b |-> b]

(* azs[x + 1] is the AZ of block x.                                         *)
Layout(azs) ==
  [x \in 0..(Len(azs) - 1) |->
     <<azs[x + 1], Cardinality({y \in 0..(x - 1) : azs[y + 1] = azs[x + 1]})>>]

Big(stripes, size) ==
  [big |-> TRUE, stripes |-> stripes, block |-> 0, offset |-> 0, size |-> size]
Small(s, x, offset, size) ==
  [big |-> FALSE, stripes |-> <<s>>, block |-> x, offset |-> offset, size |-> size]

(* Groups in an AZ each, the global parities in one that has the larger     *)
(* number in one stripe and the smaller in the other; the second stripe is  *)
(* the tail of the object, with smaller blocks.                             *)
BestSite ==
  [sch |-> Azure("Best_Placement", 4, 2, 2, 2), azs |-> 3,
   at |-> <<Layout(<<0, 0, 1, 1, 2, 2, 0, 1, 2>>), Layout(<<1, 1, 2, 2, 0, 0, 1, 2, 0>>)>>,
   shard |-> <<2, 1>>,
   objects |-> [big |-> Big(<<1, 2>>, 11), small |-> Small(1, 3, 0, 2)],
   calls |-> 1]

(* Blocks alternate between AZs, so that the ranges change order; three     *)
(* stripes.                                                                 *)
SpreadSite ==
  [sch |-> Azure("Random", 3, 2, 1, 2), azs |-> 3,
   at |-> <<Layout(<<2, 0, 2, 0, 1, 0, 1>>), Layout(<<1, 0, 1, 2, 2, 0, 0>>),
            Layout(<<0, 1, 0, 2, 1, 2, 2>>)>>,
   shard |-> <<1, 1, 1>>,
   objects |-> [big |-> Big(<<1, 2, 3>>, 8)],
   calls |-> 1]

RsSite ==
  [sch |-> Rs(2, 1), azs |-> 2,
   at |-> <<Layout(<<1, 0, 1>>), Layout(<<0, 1, 0>>)>>,
   shard |-> <<2, 1>>,
   objects |-> [big |-> Big(<<1, 2>>, 6)],
   calls |-> 1]

OppoSite ==
  [sch |-> Oppo(4, 2, 2, 2), azs |-> 2,
   at |-> <<Layout(<<0, 0, 1, 1, 0, 1, 0, 1>>)>>,
   shard |-> <<2>>,
   objects |-> [big |-> Big(<<1>>, 8)],
   calls |-> 1]

BothOutcomes == {"ignored", "thrown"}
(* Two calls at once.                                                       *)
PairSite ==
  [sch |-> Azure("Best_Placement", 2, 1, 2, 2), azs |-> 2,
   at |-> <<Layout(<<0, 0, 1, 1, 0, 1>>)>>,
   shard |-> <<1>>,
   objects |-> [big |-> Big(<<1>>, 2), small |-> Small(1, 1, 0, 1)],
   calls |-> 2]

Deployments == {PairSite, BestSite, SpreadSite, RsSite, OppoSite}
=============================================================================
