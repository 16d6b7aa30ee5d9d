------------------------------ MODULE Ordered -------------------------------
(* Sets walked in an order, as a map is by its keys or a vector that was    *)
(* sorted.  What comes at a place is what as many come before, so that      *)
(* facts about an order follow from counting.                               *)
EXTENDS Integers, Sequences, FiniteSets

Before(xs, less, x) == {y \in xs : <<y, x>> \in less}
SortedBy(xs, less) ==
  [i \in 1..Cardinality(xs) |->
     CHOOSE x \in xs : Cardinality(Before(xs, less, x)) = i - 1]
Ascending(xs) == SortedBy(xs, {p \in xs \X xs : p[1] < p[2]})

(* What a list has at the places given.                                     *)
Pick(seq, places) ==
  LET order == Ascending(places) IN [n \in DOMAIN order |-> seq[order[n]]]
=============================================================================
