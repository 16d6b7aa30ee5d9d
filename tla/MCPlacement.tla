---------------------------- MODULE MCPlacement -----------------------------
(* Schemes that take every branch of generate_placement, in deployments     *)
(* with just enough AZs and datanodes.                                      *)
EXTENDS Placement

Azure(place, k, l, g, b) ==
  [code |-> "Azure_LRC_1", place |-> place, k |-> k, l |-> l, g |-> g, b |-> b]

RandomTail == Azure("Random", 3, 2, 1, 2)          \* a tail group of one block
BestOne    == Azure("Best_Placement", 4, 2, 2, 2)  \* one group per AZ
BestTwo    == Azure("Best_Placement", 7, 4, 4, 2)  \* two per AZ, and a tail
BestCut    == Azure("Best_Placement", 5, 2, 1, 3)  \* groups larger than g
Oppo == [code |-> "OPPO_LRC", place |-> "Random", k |-> 5, l |-> 3, g |-> 4, b |-> 2]
Rs(k, g) == [code |-> "RS", place |-> "Random", k |-> k, l |-> 1, g |-> g, b |-> k]

Spread == {
  [azs |-> 4, nodes |-> 2, calls |-> <<RandomTail>>],
  [azs |-> 3, nodes |-> 6, calls |-> <<BestOne, BestTwo, BestOne>>],
  [azs |-> 5, nodes |-> 6, calls |-> <<BestOne, BestCut, Oppo, BestTwo>>],
  [azs |-> 3, nodes |-> 2, calls |-> <<Rs(2, 2)>>]}

Cut     == {[azs |-> 5, nodes |-> 2, calls |-> <<BestCut>>]}
=============================================================================
