------------------------------ MODULE MCRepair ------------------------------
(* Deployments of one or two stripes and the nodes that may fail in them.   *)
EXTENDS RepairTransfer

Azure(place, k, l, g, b) ==
  [code |-> "Azure_LRC_1", place |-> place, k |-> k, l |-> l, g |-> g, b |-> b]
Rs(k, g) == [code |-> "RS", place |-> "Random", k |-> k, l |-> 1, g |-> g, b |-> k]
Oppo(k, l, g, b) ==
  [code |-> "OPPO_LRC", place |-> "Random", k |-> k, l |-> l, g |-> g, b |-> b]

(* azs[x + 1] is the AZ of block x; in an AZ the blocks take the nodes from *)
(* first on, in turn.                                                       *)
Layout(azs, first) ==
  [x \in 0..(Len(azs) - 1) |->
     <<azs[x + 1], first + Cardinality({y \in 0..(x - 1) : azs[y + 1] = azs[x + 1]})>>]

Site(sch, partial, azs, nodes, layouts, mayFail, quiet) ==
  [sch |-> sch, partial |-> partial, azs |-> azs, nodes |-> nodes,
   layouts |-> layouts, mayFail |-> mayFail, quiet |-> quiet]

(* Azure_LRC_1 with a group per AZ and the global parities in a third: jobs *)
(* of several blocks, and the last block that takes one of its own.         *)
Best == Azure("Best_Placement", 4, 2, 2, 2)
BestAzs == <<0, 0, 1, 1, 2, 2, 0, 1, 2>>
BestSite(p) ==
  Site(Best, p, 3, 6, <<Layout(BestAzs, 3)>>,
       {<<0, 3>>, <<1, 3>>, <<2, 3>>, <<2, 5>>}, TRUE)

(* Azure_LRC_1 with the blocks of a group spread over the AZs.              *)
Spread == Azure("Random", 3, 2, 1, 2)
SpreadAzs == <<0, 1, 2, 0, 2, 1, 0>>
SpreadSite(p) ==
  Site(Spread, p, 3, 5, <<Layout(SpreadAzs, 2)>>, {<<0, 2>>, <<1, 2>>}, TRUE)

(* RS: a data block and a parity, in two stripes that share a node, and     *)
(* nodes that fail while blocks are read and written.                       *)
RsSite(p) ==
  Site(Rs(2, 2), p, 3, 4,
       <<Layout(<<0, 1, 2, 0>>, 2), Layout(<<2, 1, 0, 1>>, 2)>>,
       {<<0, 2>>, <<1, 2>>}, FALSE)

(* OPPO_LRC: a block alone in its AZ, and two of one AZ of which one is the *)
(* local parity.                                                            *)
OppoAzs == <<0, 0, 1, 0, 1, 0, 1>>
OppoSite(p) ==
  Site(Oppo(3, 2, 2, 2), p, 2, 7, <<Layout(OppoAzs, 3)>>,
       {<<0, 3>>, <<0, 6>>, <<1, 3>>}, TRUE)

Deployments ==
  UNION {{BestSite(p), SpreadSite(p), RsSite(p), OppoSite(p)} : p \in BOOLEAN}

(* Both data blocks of a group are lost; its local parity and a global one  *)
(* would give them back, but partial decoding takes another local parity.   *)
RowsAzs == <<0, 1, 0, 1, 2, 2, 3, 3>>
RowsSite ==
  {Site(Azure("Random", 4, 2, 1, 2), TRUE, 4, 5, <<Layout(RowsAzs, 2)>>,
        {<<0, 3>>, <<1, 3>>}, TRUE)}
=============================================================================
