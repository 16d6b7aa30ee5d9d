----------------------------- MODULE Placement ------------------------------
(***************************************************************************)
(* generate_placement: on which datanode each block of a new stripe goes.  *)
(* Random draws a datanode for every block and draws again while the node  *)
(* is taken or its AZ is full.  Best_Placement (and OPPO_LRC) go round the *)
(* AZs: cur_az names the AZ whose turn it is, and within an AZ cur_node    *)
(* goes round its datanodes; both last from stripe to stripe.              *)
(*                                                                         *)
(* The calls of the upload handlers are taken one after the other; the     *)
(* steps of one call are its draws (Random) or its turns (the others).     *)
(***************************************************************************)
EXTENDS StripeCode, Sequences

CONSTANT
  Deployments   \* [azs, nodes, calls]: a configuration file and the schemes
                \* in force at each call of generate_placement

ASSUME DeploymentAssumption ==
  \A d \in Deployments :
    /\ d.azs \in Nat \ {0} /\ d.nodes \in Nat \ {0}
    /\ Len(d.calls) \in Nat
    /\ \A c \in 1..Len(d.calls) :
         /\ IsScheme(d.calls[c])
         /\ d.calls[c].code = "OPPO_LRC" => d.calls[c].l <= d.azs

VARIABLES
  site,     \* the deployment
  call,     \* the call being made
  turn,     \* the turns it has made
  curAz, curNode,
  nodes     \* nodes[c]: the datanode of each block call c has placed

vars == <<site, call, turn, curAz, curNode, nodes>>

AZs     == 0..(site.azs - 1)
InAz(a) == {<<a, i>> : i \in 0..(site.nodes - 1)}
Scheme  == site.calls[call]

Init ==
  /\ site \in Deployments
  /\ call = 1
  /\ turn = 0
  /\ curAz = 0
  /\ curNode = [a \in AZs |-> 0]
  /\ nodes = [c \in 1..Len(site.calls) |-> <<>>]

Placed(c) == DOMAIN nodes[c]
BlocksIn(c, a) == {x \in Placed(c) : nodes[c][x][1] = a}

Making(code, place) ==
  /\ call <= Len(site.calls)
  /\ Scheme.code \in code
  /\ Scheme.place \in place

(* nodes[call] with the blocks of new added.                               *)
With(new) == [x \in Placed(call) \cup DOMAIN new |->
                IF x \in DOMAIN new THEN new[x] ELSE nodes[call][x]]

-----------------------------------------------------------------------------
(* Random                                                                  *)

(* The groups help[az].first has: those of the data blocks and of the      *)
(* local parities, but not the group of the global parities.               *)
GroupsIn(a) == {i \in 0..(Scheme.l - 1) :
                  Members(Scheme, i) \cap BlocksIn(call, a) # {}}

AllGroups(a) == Scheme.g + Scheme.l
GlobalsOnly(a) == Scheme.g
AreaUpper(a) == Scheme.g + Cardinality(GroupsIn(a))

Full(a) == Cardinality(BlocksIn(call, a)) =
             IF Scheme.code = "RS" THEN Scheme.k ELSE AreaUpper(a)

Anywhere == UNION {InAz(a) : a \in AZs}
Free == Anywhere \ {nodes[call][y] : y \in Placed(call)}

Drawing == /\ Making({"RS", "Azure_LRC_1"}, {"Random"})
           /\ Placed(call) # Blocks(Scheme)

(* A draw for the next block that is accepted, and one that is not; when   *)
(* every free node is in a full AZ the loop draws for ever.                *)
PlaceRandom ==
  /\ Drawing
  /\ \E n \in Free :
       /\ ~ Full(n[1])
       /\ nodes' = [nodes EXCEPT ![call] = With([x \in {Cardinality(Placed(call))} |-> n])]
  /\ UNCHANGED <<site, call, turn, curAz, curNode>>

DrawAgain ==
  /\ Drawing
  /\ \E n \in Anywhere : n \notin Free \/ Full(n[1])
  /\ UNCHANGED vars

-----------------------------------------------------------------------------
(* Best_Placement and OPPO_LRC                                             *)

(* At which turn of the call block x is placed.  When a group is small     *)
(* enough, g \div b whole groups share an AZ; a larger one is cut into     *)
(* pieces of g + 1 data blocks, what is left going with the local parity.  *)
(* The global parities and theirs come last, in an AZ of their own.        *)
GroupOf(sch, x) == IF x < sch.k THEN x \div sch.b ELSE x - (sch.k + sch.g)

WiderPiece(sch) == sch.g + 2
Piece(sch) == sch.g + 1

TurnOfPiece(sch, x) ==
  LET i == GroupOf(sch, x)
      perGroup == sch.b \div Piece(sch) + 1
      size == Cardinality(DataOf(sch, i))
  IN i * perGroup + (IF x < sch.k THEN x - i * sch.b ELSE size) \div Piece(sch)

OneMore(sch) == sch.g \div sch.b + 1
Sita(sch) == sch.g \div sch.b

LocalsApart(sch, x) ==
  IF Sita(sch) = 0 THEN TurnOfPiece(sch, x)
  ELSE IF x < sch.k THEN GroupOf(sch, x) \div Sita(sch) ELSE GroupOf(sch, x)
TurnOfGroup(sch, x) ==
  IF Sita(sch) = 0 THEN TurnOfPiece(sch, x) ELSE GroupOf(sch, x) \div Sita(sch)

TurnOf(sch, x) ==
  CASE sch.code = "OPPO_LRC" -> CHOOSE i \in Groups(sch) : x \in Members(sch, i)
    [] sch.code = "Azure_LRC_1" /\ x \in Members(sch, sch.l) ->
         TurnOfGroup(sch, sch.k + sch.g + sch.l - 1) + 1
    [] OTHER -> TurnOfGroup(sch, x)

BlocksAt(sch, t) == {x \in Blocks(sch) : TurnOf(sch, x) = t}

(* Within a turn: data, then parities; a group that is not whole comes     *)
(* after the whole ones.                                                   *)
Rank(sch, x) ==
  x + (IF /\ GroupOf(sch, x) = sch.l - 1 /\ sch.k % sch.b # 0
          /\ sch.code = "Azure_LRC_1"
       THEN Size(sch) ELSE 0)

EarlierInTurn(sch, x) ==
  {y \in BlocksAt(sch, TurnOf(sch, x)) : Rank(sch, y) < Rank(sch, x)}

NoWrap(n) == curNode[curAz] + n
Advance(n) == (curNode[curAz] + n) % site.nodes

PlaceTurn ==
  LET new == BlocksAt(Scheme, turn)
      nodeOf(x) == curNode[curAz] + Cardinality(EarlierInTurn(Scheme, x))
  IN
  /\ \/ Making({"Azure_LRC_1"}, {"Best_Placement"})
     \/ Making({"OPPO_LRC"}, {"Random", "Best_Placement"})
  /\ new # {}
  /\ nodes' = [nodes EXCEPT ![call] =
       With([x \in new |-> <<curAz, nodeOf(x) % site.nodes>>])]
  /\ curNode' = [curNode EXCEPT ![curAz] = Advance(Cardinality(new))]
  /\ curAz' = (curAz + 1) % site.azs
  /\ turn' = turn + 1
  /\ UNCHANGED <<site, call>>

-----------------------------------------------------------------------------
(* The call returns when every block has a node.                           *)
Return ==
  /\ call <= Len(site.calls)
  /\ Placed(call) = Blocks(Scheme)
  /\ call' = call + 1
  /\ turn' = 0
  /\ UNCHANGED <<site, curAz, curNode, nodes>>

Finished ==
  /\ call > Len(site.calls)
  /\ UNCHANGED vars

Next == PlaceRandom \/ DrawAgain \/ PlaceTurn \/ Return \/ Finished

Spec == Init /\ [][Next]_vars
FairSpec == Spec /\ WF_vars(Next)

-----------------------------------------------------------------------------
(* The type of every variable.                                             *)
TypeOK ==
  /\ site \in Deployments
  /\ call \in 1..(Len(site.calls) + 1)
  /\ turn \in Nat
  /\ curAz \in AZs
  /\ curNode \in [AZs -> 0..(site.nodes - 1)]
  /\ \A c \in 1..Len(site.calls) :
       /\ Placed(c) \subseteq Blocks(site.calls[c])
       /\ \A x \in Placed(c) : nodes[c][x] \in AZs \X (0..(site.nodes - 1))

Done == 1..(call - 1)

(* No two blocks of a stripe share a datanode, wherever the round of the   *)
(* AZs and of their datanodes stood when the call began.                   *)
DistinctNodes ==
  \A c \in 1..Len(site.calls) : \A x, y \in Placed(c) :
    x # y => nodes[c][x] # nodes[c][y]

(* A stripe survives the loss of any one AZ: what area_upper, the cut into *)
(* pieces and the bound of RS are there for.                               *)
AzTolerant ==
  \A c \in Done : LET sch == site.calls[c] IN
    sch.code # "OPPO_LRC" => \A a \in AZs : Recoverable(sch, BlocksIn(c, a))

(* The requirement on Best_Placement: any one AZ and one more block.       *)
SurvivesAzAndBlock(c) ==
  LET sch == site.calls[c] IN
  \A a \in AZs, x \in Blocks(sch) : Recoverable(sch, BlocksIn(c, a) \cup {x})

BestTolerant ==
  \A c \in Done : site.calls[c].place = "Best_Placement" => SurvivesAzAndBlock(c)

(* The same for groups no larger than g, the case in which whole groups    *)
(* share an AZ.  OPPO_LRC goes its own way whatever the placement, and the  *)
(* global parities it deals to a group are lost with the group.            *)
SmallGroupsTolerant ==
  \A c \in Done :
    /\ site.calls[c].code = "Azure_LRC_1"
    /\ site.calls[c].place = "Best_Placement"
    /\ site.calls[c].b <= site.calls[c].g
    => SurvivesAzAndBlock(c)

(* A lost block is rebuilt from its group inside one AZ: generate_repair_  *)
(* plan reads the group of an OPPO_LRC block through one proxy, and takes  *)
(* the group of the global parities to be in one AZ.                       *)
RepairIsLocal ==
  \A c \in Done : LET sch == site.calls[c] IN
    \A i \in Groups(sch) :
      \/ sch.code = "OPPO_LRC"
      \/ sch.place = "Best_Placement" /\ (i = sch.l \/ sch.b <= sch.g)
      => \E a \in AZs : Members(sch, i) \subseteq BlocksIn(c, a)

(* generate_placement returns: the draws of Random do not go on for ever.  *)
Returns == <>(call > Len(site.calls))
=============================================================================
