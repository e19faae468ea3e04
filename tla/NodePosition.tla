---------------------------- MODULE NodePosition ----------------------------
(***************************************************************************)
(* What a node manager works out from its curNodePosition: which nodes its *)
(* client must be linked with, and for which of them its client is the one *)
(* that is told to connect (updateNodePosition of node_manager.go).        *)
(*                                                                         *)
(* A view is curNodePosition: parent[i][j] is slot j of panel i of the     *)
(* cluster the node is in (panel 2 of a cluster that is not the center is  *)
(* its connector), child[i][j] slot j of panel i of the cluster below the  *)
(* node's panel, Nobody an empty slot ("").                                *)
(***************************************************************************)
EXTENDS Integers, Sequences

Nobody == 0
Slots == 0..2

\* PoolNodePosition before the first UPDATE_NODE_POSITION.
BlankView ==
  [path |-> <<>>, partner |-> 0, center |-> FALSE,
   parent |-> [i \in 0..2 |-> [j \in Slots |-> Nobody]],
   child |-> [i \in 0..1 |-> [j \in Slots |-> Nobody]]]

PanelNumber(v) == v.path[Len(v.path)]

getThirdPanelNumber(a, b) ==
  IF {a, b} = {1, 2} THEN 0 ELSE IF {a, b} = {0, 2} THEN 1 ELSE 2

\* Slot j of a panel, or else the slots after it in the order of the steps.
FirstFrom(panel, j, steps) ==
  LET tries == <<j>> \o [k \in 1..2 |-> (j + steps[k]) % 3]
      hits  == {k \in 1..3 : panel[tries[k]] # Nobody}
  IN IF hits = {} THEN {}
     ELSE {panel[tries[CHOOSE k \in hits : \A m \in hits : k <= m]]}

\* Fault: the slots of both panels are searched in the same order.
OppositeSameOrder(v, i) == FirstFrom(v.parent[i], v.partner, <<1, 2>>)

\* The node of panel i that stands for the node's own partner number.
Opposite(v, i) ==
  FirstFrom(v.parent[i], v.partner,
            IF PanelNumber(v) > getThirdPanelNumber(i, PanelNumber(v))
            THEN <<1, 2>> ELSE <<2, 1>>)

OthersInPanel(v) ==
  {v.parent[PanelNumber(v)][j] : j \in Slots \ {v.partner}} \ {Nobody}

\* Below: one node of each child panel.
ChildLinks(v) ==
  UNION {FirstFrom(v.child[i], v.partner, <<1, 2>>) : i \in 0..1}

\* Fault: a node alone in its panel does not stand in for the empty slots.
NoAloneLinks(v) == {}

\* A node alone in its panel also stands in for the two empty slots.
AloneLinks(v) ==
  IF OthersInPanel(v) # {} THEN {}
  ELSE {v.parent[i][j] : i \in (0..2) \ {PanelNumber(v)},
                         j \in Slots \ {v.partner}} \ {Nobody}

\* Fault: a node with one neighbour does not stand in for the empty slot.
NoPairLinks(v) == {}

\* With one neighbour, one of the two stands in for the empty slot in the lower
\* panel, the other in the higher panel.
PairLinks(v) ==
  LET P == PanelNumber(v)
      next == (v.partner + 1) % 3
      prev == (v.partner + 2) % 3
      lower == IF P = 0 THEN 1 ELSE 0
      higher == IF P = 2 THEN 1 ELSE 2
      both == v.parent[P][next] # Nobody /\ v.parent[P][prev] # Nobody
  IN IF OthersInPanel(v) = {} \/ both THEN {}
     ELSE {IF v.parent[P][next] = Nobody THEN v.parent[lower][next]
           ELSE v.parent[higher][prev]} \ {Nobody}

\* connectNodes: its keys ...
Links(v) ==
  (UNION {Opposite(v, i) : i \in (0..2) \ {PanelNumber(v)}})
    \union OthersInPanel(v) \union ChildLinks(v)
    \union AloneLinks(v) \union PairLinks(v)

\* Fault: both ends of a link between panels connect.
InitiatesAcross(v, promoted, id) ==
  \/ id \in ChildLinks(v)
  \/ id \in OthersInPanel(v) /\ promoted
  \/ \E i \in (0..2) \ {PanelNumber(v)} : id \in {v.parent[i][j] : j \in Slots}

\* ... and the value under a key: whether this node's client connects.  A node
\* connects down the tree, across to a lower panel, and, when it is new to its
\* panel, to its neighbours.
Initiates(v, promoted, id) ==
  \/ id \in ChildLinks(v)
  \/ id \in OthersInPanel(v) /\ promoted
  \/ \E i \in (0..2) \ {PanelNumber(v)} :
       PanelNumber(v) > i /\ id \in {v.parent[i][j] : j \in Slots}

\* PNCMT_UPDATE_SINGLE_NODE_POSITION: a known node is cleared from where it was
\* (from a child panel only if it was in no parent panel), then the slot named
\* by the position is set: 0 to 8 are the slots of the parent cluster, 9 to 14
\* those of the child cluster.
WithoutNode(panels, id) ==
  [i \in DOMAIN panels |->
     [j \in Slots |-> IF panels[i][j] = id THEN Nobody ELSE panels[i][j]]]

UpdateSingle(v, position, id) ==
  LET inParent == \E i \in 0..2, j \in Slots : v.parent[i][j] = id
      cleared ==
        IF id = Nobody THEN v
        ELSE IF inParent THEN [v EXCEPT !.parent = WithoutNode(v.parent, id)]
        ELSE [v EXCEPT !.child = WithoutNode(v.child, id)]
  IN IF position >= 9
     THEN [cleared EXCEPT !.child[(position - 9) \div 3][position % 3] = id]
     ELSE [cleared EXCEPT !.parent[position \div 3][position % 3] = id]
============================================================================
