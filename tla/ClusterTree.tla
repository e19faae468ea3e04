---------------------------- MODULE ClusterTree ----------------------------
(***************************************************************************)
(* The cluster tree of a pool (pool/pool.go): the panels that hold the     *)
(* connected nodes, and the two operations that change it, AddNode and     *)
(* RemoveNode, each run under the pool's write lock.                       *)
(*                                                                         *)
(* A panel is named by its position in the tree: <<0>>, <<1>> and <<2>>    *)
(* are the panels of the center cluster; every panel p that is not on the  *)
(* last level is the connector of a child cluster, whose own panels are    *)
(* Append(p, 0) and Append(p, 1).  A cluster is named by its connector,    *)
(* the center cluster by <<>>.  ClusterTree[i] of the code is the set of   *)
(* clusters whose own panels have paths of length i + 1.                   *)
(*                                                                         *)
(* A PoolNode is numbered by the order of its creation, so the code's      *)
(* a.Created.After(b.Created) is a > b; Nil stands for a nil slot.         *)
(***************************************************************************)
EXTENDS Integers, FiniteSets, Sequences

CONSTANTS
  NodeIDs,    \* the NodeIDs (device ids) that connections come with
  PanelSize,  \* the slots of a panel, 3 in the code
  MaxConns    \* bound on the PoolNodes created in a behaviour

ASSUME TreeAssumption ==
  /\ PanelSize \in Nat \ {0}
  /\ MaxConns \in Nat

VARIABLES
  made,     \* the number of PoolNodes created so far
  depth,    \* len(ClusterTree)
  nodes,    \* nodes[p][j] is Nodes[j] of panel p: a PoolNode or Nil
  nodeMap,  \* NodeMap: the PoolNode registered under a NodeID, or Nil
  node      \* the fields of every PoolNode that is in a panel

vars == <<made, depth, nodes, nodeMap, node>>

----------------------------------------------------------------------------
(* Panels and clusters *)

Nil == 0
Conns == 1..MaxConns
Partners == 0..(PanelSize - 1)

Level(d) == {p \in [1..d -> 0..2] : \A i \in 2..d : p[i] # 2}
PanelsTo(d) == UNION {Level(i) : i \in 1..d}
Panels == PanelsTo(depth)

Above(p, q) == Len(p) < Len(q) /\ \A i \in 1..Len(p) : q[i] = p[i]
AtOrAbove(p, q) == p = q \/ Above(p, q)
Below(p) == {q \in Panels : AtOrAbove(p, q)}

\* The clusters of the level whose panels have length d, and the panels that
\* getNodeAmount counts for a cluster (its connector panel is left out).
Clusters(d) == IF d = 1 THEN {<<>>} ELSE Level(d - 1)
OwnPanels(c) == {p \in Level(Len(c) + 1) : \A i \in 1..Len(c) : p[i] = c[i]}

\* Paths of one length are in the order in which the code's loops meet them.
Later(p, q) ==
  \E i \in 1..Len(p) : p[i] > q[i] /\ \A k \in 1..(i - 1) : p[k] = q[k]

----------------------------------------------------------------------------
(* Counting *)

Full(p) == \A j \in Partners : nodes[p][j] # Nil

PanelAmount(tree, p) == Cardinality({j \in Partners : tree[p][j] # Nil})

ClusterAmount(tree, c) ==
  Cardinality({s \in OwnPanels(c) \X Partners : tree[s[1]][s[2]] # Nil})

\* getChildNodeAmount: the nodes of panel p and of every panel below it.
ChildNodes(p) == {s \in Below(p) \X Partners : nodes[s[1]][s[2]] # Nil}
ChildNodeAmount(p) == Cardinality(ChildNodes(p))

\* The loops keep the last of the entries with the lowest amount (<=).
LastLowest(x, amount) ==
  \A y \in DOMAIN amount :
    \/ amount[x] < amount[y]
    \/ amount[x] = amount[y] /\ ~Later(y, x)

----------------------------------------------------------------------------
Init ==
  /\ made = 0
  /\ depth = 1
  /\ nodes = [p \in PanelsTo(1) |-> [j \in Partners |-> Nil]]
  /\ nodeMap = [id \in NodeIDs |-> Nil]
  /\ node = <<>>

\* addNewClusterTreeLevel gives every panel of the last level a child cluster
\* of two empty panels; d is the depth wanted.
Grown(d) ==
  [p \in PanelsTo(d) |->
     IF Len(p) <= depth THEN nodes[p] ELSE [j \in Partners |-> Nil]]

\* The level AddNode takes: the first that is not full, a new one when all are.
FreeLevel(d) ==
  /\ \A q \in Panels : Len(q) < d => Full(q)
  /\ d <= depth => ~(\A q \in Level(d) : Full(q))

\* Fault: panels_num stays 2 for the center cluster.
TwoCenterPanels(d, p, j) ==
  LET tree == Grown(d)
      own(c) == {q \in OwnPanels(c) : q # <<2>>}
  IN
  /\ \E c \in Clusters(d) :
       /\ LastLowest(c, [e \in Clusters(d) |-> ClusterAmount(tree, e)])
       /\ p \in own(c)
       /\ LastLowest(p, [q \in own(c) |-> PanelAmount(tree, q)])
  /\ tree[p][j] = Nil
  /\ \A i \in 0..(j - 1) : tree[p][i] # Nil

\* The slot AddNode takes on level d: the emptiest cluster, its emptiest panel,
\* the first free slot.
FreeSlot(d, p, j) ==
  LET tree == Grown(d) IN
  /\ \E c \in Clusters(d) :
       /\ LastLowest(c, [e \in Clusters(d) |-> ClusterAmount(tree, e)])
       /\ p \in OwnPanels(c)
       /\ LastLowest(p, [q \in OwnPanels(c) |-> PanelAmount(tree, q)])
  /\ tree[p][j] = Nil
  /\ \A i \in 0..(j - 1) : tree[p][i] # Nil

\* Fault: the new level is not appended to ClusterTree.
PlaceWithoutLevel(id, d, p, j) ==
  /\ made' = made + 1
  /\ nodes' = [Grown(depth) EXCEPT ![p][j] = made + 1]
  /\ nodeMap' = [nodeMap EXCEPT ![id] = made + 1]
  /\ node' = [c \in DOMAIN node \union {made + 1} |->
                IF c = made + 1 THEN [id |-> id, panel |-> p, partner |-> j]
                ELSE node[c]]
  /\ UNCHANGED depth

Place(id, d, p, j) ==
  LET n == made + 1 IN
  /\ made' = n
  /\ depth' = IF d > depth THEN d ELSE depth
  /\ nodes' = [Grown(depth') EXCEPT ![p][j] = n]
  /\ nodeMap' = [nodeMap EXCEPT ![id] = n]
  /\ node' = [c \in DOMAIN node \union {n} |->
                IF c = n THEN [id |-> id, panel |-> p, partner |-> j]
                ELSE node[c]]

AddNode(id) ==
  /\ made < MaxConns
  /\ \E d \in 1..(depth + 1) :
       /\ FreeLevel(d)
       /\ \E p \in Level(d), j \in Partners :
            FreeSlot(d, p, j) /\ Place(id, d, p, j)

----------------------------------------------------------------------------
(* Removal: the vacancy is filled from the child cluster, the vacancy this *)
(* leaves from the next one, down to a panel with no nodes below it.       *)

\* Fault: the loop stops as soon as panel A's side is empty.
LoopEndsOnA(p) == Len(p) = depth \/ ChildNodes(Append(p, 0)) = {}

\* Fault: the loop goes on into an empty child cluster.
LoopEndsAtBottom(p) == Len(p) = depth

\* cur_panel has no child cluster, or nothing is connected below it.
LoopEnds(p) ==
  \/ Len(p) = depth
  \/ \A k \in 0..1 : ChildNodes(Append(p, k)) = {}

\* Fault: the case of two panels without the partner number is forgotten.
PromotesPartner(p, s, q, j) ==
  \E k \in 0..1 :
    /\ q = Append(p, k)
    /\ nodes[q][j] # Nil
    /\ j = s
    /\ nodes[Append(p, 1 - k)][s] # Nil =>
         ChildNodeAmount(q) >= ChildNodeAmount(Append(p, 1 - k))

\* One iteration: slot j of child panel q is promoted into panel p, for a
\* removed node that had partner number s.
Promotes(p, s, q, j) ==
  \E k \in 0..1 :
    LET other == Append(p, 1 - k) IN
    /\ q = Append(p, k)
    /\ nodes[q][j] # Nil
    /\ \/ /\ nodes[q][s] = Nil /\ nodes[other][s] = Nil
          /\ \A i \in Partners : nodes[q][i] <= nodes[q][j] /\ nodes[other][i] <= nodes[q][j]
       \/ j = s /\ nodes[other][s] = Nil
       \/ /\ j = s /\ nodes[other][s] # Nil
          /\ \/ ChildNodeAmount(q) > ChildNodeAmount(other)
             \/ /\ ChildNodeAmount(q) = ChildNodeAmount(other)
                /\ nodes[q][s] > nodes[other][s]

Route(top, last) == {q \in Panels : AtOrAbove(top, q) /\ AtOrAbove(q, last)}
Toward(p, last) == SubSeq(last, 1, Len(p) + 1)

\* The whole loop, for the node n: it ends in panel last, and slot from[q] is
\* the one it empties in each panel q of the route.
PromotionRoute(n, last, from) ==
  LET top == node[n].panel
      s   == node[n].partner
      route == Route(top, last)
  IN /\ AtOrAbove(top, last)
     /\ from \in [route -> Partners]
     /\ from[top] = s
     /\ \A p \in route \ {last} :
          ~LoopEnds(p) /\ Promotes(p, s, Toward(p, last), from[Toward(p, last)])
     /\ LoopEnds(last)

\* Fault: the last node of the route is moved into every vacancy.
PromotedFromLast(p, last, from) == nodes[last][from[last]]

\* The node promoted into panel p of the route.
Promoted(p, last, from) == nodes[Toward(p, last)][from[Toward(p, last)]]

\* Fault: a promoted node keeps its old ContainerNodePanel and PartnerInt.
UnplaceKeepingFields(id, last, from) ==
  LET n     == nodeMap[id]
      s     == node[n].partner
      route == Route(node[n].panel, last)
  IN /\ nodes' = [p \in Panels |->
                    IF p \notin route THEN nodes[p]
                    ELSE IF p = last THEN [nodes[p] EXCEPT ![from[p]] = Nil]
                    ELSE [nodes[p] EXCEPT ![from[p]] = Nil,
                                          ![s] = Promoted(p, last, from)]]
     /\ node' = [c \in DOMAIN node \ {n} |-> node[c]]
     /\ nodeMap' = [nodeMap EXCEPT ![id] = Nil]
     /\ UNCHANGED <<made, depth>>

Unplace(id, last, from) ==
  LET n     == nodeMap[id]
      top   == node[n].panel
      s     == node[n].partner
      route == Route(top, last)
  IN /\ nodes' = [p \in Panels |->
                    IF p \notin route THEN nodes[p]
                    ELSE IF p = last THEN [nodes[p] EXCEPT ![from[p]] = Nil]
                    ELSE [nodes[p] EXCEPT ![from[p]] = Nil,
                                          ![s] = Promoted(p, last, from)]]
     /\ node' = [c \in DOMAIN node \ {n} |->
                   IF \E p \in route \ {last} : c = Promoted(p, last, from)
                   THEN [node[c] EXCEPT
                           !.panel = CHOOSE p \in route \ {last} :
                                       c = Promoted(p, last, from),
                           !.partner = s]
                   ELSE node[c]]
     /\ nodeMap' = [nodeMap EXCEPT ![id] = Nil]
     /\ UNCHANGED <<made, depth>>

\* Fault: the NodeMap entry is not deleted.
RemoveNodeKeepingEntry(id) ==
  /\ nodeMap[id] # Nil
  /\ nodeMap[id] \in DOMAIN node
  /\ \E last \in Below(node[nodeMap[id]].panel) :
       \E from \in [Route(node[nodeMap[id]].panel, last) -> Partners] :
         /\ PromotionRoute(nodeMap[id], last, from)
         /\ nodes' = [nodes EXCEPT ![last][from[last]] = Nil]
         /\ node' = [c \in DOMAIN node \ {nodeMap[id]} |-> node[c]]
         /\ UNCHANGED <<made, depth, nodeMap>>

RemoveNode(id) ==
  /\ nodeMap[id] # Nil
  /\ \E last \in Below(node[nodeMap[id]].panel) :
       \E from \in [Route(node[nodeMap[id]].panel, last) -> Partners] :
         /\ PromotionRoute(nodeMap[id], last, from)
         /\ Unplace(id, last, from)

Next == \E id \in NodeIDs : AddNode(id) \/ RemoveNode(id)

Spec == Init /\ [][Next]_vars

----------------------------------------------------------------------------
(* Properties *)

\* The state is well formed: levels are complete, and every recorded node is
\* one that was created.
TypeOK ==
  /\ made \in 0..MaxConns
  /\ depth \in Nat \ {0}
  /\ nodes \in [Panels -> [Partners -> 0..made]]
  /\ nodeMap \in [NodeIDs -> 0..made]
  /\ DOMAIN node \subseteq 1..made
  /\ \A c \in DOMAIN node :
       node[c] \in [id : NodeIDs, panel : Panels, partner : Partners]

\* The tree's two records of where a node is agree: ContainerNodePanel and
\* PartnerInt of a node lead to the slot that holds it, and a slot holds only
\* a node that leads back to it, whatever promotions moved it there.
SlotsMatchNodes ==
  /\ \A c \in DOMAIN node : nodes[node[c].panel][node[c].partner] = c
  /\ \A p \in Panels, j \in Partners :
       nodes[p][j] # Nil =>
         /\ nodes[p][j] \in DOMAIN node
         /\ node[nodes[p][j]].panel = p
         /\ node[nodes[p][j]].partner = j

\* NodeMap leads to a node of the tree that carries the NodeID asked for.
MapLeadsIntoTree ==
  \A id \in NodeIDs :
    nodeMap[id] # Nil =>
      nodeMap[id] \in DOMAIN node /\ node[nodeMap[id]].id = id

\* No node is connected below a panel that has a free slot.  Removal refills
\* the vacancies above it for this; it is what lets updateNodePosition (of the
\* node manager) count on three connectors, and RemoveNode find a node to promote.
FullAbove ==
  \A p, q \in Panels :
    Above(p, q) /\ ~Full(p) => \A j \in Partners : nodes[q][j] = Nil

\* RemoveNode's loop runs to its end for every registered node: it never
\* dereferences an empty slot of the child panel it promotes from.
RemovalDefined ==
  \A id \in NodeIDs :
    nodeMap[id] # Nil =>
      LET n == nodeMap[id] IN
      \E last \in Below(node[n].panel) :
        \E from \in [Route(node[n].panel, last) -> Partners] :
          PromotionRoute(n, last, from)

\* Whenever RemoveNode's loop goes on at a panel, one of the two panels of the
\* child cluster holds a node: target_node is never nil, even though the loop
\* decides by the nodes of the whole subtree (getChildNodeAmount).
PromotionHasCandidate ==
  \A p \in Panels :
    ~LoopEnds(p) =>
      \E k \in 0..1, j \in Partners : nodes[Append(p, k)][j] # Nil

\* AddNode always finds a slot, and only one: new_node is never left nil.
PlacementDefined ==
  \E d \in 1..(depth + 1) :
    /\ FreeLevel(d)
    /\ Cardinality({s \in Level(d) \X Partners : FreeSlot(d, s[1], s[2])}) = 1

\* A node that stays is never moved down, and a removal lifts it by one level
\* at most: into the connector panel of the cluster it was in.
Lifts ==
  \A c \in DOMAIN node \intersect DOMAIN node' :
    \/ node'[c] = node[c]
    \/ /\ Above(node'[c].panel, node[c].panel)
       /\ Len(node[c].panel) = Len(node'[c].panel) + 1

OneLevelUp == [][Lifts]_vars
============================================================================
