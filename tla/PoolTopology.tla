---------------------------- MODULE PoolTopology ----------------------------
(***************************************************************************)
(* The cluster tree together with the node managers that follow it.  Every *)
(* change of the tree ends in calls of updateNodePosition (pool.go), which *)
(* send each node concerned its new position; every manager keeps a copy   *)
(* of its neighbourhood from these messages (curNodePosition), and tells   *)
(* its client which nodes to connect to and to disconnect from.            *)
(*                                                                         *)
(* The messages of one change are sent while the pool's write lock is held *)
(* and each is received before the next is sent (the node channels are     *)
(* unbuffered), so a manager handles its messages of the change in the     *)
(* order of the calls and before the next change: one step of this module. *)
(* NodeLifecycle models the hand-over itself.  All this is said of clients *)
(* that are connected: once clientErr is set, a manager drops what it is   *)
(* given.                                                                  *)
(*                                                                         *)
(* A node's NodeID is its number: every connection comes from a device     *)
(* that has no other.                                                      *)
(***************************************************************************)
EXTENDS NodePosition, FiniteSets

CONSTANT MaxConns  \* bound on the connections of a behaviour

ASSUME TopologyAssumption == MaxConns \in Nat

VARIABLES
  made, depth, nodes, nodeMap, node,  \* the tree, see ClusterTree
  view,    \* view[c] is curNodePosition of c's node manager
  states,  \* states[c]: the nodes that are active in nodeStates of c's manager
  linked,  \* the pairs of nodes whose connection has been asked for and not
           \* been cut by either end since
  dropped  \* dropped[c]: the nodes c's client was told to disconnect from in
           \* the last change of the tree, whatever it was told after that

Tree == INSTANCE ClusterTree WITH NodeIDs <- 1..MaxConns, PanelSize <- 3

treeVars == <<made, depth, nodes, nodeMap, node>>
vars == <<made, depth, nodes, nodeMap, node, view, states, linked, dropped>>

Members == DOMAIN node

----------------------------------------------------------------------------
(* Paths and positions *)

Front(p) == SubSeq(p, 1, Len(p) - 1)

\* PoolNodePanel.Path.  It is made by append(connector.Path, k), which writes
\* into the connector's array when that has room: when its length is not one of
\* the capacities that append grows through.  Both child panels then share the
\* array, and the second, k = 1, overwrites the number of the first.
Capacities == {1, 2, 4, 8, 16}
Path(p) ==
  [m \in 1..Len(p) |-> IF m = 1 \/ m - 1 \in Capacities THEN p[m] ELSE 1]

getPanelNumber(p) == Path(p)[Len(p)]

ParentPanel(p, i) ==
  IF i = 2 /\ Len(p) > 1 THEN Front(p) ELSE Append(Front(p), i)

\* PNCMUpdateNodePositionData for the node in slot s of panel p.
Position(tree, p, s) ==
  [path |-> Path(p), partner |-> s, center |-> Len(p) = 1,
   parent |-> [i \in 0..2 |-> tree[ParentPanel(p, i)]],
   child |-> [i \in 0..1 |->
                IF Append(p, i) \in DOMAIN tree THEN tree[Append(p, i)]
                ELSE [j \in Slots |-> Nobody]]]

\* Fault: nodes of the connector panel are told a position of their own cluster.
AnnouncedInOwn(p, s, q) ==
  IF Front(q) = Front(p) \/ q = Front(p) THEN {3 * getPanelNumber(p) + s}
  ELSE IF Front(q) = p THEN {6 + s}
  ELSE {}

\* The position under which slot s of panel p is announced to a node in panel
\* q: as one of its own cluster, of the cluster below, or as a connector.
Announced(p, s, q) ==
  IF Front(q) = Front(p) THEN {3 * getPanelNumber(p) + s}
  ELSE IF q = Front(p) THEN {9 + 3 * getPanelNumber(p) + s}
  ELSE IF Front(q) = p THEN {6 + s}
  ELSE {}

----------------------------------------------------------------------------
(* The node manager, for one message.  m is its part of the state, with the *)
(* nodes that its client has been told to connect to, and to disconnect     *)
(* from, in this change of the tree.                                        *)

\* Fault: DISCONNECT_NODE is not sent.
RepositionQuietly(m, v, promoted) ==
  LET new == Links(v) \ m.states IN
  [view |-> v, states |-> Links(v),
   asked |-> m.asked \union {id \in new : Initiates(v, promoted, id)},
   cut |-> m.cut, dropped |-> m.dropped]

\* updateNodePosition of the node manager.
Reposition(m, v, promoted) ==
  LET new  == Links(v) \ m.states
      gone == m.states \ Links(v)
      asks == {id \in new : Initiates(v, promoted, id)}
  IN [view |-> v, states |-> Links(v),
      asked |-> (m.asked \ gone) \union asks,
      cut |-> (m.cut \ asks) \union gone,
      dropped |-> m.dropped \union gone]

\* A call n.updateNodePosition() reaches the manager of c: who is the node that
\* moved into slot <<panel, partner>>, Nobody when the slot was left empty.
Handle(m, c, call, tree, place) ==
  IF c = call.who
  THEN Reposition(m, Position(tree, call.panel, call.partner), TRUE)
  ELSE LET at == Announced(call.panel, call.partner, place[c].panel) IN
       IF at = {} THEN m
       ELSE Reposition(m, UpdateSingle(m.view, CHOOSE x \in at : TRUE, call.who), FALSE)

After(c, calls, tree, place) ==
  LET start == IF c \in Members
               THEN [view |-> view[c], states |-> states[c], asked |-> {}, cut |-> {}, dropped |-> {}]
               ELSE [view |-> BlankView, states |-> {}, asked |-> {}, cut |-> {}, dropped |-> {}]
      m[k \in 0..Len(calls)] ==
        IF k = 0 THEN start ELSE Handle(m[k - 1], c, calls[k], tree, place)
  IN m[Len(calls)]

\* All the managers have handled the calls.  A cut counts whenever the other
\* end asks: the two clients may be told in either order.
Announce(calls) ==
  LET m == [c \in DOMAIN node' |-> After(c, calls, nodes', node')]
      pairs == {{a, b} : a, b \in DOMAIN node'}
  IN /\ view' = [c \in DOMAIN node' |-> m[c].view]
     /\ states' = [c \in DOMAIN node' |-> m[c].states]
     /\ dropped' = [c \in DOMAIN node' |-> m[c].dropped]
     /\ linked' = {l \in pairs :
                     /\ l \in linked \/ \E a \in l : l \ {a} \subseteq m[a].asked /\ l # {a}
                     /\ ~\E a \in l : l # {a} /\ l \ {a} \subseteq m[a].cut}

----------------------------------------------------------------------------
Init ==
  /\ Tree!Init
  /\ view = <<>>
  /\ states = <<>>
  /\ linked = {}
  /\ dropped = <<>>

AddNode(id) ==
  /\ made < MaxConns
  /\ \E d \in 1..(depth + 1) :
       /\ Tree!FreeLevel(d)
       /\ \E p \in Tree!Level(d), j \in Slots :
            /\ Tree!FreeSlot(d, p, j)
            /\ Tree!Place(id, d, p, j)
            /\ Announce(<<[who |-> id, panel |-> p, partner |-> j]>>)

\* Fault: the slot that is left empty is announced first.
RemovalCallsUp(n, last, from) ==
  LET top == Len(node[n].panel)
      size == Len(last) - top + 1
  IN [k \in 1..size |->
       LET p == SubSeq(last, 1, top + size - k) IN
       IF p = last THEN [who |-> Nobody, panel |-> p, partner |-> from[p]]
       ELSE [who |-> Tree!Promoted(p, last, from), panel |-> p,
             partner |-> node[n].partner]]

\* The calls of RemoveNode: the promoted nodes from the top down, then the
\* removed node, nameless, for the slot that is left empty.
RemovalCalls(n, last, from) ==
  LET top == Len(node[n].panel) IN
  [k \in 1..(Len(last) - top + 1) |->
     LET p == SubSeq(last, 1, top + k - 1) IN
     IF p = last THEN [who |-> Nobody, panel |-> p, partner |-> from[p]]
     ELSE [who |-> Tree!Promoted(p, last, from), panel |-> p,
           partner |-> node[n].partner]]

RemoveNode(id) ==
  /\ nodeMap[id] # Nobody
  /\ \E last \in Tree!Below(node[nodeMap[id]].panel) :
       \E from \in [Tree!Route(node[nodeMap[id]].panel, last) -> Slots] :
         /\ Tree!PromotionRoute(nodeMap[id], last, from)
         /\ Tree!Unplace(id, last, from)
         /\ Announce(RemovalCalls(nodeMap[id], last, from))

Next == AddNode(made + 1) \/ \E id \in 1..MaxConns : RemoveNode(id)

Spec == Init /\ [][Next]_vars

----------------------------------------------------------------------------
(* Properties *)

\* The copy that a manager keeps from single-slot messages is the tree.
ViewsMatchTree ==
  \A c \in Members : view[c] = Position(nodes, node[c].panel, node[c].partner)

\* Two managers agree on whether their nodes are linked, though each was sent
\* other messages, and no node is to be linked with itself or with a node that
\* has left.
LinksAgree ==
  \A a \in Members :
    states[a] \subseteq Members \ {a} /\ \A b \in states[a] : a \in states[b]

\* Two nodes are linked for their managers if and only if one of the clients was
\* told to connect and neither was told to disconnect since: no link is missing
\* that nobody was asked for, and none is left over that both gave up.
LinksMade ==
  \A a, b \in Members : a # b => ({a, b} \in linked <=> b \in states[a])

ReachedIn(group) ==
  LET reach[k \in 0..Cardinality(group)] ==
        IF k = 0 THEN {CHOOSE s \in group : TRUE}
        ELSE LET known == reach[k - 1]
             IN known \union (group \intersect UNION {states[s] : s \in known})
  IN reach[Cardinality(group)]

\* The links hold the whole pool together, across the levels of the tree, and
\* still do when any one node is lost.
PoolSurvivesOneLoss ==
  /\ Members # {} => ReachedIn(Members) = Members
  /\ \A c \in Members :
       Members # {c} => ReachedIn(Members \ {c}) = Members \ {c}

\* A change of the tree makes no client drop, even for a moment, a connection
\* to a node that its node is linked with before and after the change.
KeepsWhatStays ==
  \A c \in Members \intersect DOMAIN node' :
    dropped'[c] \intersect states[c] \intersect states'[c] = {}

LinksKept == [][KeepsWhatStays]_vars

\* A node is never told to connect to itself.
NoSelfLink == \A c \in Members : c \notin states[c]
============================================================================
