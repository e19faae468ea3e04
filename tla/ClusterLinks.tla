---------------------------- MODULE ClusterLinks ----------------------------
(***************************************************************************)
(* The links inside one cluster, for every way its slots can be taken.     *)
(* Each node manager decides alone, from its own view, which nodes its     *)
(* client must be linked with (NodePosition); here the decisions of all    *)
(* the managers of a cluster are put side by side.                         *)
(*                                                                         *)
(* Slots are taken and freed in any order; the connector panel of a        *)
(* cluster that is not the center is full, as ClusterTree shows (FullAbove)*)
(* whenever a node is in the cluster.  A node is named by its slot.        *)
(***************************************************************************)
EXTENDS NodePosition, FiniteSets

VARIABLES
  center,  \* whether the cluster is the center of the tree
  taken    \* the slots <<panel, partner>> that hold a node

vars == <<center, taken>>

AllSlots == (0..2) \X Slots
Connector == IF center THEN {} ELSE {2} \X Slots

Name(i, j) == IF <<i, j>> \in taken THEN 1 + 3 * i + j ELSE Nobody

\* The view of the node in slot <<i, j>>, as updateNodePosition (pool.go) fills
\* it: a connector node sees the cluster as the one below it, its own panel as
\* a full panel 1 of the cluster above.
View(i, j) ==
  IF <<i, j>> \in Connector
  THEN [path |-> <<1>>, partner |-> j, center |-> TRUE,
        parent |-> [a \in 0..2 |-> [b \in Slots |-> IF a = 1 THEN Name(2, b) ELSE Nobody]],
        child |-> [a \in 0..1 |-> [b \in Slots |-> Name(a, b)]]]
  ELSE [path |-> IF center THEN <<i>> ELSE <<0, i>>, partner |-> j, center |-> center,
        parent |-> [a \in 0..2 |-> [b \in Slots |-> Name(a, b)]],
        child |-> [a \in 0..1 |-> [b \in Slots |-> Nobody]]]

\* The slots that the node in slot s wants to be linked with.
Wants(s) ==
  {t \in taken : Name(t[1], t[2]) \in Links(View(s[1], s[2]))}

\* Whether the node of s is the one told to connect to the node of t, when
\* neither is new to its panel.
Asks(s, t) == t \in Wants(s) /\ Initiates(View(s[1], s[2]), FALSE, Name(t[1], t[2]))

Init == center \in BOOLEAN /\ taken = Connector
Enter(s) == s \notin taken /\ taken' = taken \union {s} /\ UNCHANGED center
Leave(s) == s \in taken \ Connector /\ taken' = taken \ {s} /\ UNCHANGED center
Next == \E s \in AllSlots : Enter(s) \/ Leave(s)
Spec == Init /\ [][Next]_vars

----------------------------------------------------------------------------
(* Properties *)

SamePanel(s, t) == s[1] = t[1]

\* Two managers that never speak to each other agree on every link: a node
\* wants a link with exactly the nodes that want one with it; and of its two
\* ends, when they are in different panels, exactly one is told to connect:
\* never both (two offers cross), never neither (no link).
LinksAgree ==
  \A s, t \in taken :
    t \in Wants(s) => /\ s \in Wants(t)
                      /\ ~SamePanel(s, t) => (Asks(s, t) <=> ~Asks(t, s))

\* What can be reached over the links inside a set of nodes, from one of them.
ReachedIn(nodes) ==
  LET reach[k \in 0..Cardinality(nodes)] ==
        IF k = 0 THEN {CHOOSE s \in nodes : TRUE}
        ELSE LET known == reach[k - 1]
             IN known \union (nodes \intersect UNION {Wants(s) : s \in known})
  IN reach[Cardinality(nodes)]

\* Every node of the cluster can reach every other over the links, and still
\* can when one of them is lost and nobody has been told yet.
SurvivesOneLoss ==
  /\ taken # {} => ReachedIn(taken) = taken
  /\ \A s \in taken :
       taken # {s} => ReachedIn(taken \ {s}) = taken \ {s}
============================================================================
