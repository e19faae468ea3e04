--------------------------- MODULE MCClusterTree ---------------------------
(***************************************************************************)
(* The cluster tree for TLC.  NodeIDs are numbers, so that the next        *)
(* connection can come from a device that never connected before: the      *)
(* tree treats all identifiers alike, and this picks one of the equivalent *)
(* choices.                                                                *)
(***************************************************************************)
EXTENDS ClusterTree

VARIABLE course  \* the bounds on a behaviour's connections and removals

Ids == 1..MaxConns

\* Two levels with any removals at any time, and three levels that are grown
\* first: the connections made before the first one ends, and in all.
Courses == {[first |-> 0, all |-> 9, removals |-> 9],
            [first |-> 18, all |-> MaxConns, removals |-> 2]}

MCInit == Init /\ course \in Courses

\* Every connection comes from a new device.
FreshNext ==
  /\ \/ made < course.all /\ AddNode(made + 1)
     \/ /\ made >= course.first
        /\ made - Cardinality(DOMAIN node) < course.removals
        /\ \E id \in NodeIDs : RemoveNode(id)
  /\ UNCHANGED course

FreshSpec == MCInit /\ [][FreshNext]_<<vars, course>>
============================================================================
