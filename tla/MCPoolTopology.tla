-------------------------- MODULE MCPoolTopology ---------------------------
(***************************************************************************)
(* Node managers and tree for TLC: the pool first grows to a given size,   *)
(* then nodes leave and come in any order.                                 *)
(***************************************************************************)
EXTENDS PoolTopology

CONSTANTS
  Courses,     \* the courses a behaviour can take, see below
  MaxRemovals  \* bound on the removals in a behaviour

VARIABLE course

\* The connections made before the first one ends, and those made in all.
TwoAndThreeLevels == {[first |-> 0, all |-> 11], [first |-> 28, all |-> 28]}
OnlyGrowing == {[first |-> MaxConns, all |-> MaxConns]}

MCInit == Init /\ course \in Courses

MCNext ==
  /\ \/ /\ made < course.all
        /\ AddNode(made + 1)
     \/ /\ made >= course.first
        /\ made - Cardinality(Members) < MaxRemovals
        /\ \E id \in Members : RemoveNode(id)
  /\ UNCHANGED course

MCSpec == MCInit /\ [][MCNext]_<<vars, course>>
============================================================================
