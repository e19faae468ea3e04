-------------------------- MODULE MCNodeLifecycle --------------------------
(***************************************************************************)
(* Connections for TLC: each with a NodeID of its own, named like it, or   *)
(* two of them with the same one.                                          *)
(***************************************************************************)
EXTENDS NodeLifecycle, TLC

OwnId == [c \in Conns |-> c]
Symmetry == Permutations(Conns)

\* All that is relayed is bound for connection 2, whose client only listens; and
\* connection 1 is closed by its client, 2 by its client or by its manager.
OneWay ==
  /\ \A r \in Relays : relay'[r] \in {2, None}
  /\ reader'[2] # "forward"
  /\ ~failed'[1]

OneWayFairSpec == Init /\ [][Next /\ OneWay]_vars /\ Fairness

\* Connections 1 and 2 come from one device, 3 from another.
SharedId == (1 :> 1) @@ (2 :> 1) @@ (3 :> 3)

\* One course of events: 3 comes and keeps the Pool registered, then 1, then 2;
\* 1 goes, and after it the others.
InTurn ==
  /\ reader'[1] # "start" => reader[3] \notin {"start", "join"}
  /\ reader'[2] # "start" => reader[1] \notin {"start", "join"}
  /\ reader'[1] = "leave" => reader[2] = "reading"
  /\ reader'[2] = "leave" \/ reader'[3] = "leave" => manager[1] = "done"
  /\ \A c \in Conns : reader'[c] # "forward"

InTurnSpec == Init /\ [][Next /\ InTurn]_vars /\ Fairness
============================================================================
