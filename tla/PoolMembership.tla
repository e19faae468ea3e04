--------------------------- MODULE PoolMembership ---------------------------
(***************************************************************************)
(* What the server promises the clients of one pool: nodes enter and       *)
(* leave one at a time; of each change every client that stays is told     *)
(* before the next one, the newcomer last and of everybody at once; and no *)
(* client's list ever changes but by such news.                            *)
(*                                                                         *)
(* NodeLifecycle shows how this is done with goroutines, channels and a    *)
(* lock (ConnectToPool and DisconnectFromPool).                            *)
(***************************************************************************)
CONSTANTS NodeIDs, None

VARIABLES
  members,  \* the nodes of the pool
  list,     \* list[id]: the nodes that id's client believes are in the pool
  news      \* the node that has entered or left, until all have been told

vars == <<members, list, news>>

Init ==
  /\ members = {}
  /\ list = [id \in NodeIDs |-> {}]
  /\ news = None

ADD_NODE(id) ==
  /\ news = None /\ id \notin members
  /\ members' = members \union {id}
  /\ news' = id
  /\ UNCHANGED list

\* Also for a node that was never let in: nothing is new then.
REMOVE_NODE(id) ==
  /\ news = None
  /\ members' = members \ {id}
  /\ list' = [list EXCEPT ![id] = {}]
  /\ news' = id

Told(m) == IF news \in members THEN list[m] \union {news} ELSE list[m] \ {news}

Tell(m) ==
  /\ news # None /\ m \in members \ {news}
  /\ list' = [list EXCEPT ![m] = Told(m)]
  /\ UNCHANGED <<members, news>>

\* All the others know; the newcomer is sent INIT_POOL.
INIT_POOL ==
  /\ news # None
  /\ \A m \in members \ {news} : list[m] = Told(m)
  /\ list' = IF news \in members THEN [list EXCEPT ![news] = members] ELSE list
  /\ news' = None
  /\ UNCHANGED members

Next ==
  \/ \E id \in NodeIDs : ADD_NODE(id) \/ REMOVE_NODE(id) \/ Tell(id)
  \/ INIT_POOL

Spec == Init /\ [][Next]_vars

\* Every change is told to all in the end.
FairSpec == Spec /\ WF_vars(INIT_POOL \/ \E m \in NodeIDs : Tell(m))
============================================================================
