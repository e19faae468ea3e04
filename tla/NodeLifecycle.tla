--------------------------- MODULE NodeLifecycle ---------------------------
(***************************************************************************)
(* The goroutines of the connections to one pool, and how they hand over   *)
(* to each other: for each connection the reader (WebsocketServer), which  *)
(* joins and leaves the pool under its write lock, the node manager        *)
(* (StartNodeManager) and the manager's timer; and the relays, short-lived *)
(* goroutines that carry one message to another node under the read lock   *)
(* (SendToNodeInPool).  The channels are unbuffered: a send is one step    *)
(* with its receive, and possible only while the manager waits in select.  *)
(*                                                                         *)
(* The module follows one Pool, the first one that ActivePools has for     *)
(* them.  It is taken out when it is empty; who connects after that is     *)
(* given another one and is elsewhere from then on, and a node that joins  *)
(* a Pool just taken out is left to PoolRegistry (NoneStranded).           *)
(*                                                                         *)
(* What a message says is left out, but for what it tells the client of    *)
(* the pool's nodes.  At most nine nodes are in the pool at a time: all    *)
(* are in the center cluster, and a position is sent to all the others.    *)
(***************************************************************************)
EXTENDS Integers, FiniteSets

CONSTANTS
  Conns,      \* the websocket connections
  NodeIDs,    \* the device ids they come with
  IdOf,       \* IdOf[c] is the NodeID of connection c
  Relays,     \* the relays that can be under way at once
  None        \* no connection

ASSUME LifecycleAssumption ==
  /\ IdOf \in [Conns -> NodeIDs]
  /\ None \notin Conns \union NodeIDs

CenterSlots == 9  \* bound on the nodes in the pool at a time

VARIABLES
  reader,   \* reader[c]: where WebsocketServer is
  todo,     \* todo[c]: the nodes c's reader still has to send to in this loop
  manager,  \* manager[c]: where StartNodeManager is
  timer,    \* timer[c]: where the goroutine behind timeoutTimer is
  failed,   \* failed[c]: clientErr is set, the websocket closed
  placed,   \* placed[c]: the manager has a curNodePosition
  pool,     \* the Pool is "active", in ActivePools, or "removed" from it
  tree,     \* the connections whose PoolNode is in a panel
  nodeMap,  \* NodeMap
  writer, pending,   \* who holds the pool's write lock, who waits for it
  holders, blocked,  \* the relays that hold the read lock, that wait for it
  relay,    \* relay[r]: the NodeID a relay is bound for, None when r is free
  roster    \* roster[c]: the NodeIDs c's manager has been given to tell its
            \* client are in the pool; once clientErr is set it drops what it
            \* is given, and the client is on its way out

managerVars == <<manager, timer, failed>>
clientVars == <<placed, roster>>
poolVars == <<pool, tree, nodeMap>>
lockVars == <<writer, pending, holders, blocked>>
vars == <<reader, todo, manager, timer, failed, placed, pool, tree, nodeMap,
          writer, pending, holders, blocked, relay, roster>>

chanClosing(c) == manager[c] \in {"drain", "done"}
Mapped == {nodeMap[id] : id \in NodeIDs} \ {None}
PresentIds == {id \in NodeIDs : nodeMap[id] # None}
Active == pool = "active"

Init ==
  /\ reader = [c \in Conns |-> "start"]
  /\ todo = [c \in Conns |-> {}]
  /\ manager = [c \in Conns |-> "select"]
  /\ timer = [c \in Conns |-> "sleep"]
  /\ failed = [c \in Conns |-> FALSE]
  /\ placed = [c \in Conns |-> FALSE]
  /\ pool = "active"
  /\ tree = {}
  /\ nodeMap = [id \in NodeIDs |-> None]
  /\ writer = None /\ pending = {}
  /\ holders = {} /\ blocked = {}
  /\ relay = [r \in Relays |-> None]
  /\ roster = [c \in Conns |-> {}]

----------------------------------------------------------------------------
(* The lock: sync.RWMutex.  A writer waits for the readers that hold it,    *)
(* and keeps new ones out; when it is done, those it kept out go first.     *)

Goto(c, place) == reader' = [reader EXCEPT ![c] = place]

AskLock(c, place) ==
  /\ pending' = pending \union {c}
  /\ Goto(c, place)
  /\ UNCHANGED <<todo, managerVars, clientVars, poolVars, writer, holders,
                 blocked, relay>>

\* Fault: the lock is not taken.
GetsNoLock(c) == c \in pending /\ pending' = pending \ {c}

GetsLock(c) ==
  /\ c \in pending /\ writer = None /\ holders = {}
  /\ pending' = pending \ {c}

TakesLock(c) == GetsLock(c) /\ writer' = c /\ UNCHANGED <<holders, blocked>>

Unlock == writer' = None /\ holders' = blocked /\ blocked' = {}

\* ActivePools.Remove, when NodeMap is empty.
RemoveIfEmpty == pool' = IF Mapped = {} THEN "removed" ELSE pool

\* A message is handed to the manager of d.
Hand(d) ==
  /\ manager[d] = "select"
  /\ manager' = [manager EXCEPT ![d] = "handling"]

----------------------------------------------------------------------------
(* Joining: ConnectToPool *)

StartJoin(c) == reader[c] = "start" /\ Active /\ AskLock(c, "join")

\* fetchPool loads another Pool, or fails.
StartElsewhere(c) ==
  /\ reader[c] = "start" /\ ~Active
  /\ Goto(c, "elsewhere")
  /\ UNCHANGED <<todo, managerVars, clientVars, poolVars, lockVars, relay>>

\* Fault: the early return skips pool.Unlock().
JoinRefusedHolding(c) ==
  /\ reader[c] = "join"
  /\ TakesLock(c)
  /\ RemoveIfEmpty
  /\ Goto(c, "leave")
  /\ UNCHANGED <<todo, managerVars, clientVars, tree, nodeMap, relay>>

\* AddDevice fails: the user is not, or no longer, a user of the pool.
JoinRefused(c) ==
  /\ reader[c] = "join"
  /\ GetsLock(c) /\ Unlock
  /\ RemoveIfEmpty
  /\ Goto(c, "leave")
  /\ UNCHANGED <<todo, managerVars, clientVars, tree, nodeMap, relay>>

\* AddNode puts the node into a panel and announces it to its neighbours.
Join(c) ==
  /\ reader[c] = "join" /\ Cardinality(tree) < CenterSlots
  /\ TakesLock(c)
  /\ tree' = tree \union {c}
  /\ todo' = [todo EXCEPT ![c] = tree]
  /\ Goto(c, "join_singles")
  /\ UNCHANGED <<managerVars, clientVars, pool, nodeMap, relay>>

Told(d, c) ==
  CASE reader[c] = "join_broadcast"  -> roster[d] \union {IdOf[c]}
    [] reader[c] = "leave_broadcast" -> roster[d] \ {IdOf[c]}
    [] OTHER                         -> roster[d]

\* One send of a loop over panels or over NodeMap; the order is left open.
SendNext(c) ==
  \E d \in todo[c] :
    /\ Hand(d)
    /\ todo' = [todo EXCEPT ![c] = @ \ {d}]
    /\ roster' = [roster EXCEPT ![d] = Told(d, c)]
    /\ UNCHANGED <<reader, timer, failed, placed, poolVars, lockVars, relay>>

\* Fault: the node's own position is not sent.
JoinUnplaced(c) ==
  /\ reader[c] = "join_singles" /\ todo[c] = {}
  /\ nodeMap' = [nodeMap EXCEPT ![IdOf[c]] = c]
  /\ todo' = [todo EXCEPT ![c] = Mapped \ {nodeMap[IdOf[c]]}]
  /\ Goto(c, "join_broadcast")
  /\ UNCHANGED <<managerVars, clientVars, pool, tree, lockVars, relay>>

\* AddNode ends with the node's own position and its entry in NodeMap; then
\* ConnectToPool announces it to the nodes with another NodeID.
JoinPlaced(c) ==
  /\ reader[c] = "join_singles" /\ todo[c] = {}
  /\ Hand(c)
  /\ placed' = [placed EXCEPT ![c] = TRUE]
  /\ nodeMap' = [nodeMap EXCEPT ![IdOf[c]] = c]
  /\ todo' = [todo EXCEPT ![c] = Mapped \ {nodeMap[IdOf[c]]}]
  /\ Goto(c, "join_broadcast")
  /\ UNCHANGED <<timer, failed, roster, pool, tree, lockVars, relay>>

\* INIT_POOL, then the lock is given up; the Pool is not empty.
JoinDone(c) ==
  /\ reader[c] = "join_broadcast" /\ todo[c] = {}
  /\ Hand(c)
  /\ roster' = [roster EXCEPT ![c] = PresentIds]
  /\ Unlock
  /\ Goto(c, "reading")
  /\ UNCHANGED <<todo, timer, failed, placed, poolVars, pending, relay>>

----------------------------------------------------------------------------
(* Reading from the client *)

\* A message: the reader does not look at clientErr, and ws.Close() does not
\* keep the client from sending.
Read(c) ==
  /\ reader[c] = "reading"
  /\ Goto(c, "forward")
  /\ UNCHANGED <<todo, managerVars, clientVars, poolVars, lockVars, relay>>

Forward(c) ==
  /\ reader[c] = "forward"
  /\ Hand(c)
  /\ Goto(c, "reading")
  /\ UNCHANGED <<todo, timer, failed, clientVars, poolVars, lockVars, relay>>

\* The read fails: the client closed, or sent nothing within the deadline.
ReadFails(c) ==
  /\ reader[c] = "reading"
  /\ Goto(c, "leave")
  /\ UNCHANGED <<todo, managerVars, clientVars, poolVars, lockVars, relay>>

----------------------------------------------------------------------------
(* Leaving: the deferred DisconnectFromPool, then closeChan *)

\* Fault: closeChan comes before DisconnectFromPool.
StartLeaveClosing(c) ==
  /\ reader[c] = "leave" /\ Active /\ manager[c] = "select"
  /\ pending' = pending \union {c}
  /\ manager' = [manager EXCEPT ![c] = "drain"]
  /\ Goto(c, "leave_lock")
  /\ UNCHANGED <<todo, timer, failed, clientVars, poolVars, writer, holders,
                 blocked, relay>>

StartLeave(c) == reader[c] = "leave" /\ Active /\ AskLock(c, "leave_lock")

\* DisconnectFromPool does not find the Pool any more, or finds another one.
LeaveNothing(c) ==
  /\ reader[c] = "leave" /\ ~Active
  /\ Goto(c, "closing")
  /\ UNCHANGED <<todo, managerVars, clientVars, poolVars, lockVars, relay>>

\* Fault: the node is deleted from NodeMap but stays in its panel.
LeaveKeepingPanel(c) ==
  /\ reader[c] = "leave_lock"
  /\ TakesLock(c)
  /\ nodeMap' = [nodeMap EXCEPT ![IdOf[c]] = None]
  /\ Goto(c, "leave_singles")
  /\ UNCHANGED <<todo, managerVars, clientVars, pool, tree, relay>>

\* RemoveNode: the node registered under the NodeID is taken out.
Leave(c) ==
  /\ reader[c] = "leave_lock"
  /\ TakesLock(c)
  /\ tree' = tree \ {nodeMap[IdOf[c]]}
  /\ nodeMap' = [nodeMap EXCEPT ![IdOf[c]] = None]
  /\ todo' = [todo EXCEPT ![c] = IF nodeMap[IdOf[c]] = None THEN {} ELSE tree']
  /\ Goto(c, "leave_singles")
  /\ UNCHANGED <<managerVars, clientVars, pool, relay>>

\* Fault: REMOVE_NODE is not sent.
LeaveSilently(c) ==
  /\ reader[c] = "leave_singles" /\ todo[c] = {}
  /\ RemoveIfEmpty
  /\ Goto(c, "leave_broadcast")
  /\ UNCHANGED <<todo, managerVars, clientVars, tree, nodeMap, lockVars, relay>>

\* The Pool is taken out of ActivePools, or there are nodes to tell.
LeaveBroadcast(c) ==
  /\ reader[c] = "leave_singles" /\ todo[c] = {}
  /\ RemoveIfEmpty
  /\ todo' = [todo EXCEPT ![c] = Mapped]
  /\ Goto(c, "leave_broadcast")
  /\ UNCHANGED <<managerVars, clientVars, tree, nodeMap, lockVars, relay>>

\* Fault: pool.Unlock() is missing.
LeaveDoneHolding(c) ==
  /\ reader[c] = "leave_broadcast" /\ todo[c] = {}
  /\ Goto(c, "closing")
  /\ UNCHANGED <<todo, managerVars, clientVars, poolVars, lockVars, relay>>

LeaveDone(c) ==
  /\ reader[c] = "leave_broadcast" /\ todo[c] = {}
  /\ Unlock
  /\ Goto(c, "closing")
  /\ UNCHANGED <<todo, managerVars, clientVars, poolVars, pending, relay>>

\* closeChan: the manager stops taking messages.
Close(c) ==
  /\ reader[c] = "closing"
  /\ manager[c] = "select"
  /\ manager' = [manager EXCEPT ![c] = "drain"]
  /\ Goto(c, "done")
  /\ UNCHANGED <<todo, timer, failed, clientVars, poolVars, lockVars, relay>>

----------------------------------------------------------------------------
(* The node manager and its timer *)

\* A message has been handled: it asked for nothing more, ...
Handled(c) ==
  /\ manager[c] = "handling"
  /\ manager' = [manager EXCEPT ![c] = "select"]
  /\ UNCHANGED <<reader, todo, timer, failed, clientVars, poolVars,
                 lockVars, relay>>

\* ... or the client was found not compliant or not reachable, ...
HandledFailing(c) ==
  /\ manager[c] = "handling"
  /\ manager' = [manager EXCEPT ![c] = "select"]
  /\ failed' = [failed EXCEPT ![c] = TRUE]
  /\ UNCHANGED <<reader, todo, timer, clientVars, poolVars, lockVars, relay>>

\* ... or a message for another node was left to a relay.
HandledRelaying(c, r, id) ==
  /\ manager[c] = "handling" /\ ~failed[c]
  /\ id # IdOf[c]
  /\ relay[r] = None
  /\ relay' = [relay EXCEPT ![r] = id]
  /\ manager' = [manager EXCEPT ![c] = "select"]
  /\ UNCHANGED <<reader, todo, timer, failed, clientVars, poolVars, lockVars>>

\* Fault: the goroutine does not look at chanClosing.
TimerGoesOn(c) ==
  /\ timer[c] = "sleep"
  /\ timer' = [timer EXCEPT ![c] = "send"]
  /\ UNCHANGED <<reader, todo, manager, failed, clientVars, poolVars,
                 lockVars, relay>>

\* The goroutine looks at chanClosing at its start and whenever it has slept.
TimerCheck(c) ==
  /\ timer[c] = "sleep"
  /\ timer' = [timer EXCEPT ![c] = IF chanClosing(c) THEN "closed" ELSE "send"]
  /\ UNCHANGED <<reader, todo, manager, failed, clientVars, poolVars,
                 lockVars, relay>>

\* The manager looks for acknowledgements that are late ("handling"), or is
\* past that and only empties the channel.
Tick(c) ==
  /\ timer[c] = "send"
  /\ manager[c] \in {"select", "drain"}
  /\ timer' = [timer EXCEPT ![c] = "sleep"]
  /\ manager' = [manager EXCEPT ![c] = IF @ = "select" THEN "handling" ELSE @]
  /\ UNCHANGED <<reader, todo, failed, clientVars, poolVars, lockVars, relay>>

ManagerEnds(c) ==
  /\ manager[c] = "drain" /\ timer[c] = "closed"
  /\ manager' = [manager EXCEPT ![c] = "done"]
  /\ UNCHANGED <<reader, todo, timer, failed, clientVars, poolVars,
                 lockVars, relay>>

----------------------------------------------------------------------------
(* Relays: SendToNodeInPool *)

RelayLocks(r) ==
  /\ relay[r] # None /\ r \notin holders \union blocked /\ Active
  /\ IF writer = None /\ pending = {}
     THEN holders' = holders \union {r} /\ UNCHANGED blocked
     ELSE blocked' = blocked \union {r} /\ UNCHANGED holders
  /\ UNCHANGED <<reader, todo, managerVars, clientVars, poolVars, writer,
                 pending, relay>>

\* SendToNodeInPool does not find the Pool, or finds another one.
RelayFindsNoPool(r) ==
  /\ relay[r] # None /\ r \notin holders \union blocked /\ ~Active
  /\ relay' = [relay EXCEPT ![r] = None]
  /\ UNCHANGED <<reader, todo, managerVars, clientVars, poolVars, lockVars>>

\* Fault: the send is not made conditional on the node being there.
RelayEndsAtNode(r) ==
  /\ r \in holders
  /\ nodeMap[relay[r]] # None
  /\ Hand(nodeMap[relay[r]])
  /\ relay' = [relay EXCEPT ![r] = None]
  /\ holders' = holders \ {r}
  /\ UNCHANGED <<reader, todo, timer, failed, clientVars, poolVars, writer,
                 pending, blocked>>

RelayEnds(r) ==
  /\ r \in holders
  /\ IF nodeMap[relay[r]] = None THEN UNCHANGED manager ELSE Hand(nodeMap[relay[r]])
  /\ relay' = [relay EXCEPT ![r] = None]
  /\ holders' = holders \ {r}
  /\ UNCHANGED <<reader, todo, timer, failed, clientVars, poolVars, writer,
                 pending, blocked>>

----------------------------------------------------------------------------
ReaderStep(c) ==
  \/ StartJoin(c) \/ StartElsewhere(c) \/ JoinRefused(c) \/ Join(c)
  \/ SendNext(c) \/ JoinPlaced(c) \/ JoinDone(c) \/ Forward(c)
  \/ StartLeave(c) \/ LeaveNothing(c) \/ Leave(c) \/ LeaveBroadcast(c)
  \/ LeaveDone(c) \/ Close(c)

ClientStep(c) == Read(c) \/ ReadFails(c)

HandlingEnds(c) ==
  \/ Handled(c) \/ HandledFailing(c)
  \/ \E r \in Relays, id \in NodeIDs : HandledRelaying(c, r, id)

TimerStep(c) == TimerCheck(c) \/ Tick(c)

RelayStep(r) == RelayLocks(r) \/ RelayFindsNoPool(r) \/ RelayEnds(r)

\* Nothing is left to run.
Over ==
  /\ \A c \in Conns : manager[c] = "done" /\ reader[c] = "done"
  /\ \A r \in Relays : relay[r] = None
  /\ UNCHANGED vars

Next ==
  \/ \E c \in Conns : \/ ReaderStep(c) \/ ClientStep(c) \/ HandlingEnds(c)
                      \/ TimerStep(c) \/ ManagerEnds(c)
  \/ \E r \in Relays : RelayStep(r)
  \/ Over

Spec == Init /\ [][Next]_vars

\* Every goroutine that can go on does, and of the sends that wait for a node
\* manager each is taken in the end: a manager's select chooses at random among
\* what is ready.  A read returns within its deadline, with a message or with an
\* error; nothing is assumed of which, also when the manager has given up.
Fairness ==
  /\ \A c \in Conns :
       /\ SF_vars(ReaderStep(c)) /\ WF_vars(ClientStep(c))
       /\ WF_vars(HandlingEnds(c)) /\ SF_vars(TimerStep(c)) /\ WF_vars(ManagerEnds(c))
  /\ \A r \in Relays : SF_vars(RelayStep(r))

FairSpec == Spec /\ Fairness

----------------------------------------------------------------------------
(* Properties *)

\* The state is well formed: among the rest, a connection is in the middle of
\* a change of the pool exactly while it holds the write lock, and then no relay
\* is in the pool.
TypeOK ==
  /\ reader \in [Conns -> {"start", "join", "join_singles", "join_broadcast",
                           "reading", "forward", "leave", "leave_lock",
                           "leave_singles", "leave_broadcast", "closing", "done",
                           "elsewhere"}]
  /\ todo \in [Conns -> SUBSET Conns]
  /\ manager \in [Conns -> {"select", "handling", "drain", "done"}]
  /\ timer \in [Conns -> {"sleep", "send", "closed"}]
  /\ failed \in [Conns -> BOOLEAN]
  /\ placed \in [Conns -> BOOLEAN]
  /\ pool \in {"active", "removed"}
  /\ tree \subseteq Conns
  /\ nodeMap \in [NodeIDs -> Conns \union {None}]
  /\ writer \in Conns \union {None} /\ pending \subseteq Conns
  /\ holders \subseteq Relays /\ blocked \subseteq Relays
  /\ relay \in [Relays -> NodeIDs \union {None}]
  /\ roster \in [Conns -> SUBSET NodeIDs]
  /\ \A c \in Conns :
       writer = c <=> reader[c] \in {"join_singles", "join_broadcast",
                                    "leave_singles", "leave_broadcast"}
  /\ writer # None => holders = {}

\* A device has no second connection in the pool while its first one is there:
\* what the properties below depend on, and the code leaves to the clients.
Entered(c) == reader[c] \notin {"start", "join", "closing", "done", "elsewhere"}
OneAtATime ==
  \A c, d \in Conns : c # d /\ Entered(c) /\ Entered(d) => IdOf[c] # IdOf[d]

\* Nobody waits to join a Pool that has been taken out of ActivePools meanwhile.
\* Where that happens is PoolRegistry's question; the properties below are about
\* a Pool that stays registered for those who join it.
NoneStranded == ~Active => \A c \in Conns : reader[c] # "join"

Serves(c) == manager[c] \in {"select", "handling"}

\* Whoever holds the lock only ever waits for managers that still take messages:
\* the holder's remaining receivers, and the target of every relay.
SendsAreTaken ==
  /\ \A c \in Conns : \A d \in todo[c] : Serves(d)
  /\ \A r \in holders :
       nodeMap[relay[r]] # None => Serves(nodeMap[relay[r]])

\* A manager is sent another node's position only when it has its own: it would
\* index an empty Path otherwise.
PositionFirst ==
  \A c \in Conns : reader[c] \in {"join_singles", "leave_singles"} =>
    \A d \in todo[c] : placed[d]

\* The node whose entering or leaving is being told under the write lock.
News ==
  IF writer # None /\ reader[writer] # "join_singles" THEN IdOf[writer] ELSE None

\* What this adds up to for the clients.
Membership ==
  INSTANCE PoolMembership WITH
    members <- PresentIds,
    list <- [id \in NodeIDs |-> IF nodeMap[id] = None THEN {} ELSE roster[nodeMap[id]]],
    news <- News

\* The connections keep the promise of PoolMembership: of all the steps of the
\* goroutines, those that a client can notice are changes one at a time, each
\* told to all before the next.
MembershipKept == Membership!Spec

\* And each change is told to the end, whatever the receivers' managers do.
NewsSpreads == Membership!FairSpec

\* A connection that has ended is in no panel, and whenever the write lock is
\* free, NodeMap and the panels hold the same nodes: nobody can be sent to that
\* cannot be removed.
GoneForGood ==
  /\ \A c \in Conns : reader[c] \in {"closing", "done"} => c \notin tree
  /\ writer = None => tree = Mapped

\* A client that does not go on sending for ever is closed in the end, and its
\* goroutines end: the reader, the manager and the timer.
Closed(c) == reader[c] = "done" /\ manager[c] = "done" /\ timer[c] = "closed"

EventuallyClosed ==
  \A c \in Conns :
    []<><<Read(c)>>_vars \/ <>(Closed(c) \/ reader[c] = "elsewhere")

\* A client that connects is let in or refused in the end, by this Pool or another.
EventuallyAnswered ==
  \A c \in Conns : reader[c] = "start" ~> reader[c] \in {"reading", "leave", "elsewhere"}

\* A message left to a relay reaches its node, or the node or the Pool is gone.
RelaysEnd == \A r \in Relays : relay[r] # None ~> relay[r] = None
============================================================================
