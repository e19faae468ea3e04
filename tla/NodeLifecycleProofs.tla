------------------------ MODULE NodeLifecycleProofs ------------------------
(***************************************************************************)
(* Theorems about the goroutines of a pool's connections, for every set of *)
(* connections, of NodeIDs and of relays, and any assignment of NodeIDs to *)
(* connections.  Beyond the types, they hold as long as a device has one   *)
(* connection in the pool at a time (OneAtATime): the run life_shared      *)
(* shows what happens otherwise.  And they are about a Pool that stays     *)
(* registered for those who are about to join it (NoneStranded): the run   *)
(* reg_race shows that it may not.                                         *)
(***************************************************************************)
EXTENDS NodeLifecycle, TLAPS

(* Nobody holds the lock at first. *)
LEMMA InitTypes == Init => TypeOK
BY LifecycleAssumption DEF Init, TypeOK

(* The lock stays with the one reader that is in the middle of a change, and *)
(* keeps the relays out.                                                     *)
LEMMA StepTypes == TypeOK /\ [Next]_vars => TypeOK'
<1> SUFFICES ASSUME TypeOK, [Next]_vars PROVE TypeOK'
  OBVIOUS
<1> USE LifecycleAssumption DEF TypeOK, Goto, managerVars, clientVars, poolVars, lockVars
<1>1. ASSUME NEW c \in Conns, StartJoin(c) \/ StartElsewhere(c) PROVE TypeOK'
  BY <1>1 DEF StartJoin, StartElsewhere, AskLock
<1>2. ASSUME NEW c \in Conns, JoinRefused(c) PROVE TypeOK'
  BY <1>2 DEF JoinRefused, GetsLock, Unlock, RemoveIfEmpty
<1>3. ASSUME NEW c \in Conns, Join(c) PROVE TypeOK'
  BY <1>3 DEF Join, TakesLock, GetsLock
<1>4. ASSUME NEW c \in Conns, SendNext(c) PROVE TypeOK'
  BY <1>4 DEF SendNext, Hand, Told
<1>5. ASSUME NEW c \in Conns, JoinPlaced(c) PROVE TypeOK'
  BY <1>5 DEF JoinPlaced, Hand, Mapped
<1>6. ASSUME NEW c \in Conns, JoinDone(c) PROVE TypeOK'
  BY <1>6 DEF JoinDone, Hand, PresentIds, Unlock
<1>7. ASSUME NEW c \in Conns, Forward(c) PROVE TypeOK'
  BY <1>7 DEF Forward, Hand
<1>8. ASSUME NEW c \in Conns, StartLeave(c) \/ LeaveNothing(c) PROVE TypeOK'
  BY <1>8 DEF StartLeave, LeaveNothing, AskLock
<1>9. ASSUME NEW c \in Conns, Leave(c) PROVE TypeOK'
  BY <1>9 DEF Leave, TakesLock, GetsLock
<1>10. ASSUME NEW c \in Conns, LeaveBroadcast(c) PROVE TypeOK'
  BY <1>10 DEF LeaveBroadcast, Mapped, RemoveIfEmpty
<1>11. ASSUME NEW c \in Conns, LeaveDone(c) PROVE TypeOK'
  BY <1>11 DEF LeaveDone, Unlock
<1>12. ASSUME NEW c \in Conns, Close(c) PROVE TypeOK'
  BY <1>12 DEF Close
<1>13. ASSUME NEW c \in Conns, ClientStep(c) PROVE TypeOK'
  BY <1>13 DEF ClientStep, Read, ReadFails
<1>14. ASSUME NEW c \in Conns, Handled(c) PROVE TypeOK'
  BY <1>14 DEF Handled
<1>15. ASSUME NEW c \in Conns, HandledFailing(c) PROVE TypeOK'
  <2>1. failed' \in [Conns -> BOOLEAN]
    BY <1>15, Zenon DEF HandledFailing
  <2> QED
    BY <1>15, <2>1 DEF HandledFailing
<1>16. ASSUME NEW c \in Conns, NEW r \in Relays, NEW id \in NodeIDs,
              HandledRelaying(c, r, id)
       PROVE TypeOK'
  BY <1>16 DEF HandledRelaying
<1>17. ASSUME NEW c \in Conns, TimerStep(c) PROVE TypeOK'
  BY <1>17 DEF TimerStep, TimerCheck, Tick
<1>18. ASSUME NEW c \in Conns, ManagerEnds(c) PROVE TypeOK'
  BY <1>18 DEF ManagerEnds
<1>19. ASSUME NEW r \in Relays, RelayLocks(r) \/ RelayFindsNoPool(r) PROVE TypeOK'
  BY <1>19 DEF RelayLocks, RelayFindsNoPool
<1>20. ASSUME NEW r \in Relays, RelayEnds(r) PROVE TypeOK'
  BY <1>20 DEF RelayEnds, Hand
<1>21. CASE UNCHANGED vars
  BY <1>21 DEF vars
<1>22. CASE Over
  BY <1>22, <1>21 DEF Over
<1> QED
  BY <1>1, <1>2, <1>3, <1>4, <1>5, <1>6, <1>7, <1>8, <1>9, <1>10, <1>11, <1>12,
     <1>13, <1>14, <1>16, <1>17, <1>18, <1>19, <1>20, <1>21, <1>22, <1>15
     DEF Next, ReaderStep, HandlingEnds, RelayStep

(* The state is well formed: in particular, a reader is in the middle of a  *)
(* change of the pool exactly while it holds the write lock (pool.Lock in   *)
(* ConnectToPool and DisconnectFromPool), and no relay is in the pool then. *)
THEOREM TypeCorrect == Spec => []TypeOK
BY InitTypes, StepTypes, PTL DEF Spec
----------------------------------------------------------------------------
(* Who is where *)

InChange(c) ==
  reader[c] \in {"join_singles", "join_broadcast", "leave_singles", "leave_broadcast"}
InMap(c) ==
  reader[c] \in {"join_broadcast", "reading", "forward", "leave", "leave_lock"}

(* A node in NodeMap is there under its NodeID, placed, and its reader has not
   taken it out yet. *)
Registered ==
  \A id \in NodeIDs : nodeMap[id] # None =>
    /\ IdOf[nodeMap[id]] = id
    /\ InMap(nodeMap[id])
    /\ placed[nodeMap[id]]

(* From INIT_POOL on until it leaves, a connection is in NodeMap; and its   *)
(* panel holds it just then, and while it is being placed.                  *)
InPool ==
  \A c \in Conns :
    /\ reader[c] \in {"join_broadcast", "reading", "forward"} => nodeMap[IdOf[c]] = c
    /\ c \in tree <=> nodeMap[IdOf[c]] = c \/ reader[c] = "join_singles"

(* Only a reader in a change has sends before it, to other nodes in NodeMap. *)
Receivers ==
  \A c \in Conns : \A d \in todo[c] : nodeMap[IdOf[d]] = d /\ d # c /\ InChange(c)

(* A manager takes messages until its reader is done. *)
Serving == \A c \in Conns : reader[c] # "done" => Serves(c)

(* A relay that holds the read lock, or waits for it, has a message. *)
Carried ==
  /\ holders \intersect blocked = {}
  /\ \A r \in holders \union blocked : relay[r] # None

(* A Pool that has been taken out of ActivePools is empty, and stays so. *)
Deserted ==
  ~Active => /\ \A id \in NodeIDs : nodeMap[id] = None
             /\ \A c \in Conns : reader[c] # "join_singles"

LifeInv == Registered /\ InPool /\ Receivers /\ Serving /\ Carried /\ Deserted

(* The pool is empty at first. *)
LEMMA InitLife == Init => LifeInv
BY LifecycleAssumption
   DEF Init, LifeInv, Registered, InPool, Receivers, Serving, Carried, Deserted, Active, Serves

(* A Pool that is taken out for being empty has nobody in its NodeMap. *)
LEMMA Emptied ==
  ASSUME TypeOK, RemoveIfEmpty, UNCHANGED nodeMap, Deserted
  PROVE  ~Active' => \A id \in NodeIDs : nodeMap'[id] = None
<1>1. CASE Mapped = {}
  BY <1>1 DEF Mapped
<1>2. CASE Mapped # {}
  BY <1>2 DEF RemoveIfEmpty, Deserted, Active
<1> QED
  BY <1>1, <1>2

(* Every step of a goroutine keeps the invariant. *)
LEMMA StepLife ==
  TypeOK /\ OneAtATime /\ OneAtATime' /\ NoneStranded /\ LifeInv /\ [Next]_vars
    => LifeInv'
<1> SUFFICES ASSUME TypeOK, OneAtATime, OneAtATime', NoneStranded, LifeInv, [Next]_vars
    PROVE LifeInv'
  OBVIOUS
<1> USE LifecycleAssumption DEF TypeOK, Goto, managerVars, clientVars, poolVars, lockVars,
     LifeInv, Registered, InPool, Receivers, Serving, Carried, Deserted, Active, Serves, InMap,
     InChange, Entered, OneAtATime
<1>1. ASSUME NEW c \in Conns, StartJoin(c) \/ StartElsewhere(c) PROVE LifeInv'
  BY <1>1 DEF StartJoin, StartElsewhere, AskLock
<1>2. ASSUME NEW c \in Conns, JoinRefused(c) PROVE LifeInv'
  <2>1. ~Active' => \A id \in NodeIDs : nodeMap'[id] = None
    BY <1>2, Emptied DEF JoinRefused
  <2>2. Deserted'
    BY <1>2, <2>1 DEF JoinRefused, GetsLock
  <2>3. Registered' /\ InPool' /\ Receivers' /\ Serving' /\ Carried'
    BY <1>2 DEF JoinRefused, GetsLock, Unlock
  <2> QED
    BY <2>2, <2>3
<1>3. ASSUME NEW c \in Conns, Join(c) PROVE LifeInv'
  <2>1. Active
    BY <1>3 DEF Join, NoneStranded
  <2> QED
    BY <1>3, <2>1 DEF Join, TakesLock, GetsLock
<1>4. ASSUME NEW c \in Conns, SendNext(c) PROVE LifeInv'
  BY <1>4 DEF SendNext, Hand, Told
<1>5. ASSUME NEW c \in Conns, JoinPlaced(c) PROVE LifeInv'
  <2>1. nodeMap[IdOf[c]] = None
    BY <1>5 DEF JoinPlaced
  <2>2. \A d \in todo'[c] : nodeMap[IdOf[d]] = d /\ d \in Conns
    BY <1>5, <2>1 DEF JoinPlaced, Mapped
  <2>3. Receivers'
    BY <1>5, <2>1, <2>2 DEF JoinPlaced
  <2>4. Registered' /\ InPool'
    BY <1>5, <2>1 DEF JoinPlaced
  <2> QED
    BY <1>5, <2>3, <2>4 DEF JoinPlaced, Hand
<1>6. ASSUME NEW c \in Conns, JoinDone(c) PROVE LifeInv'
  BY <1>6 DEF JoinDone, Hand, PresentIds, Unlock
<1>7. ASSUME NEW c \in Conns, Forward(c) PROVE LifeInv'
  BY <1>7 DEF Forward, Hand
<1>8. ASSUME NEW c \in Conns, StartLeave(c) \/ LeaveNothing(c) PROVE LifeInv'
  BY <1>8 DEF StartLeave, LeaveNothing, AskLock
<1>9. ASSUME NEW c \in Conns, Leave(c) PROVE LifeInv'
  BY <1>9 DEF Leave, TakesLock, GetsLock
<1>10. ASSUME NEW c \in Conns, LeaveBroadcast(c) PROVE LifeInv'
  <2>1. ~Active' => \A id \in NodeIDs : nodeMap'[id] = None
    BY <1>10, Emptied DEF LeaveBroadcast
  <2>2. Deserted'
    BY <1>10, <2>1 DEF LeaveBroadcast
  <2>3. Registered' /\ InPool' /\ Receivers' /\ Serving' /\ Carried'
    BY <1>10 DEF LeaveBroadcast, Mapped
  <2> QED
    BY <2>2, <2>3
<1>11. ASSUME NEW c \in Conns, LeaveDone(c) PROVE LifeInv'
  BY <1>11 DEF LeaveDone, Unlock
<1>12. ASSUME NEW c \in Conns, Close(c) PROVE LifeInv'
  BY <1>12 DEF Close
<1>13. ASSUME NEW c \in Conns, ClientStep(c) PROVE LifeInv'
  <2>1. CASE Read(c)
    BY <2>1 DEF Read
  <2>2. CASE ReadFails(c)
    BY <2>2 DEF ReadFails
  <2> QED
    BY <1>13, <2>1, <2>2 DEF ClientStep
<1>14. ASSUME NEW c \in Conns, Handled(c) PROVE LifeInv'
  BY <1>14 DEF Handled
<1>15. ASSUME NEW c \in Conns, HandledFailing(c) PROVE LifeInv'
  BY <1>15 DEF HandledFailing
<1>16. ASSUME NEW c \in Conns, NEW r \in Relays, NEW id \in NodeIDs, HandledRelaying(c, r, id) PROVE LifeInv'
  BY <1>16 DEF HandledRelaying
<1>17. ASSUME NEW c \in Conns, TimerStep(c) PROVE LifeInv'
  BY <1>17 DEF TimerStep, TimerCheck, Tick
<1>18. ASSUME NEW c \in Conns, ManagerEnds(c) PROVE LifeInv'
  BY <1>18 DEF ManagerEnds
<1>19. ASSUME NEW r \in Relays, RelayLocks(r) \/ RelayFindsNoPool(r) PROVE LifeInv'
  BY <1>19 DEF RelayLocks, RelayFindsNoPool
<1>20. ASSUME NEW r \in Relays, RelayEnds(r) PROVE LifeInv'
  <2>1. relay[r] \in NodeIDs
    BY <1>20 DEF RelayEnds
  <2>2. \A c \in Conns : Serves(c) => Serves(c)'
    BY <1>20, <2>1 DEF RelayEnds, Hand
  <2>3. Carried'
    BY <1>20 DEF RelayEnds
  <2> QED
    BY <1>20, <2>2, <2>3 DEF RelayEnds
<1>21. CASE UNCHANGED vars
  BY <1>21 DEF vars
<1>22. CASE Over
  BY <1>22, <1>21 DEF Over
<1> QED
  BY <1>1, <1>2, <1>3, <1>4, <1>5, <1>6, <1>7, <1>8, <1>9, <1>10, <1>11, <1>12,
     <1>13, <1>14, <1>15, <1>16, <1>17, <1>18, <1>19, <1>20, <1>21, <1>22
     DEF Next, ReaderStep, HandlingEnds, RelayStep

(* The inductive invariant behind the theorems that follow. *)
THEOREM LifeInvariant == Spec /\ []OneAtATime /\ []NoneStranded => [](TypeOK /\ LifeInv)
BY TypeCorrect, InitLife, StepLife, PTL DEF Spec

(* Whoever holds the pool's lock, for writing or for reading, only ever waits *)
(* for managers that still take messages: the defer of DisconnectFromPool     *)
(* before closeChan (websocket.go) is enough for it.                          *)
THEOREM SendsAlwaysTaken == Spec /\ []OneAtATime /\ []NoneStranded => []SendsAreTaken
<1>1. TypeOK /\ LifeInv => SendsAreTaken
  BY LifecycleAssumption
     DEF TypeOK, LifeInv, Registered, Receivers, Serving, Carried, InMap, SendsAreTaken
<1> QED
  BY <1>1, LifeInvariant, PTL

(* No manager is sent another node's position before it has its own: the *)
(* index Path[len(Path)-1] in updateNodePosition is in range.            *)
THEOREM PositionComesFirst == Spec /\ []OneAtATime /\ []NoneStranded => []PositionFirst
<1>1. TypeOK /\ LifeInv => PositionFirst
  BY LifecycleAssumption
     DEF TypeOK, LifeInv, Registered, Receivers, PositionFirst
<1> QED
  BY <1>1, LifeInvariant, PTL

(* A connection that has ended is in no panel, and when the write lock is *)
(* free the panels and NodeMap hold the same nodes.                       *)
THEOREM AlwaysGoneForGood == Spec /\ []OneAtATime /\ []NoneStranded => []GoneForGood
<1>1. TypeOK /\ LifeInv => GoneForGood
  BY LifecycleAssumption
     DEF TypeOK, LifeInv, Registered, InPool, InMap, GoneForGood, Mapped
<1> QED
  BY <1>1, LifeInvariant, PTL

----------------------------------------------------------------------------
(* What the clients are told *)

(* Until a connection is announced its client has been told nothing; of the *)
(* nodes that a change is to be told to, those that are not before the      *)
(* writer any more know of it.                                              *)
TellInv ==
  \A c \in Conns :
    /\ reader[c] \in {"start", "join", "join_singles"} => roster[c] = {}
    /\ \A d \in Conns : nodeMap[IdOf[d]] = d /\ d # c /\ d \notin todo[c] =>
         /\ reader[c] = "join_broadcast" => IdOf[c] \in roster[d]
         /\ reader[c] = "leave_broadcast" => IdOf[c] \notin roster[d]

(* Nobody has been told anything at first. *)
LEMMA InitTell == Init => TellInv
BY LifecycleAssumption DEF Init, TellInv

(* Every step keeps what the clients know in line with the writer's loop. *)
LEMMA StepTell ==
  TypeOK /\ OneAtATime /\ OneAtATime' /\ LifeInv /\ TellInv /\ [Next]_vars => TellInv'
<1> SUFFICES ASSUME TypeOK, OneAtATime, OneAtATime', LifeInv, TellInv, [Next]_vars
    PROVE TellInv'
  OBVIOUS
<1> USE LifecycleAssumption DEF TypeOK, Goto, managerVars, clientVars, poolVars, lockVars,
     LifeInv, Registered, InPool, Receivers, InMap, InChange, TellInv, Entered, OneAtATime
<1>1. ASSUME NEW c \in Conns, StartJoin(c) \/ StartElsewhere(c) PROVE TellInv'
  BY <1>1 DEF StartJoin, StartElsewhere, AskLock
<1>2. ASSUME NEW c \in Conns, JoinRefused(c) PROVE TellInv'
  BY <1>2 DEF JoinRefused, GetsLock, Unlock
<1>3. ASSUME NEW c \in Conns, Join(c) PROVE TellInv'
  BY <1>3 DEF Join, TakesLock, GetsLock
<1>4. ASSUME NEW c \in Conns, SendNext(c) PROVE TellInv'
  BY <1>4 DEF SendNext, Hand, Told
<1>5. ASSUME NEW c \in Conns, JoinPlaced(c) PROVE TellInv'
  BY <1>5 DEF JoinPlaced, Hand, Mapped
<1>6. ASSUME NEW c \in Conns, JoinDone(c) PROVE TellInv'
  BY <1>6 DEF JoinDone, Hand, PresentIds, Unlock
<1>7. ASSUME NEW c \in Conns, Forward(c) PROVE TellInv'
  BY <1>7 DEF Forward, Hand
<1>8. ASSUME NEW c \in Conns, StartLeave(c) \/ LeaveNothing(c) PROVE TellInv'
  BY <1>8 DEF StartLeave, LeaveNothing, AskLock
<1>9. ASSUME NEW c \in Conns, Leave(c) PROVE TellInv'
  BY <1>9 DEF Leave, TakesLock, GetsLock
<1>10. ASSUME NEW c \in Conns, LeaveBroadcast(c) PROVE TellInv'
  BY <1>10 DEF LeaveBroadcast, Mapped
<1>11. ASSUME NEW c \in Conns, LeaveDone(c) PROVE TellInv'
  BY <1>11 DEF LeaveDone, Unlock
<1>12. ASSUME NEW c \in Conns, Close(c) PROVE TellInv'
  BY <1>12 DEF Close
<1>13. ASSUME NEW c \in Conns, ClientStep(c) PROVE TellInv'
  BY <1>13 DEF ClientStep, Read, ReadFails
<1>14. ASSUME NEW c \in Conns, Handled(c) PROVE TellInv'
  BY <1>14 DEF Handled
<1>15. ASSUME NEW c \in Conns, HandledFailing(c) PROVE TellInv'
  BY <1>15 DEF HandledFailing
<1>16. ASSUME NEW c \in Conns, NEW r \in Relays, NEW id \in NodeIDs, HandledRelaying(c, r, id) PROVE TellInv'
  BY <1>16 DEF HandledRelaying
<1>17. ASSUME NEW c \in Conns, TimerStep(c) PROVE TellInv'
  BY <1>17 DEF TimerStep, TimerCheck, Tick
<1>18. ASSUME NEW c \in Conns, ManagerEnds(c) PROVE TellInv'
  BY <1>18 DEF ManagerEnds
<1>19. ASSUME NEW r \in Relays, RelayLocks(r) \/ RelayFindsNoPool(r) PROVE TellInv'
  BY <1>19 DEF RelayLocks, RelayFindsNoPool
<1>20. ASSUME NEW r \in Relays, RelayEnds(r) PROVE TellInv'
  BY <1>20 DEF RelayEnds, Hand
<1>21. CASE UNCHANGED vars
  BY <1>21 DEF vars
<1>22. CASE Over
  BY <1>22, <1>21 DEF Over
<1> QED
  BY <1>1, <1>2, <1>3, <1>4, <1>5, <1>6, <1>7, <1>8, <1>9, <1>10, <1>11, <1>12,
     <1>13, <1>14, <1>15, <1>16, <1>17, <1>18, <1>19, <1>20, <1>21, <1>22
     DEF Next, ReaderStep, HandlingEnds, RelayStep

(* What PoolMembership's list stands for. *)
Listed == [id \in NodeIDs |-> IF nodeMap[id] = None THEN {} ELSE roster[nodeMap[id]]]

(* A connection that has entered shares its entry in NodeMap with nobody. *)
LEMMA Sole ==
  ASSUME TypeOK, LifeInv, OneAtATime, NEW c \in Conns, Entered(c)
  PROVE  nodeMap[IdOf[c]] \in {c, None}
BY LifecycleAssumption DEF TypeOK, LifeInv, Registered, InMap, Entered, OneAtATime

(* What holds of the connection that has the lock. *)
LEMMA Writer ==
  ASSUME TypeOK, LifeInv, OneAtATime, NEW c \in Conns, InChange(c)
  PROVE  /\ writer = c
         /\ reader[c] = "join_broadcast" => nodeMap[IdOf[c]] = c
         /\ reader[c] # "join_broadcast" => nodeMap[IdOf[c]] = None
         /\ \A d \in todo[c] : /\ d \in Conns /\ nodeMap[IdOf[d]] = d
                               /\ IdOf[d] # IdOf[c]
<1>1. nodeMap[IdOf[c]] \in {c, None}
  BY Sole DEF InChange, Entered
<1>2. nodeMap[IdOf[c]] = c => InMap(c)
  BY LifecycleAssumption DEF TypeOK, LifeInv, Registered
<1>3. reader[c] = "join_broadcast" => nodeMap[IdOf[c]] = c
  BY DEF LifeInv, InPool
<1>4. reader[c] # "join_broadcast" => nodeMap[IdOf[c]] = None
  BY <1>1, <1>2 DEF InMap, InChange
<1>5. \A d \in todo[c] : d \in Conns /\ nodeMap[IdOf[d]] = d /\ d # c
  BY DEF TypeOK, LifeInv, Receivers
<1>6. \A d \in todo[c] : IdOf[d] # IdOf[c]
  BY <1>1, <1>5, LifecycleAssumption
<1>7. writer = c
  BY DEF TypeOK, InChange
<1> QED
  BY <1>3, <1>4, <1>5, <1>6, <1>7

(* A step that changes nothing a client can notice. *)
LEMMA Unnoticed ==
  ASSUME UNCHANGED <<nodeMap, roster>>, News' = News
  PROVE  UNCHANGED Membership!vars
BY DEF Membership!vars, PresentIds

(* A send of a loop is news to one client, or a position it does not see. *)
LEMMA StepTold ==
  ASSUME TypeOK, LifeInv, OneAtATime, NEW c \in Conns, SendNext(c)
  PROVE  [Membership!Next]_(Membership!vars)
<1>1. PICK d \in todo[c] : /\ roster' = [roster EXCEPT ![d] = Told(d, c)]
                          /\ UNCHANGED <<reader, nodeMap, writer>>
  BY DEF SendNext, poolVars, lockVars
<1>2. InChange(c)
  BY <1>1 DEF LifeInv, Receivers
<1>3. /\ writer = c /\ d \in Conns /\ nodeMap[IdOf[d]] = d /\ IdOf[d] # IdOf[c]
      /\ reader[c] = "join_broadcast" => nodeMap[IdOf[c]] = c
      /\ reader[c] # "join_broadcast" => nodeMap[IdOf[c]] = None
  BY <1>1, <1>2, Writer
<1>4. News' = News
  BY <1>1 DEF News
<1>5. IdOf[c] \in NodeIDs /\ IdOf[d] \in NodeIDs /\ c # None /\ d # None /\ IdOf[c] # None
  BY <1>3, LifecycleAssumption
<1>6. CASE reader[c] \in {"join_singles", "leave_singles"}
  <2>1. roster' = roster
    BY <1>1, <1>3, <1>6 DEF Told, TypeOK
  <2> QED
    BY <1>1, <1>4, <2>1, Unnoticed
<1>7. CASE reader[c] \in {"join_broadcast", "leave_broadcast"}
  <2>1. News = IdOf[c] /\ IdOf[d] \in PresentIds
    BY <1>3, <1>5, <1>7 DEF News, PresentIds
  <2>2. IdOf[c] \in PresentIds <=> reader[c] = "join_broadcast"
    BY <1>3, <1>5 DEF PresentIds
  <2>3. Told(d, c) = IF IdOf[c] \in PresentIds THEN roster[d] \union {IdOf[c]}
                     ELSE roster[d] \ {IdOf[c]}
    BY <1>7, <2>2 DEF Told
  <2>4. Listed[IdOf[d]] = roster[d]
    BY <1>3, <1>5 DEF Listed
  <2>5. \A id \in NodeIDs : nodeMap[id] = d <=> id = IdOf[d]
    BY <1>3, <1>5 DEF TypeOK, LifeInv, Registered
  <2>6. Listed' = [Listed EXCEPT ![IdOf[d]] = Told(d, c)]
    BY <1>1, <1>3, <1>5, <2>5 DEF Listed, TypeOK
  <2>7. Membership!Tell(IdOf[d])
    BY <1>1, <1>3, <1>4, <1>5, <2>1, <2>3, <2>4, <2>6
       DEF Membership!Tell, Membership!Told, Listed, PresentIds
  <2> QED
    BY <1>5, <2>7 DEF Membership!Next
<1> QED
  BY <1>2, <1>6, <1>7 DEF InChange

(* The entry into NodeMap is ADD_NODE: it is news from then on. *)
LEMMA StepEntering ==
  ASSUME TypeOK, LifeInv, OneAtATime, TellInv, NEW c \in Conns, JoinPlaced(c)
  PROVE  [Membership!Next]_(Membership!vars)
<1>1. /\ reader[c] = "join_singles" /\ reader' = [reader EXCEPT ![c] = "join_broadcast"]
      /\ nodeMap' = [nodeMap EXCEPT ![IdOf[c]] = c]
      /\ UNCHANGED <<writer, roster>>
  BY DEF JoinPlaced, Goto, lockVars
<1>2. writer = c /\ nodeMap[IdOf[c]] = None
  BY <1>1, Writer DEF InChange
<1>3. IdOf[c] \in NodeIDs /\ c # None /\ IdOf[c] # None
  BY LifecycleAssumption
<1>4. News = None /\ News' = IdOf[c]
  BY <1>1, <1>2, <1>3 DEF News, TypeOK
<1>5. PresentIds' = PresentIds \union {IdOf[c]} /\ IdOf[c] \notin PresentIds
  BY <1>1, <1>2, <1>3 DEF PresentIds, TypeOK
<1>6. roster[c] = {}
  BY <1>1 DEF TellInv
<1>7. Listed' = Listed
  BY <1>1, <1>2, <1>3, <1>6 DEF Listed, TypeOK
<1>8. Membership!ADD_NODE(IdOf[c])
  BY <1>4, <1>5, <1>7 DEF Membership!ADD_NODE, Listed
<1> QED
  BY <1>3, <1>8 DEF Membership!Next

(* INIT_POOL comes when all the others know. *)
LEMMA StepEntered ==
  ASSUME TypeOK, LifeInv, OneAtATime, TellInv, NEW c \in Conns, JoinDone(c)
  PROVE  [Membership!Next]_(Membership!vars)
<1>1. /\ reader[c] = "join_broadcast" /\ todo[c] = {} /\ writer' = None
      /\ nodeMap' = nodeMap /\ roster' = [roster EXCEPT ![c] = PresentIds]
  BY DEF JoinDone, Unlock, poolVars
<1>2. writer = c /\ nodeMap[IdOf[c]] = c
  BY <1>1, Writer DEF InChange
<1>3. IdOf[c] \in NodeIDs /\ c # None /\ IdOf[c] # None
  BY LifecycleAssumption
<1>4. /\ News = IdOf[c] /\ News' = None
      /\ IdOf[c] \in PresentIds /\ PresentIds' = PresentIds
  BY <1>1, <1>2, <1>3 DEF News, PresentIds
<1>5. ASSUME NEW m \in PresentIds \ {IdOf[c]} PROVE Listed[m] = Listed[m] \union {IdOf[c]}
  <2>1. /\ m \in NodeIDs /\ nodeMap[m] \in Conns /\ IdOf[nodeMap[m]] = m
        /\ Listed[m] = roster[nodeMap[m]]
    BY DEF PresentIds, Listed, TypeOK, LifeInv, Registered
  <2>2. IdOf[c] \in roster[nodeMap[m]]
    BY <1>1, <1>5, <2>1 DEF TellInv
  <2> QED
    BY <2>1, <2>2
<1>6. \A id \in NodeIDs : nodeMap[id] = c <=> id = IdOf[c]
  BY <1>2, <1>3 DEF TypeOK, LifeInv, Registered
<1>7. Listed' = [Listed EXCEPT ![IdOf[c]] = PresentIds]
  BY <1>1, <1>2, <1>3, <1>6 DEF Listed, TypeOK
<1>8. Membership!INIT_POOL
  BY <1>3, <1>4, <1>5, <1>7 DEF Membership!INIT_POOL, Membership!Told, Listed
<1> QED
  BY <1>8 DEF Membership!Next

(* RemoveNode is REMOVE_NODE. *)
LEMMA StepLeaving ==
  ASSUME TypeOK, LifeInv, OneAtATime, NEW c \in Conns, Leave(c)
  PROVE  [Membership!Next]_(Membership!vars)
<1>1. /\ writer = None /\ writer' = c /\ reader' = [reader EXCEPT ![c] = "leave_singles"]
      /\ nodeMap' = [nodeMap EXCEPT ![IdOf[c]] = None] /\ roster' = roster
  BY DEF Leave, TakesLock, GetsLock, Goto, clientVars
<1>2. IdOf[c] \in NodeIDs /\ c # None
  BY LifecycleAssumption
<1>3. News = None /\ News' = IdOf[c]
  BY <1>1, <1>2 DEF News, TypeOK
<1>4. PresentIds' = PresentIds \ {IdOf[c]}
  BY <1>1, <1>2 DEF PresentIds, TypeOK
<1>5. Listed' = [Listed EXCEPT ![IdOf[c]] = {}]
  BY <1>1, <1>2 DEF Listed, TypeOK
<1>6. Membership!REMOVE_NODE(IdOf[c])
  BY <1>3, <1>4, <1>5 DEF Membership!REMOVE_NODE, Listed
<1> QED
  BY <1>2, <1>6 DEF Membership!Next

(* The lock is given back when all who stay know. *)
LEMMA StepLeft ==
  ASSUME TypeOK, LifeInv, OneAtATime, TellInv, NEW c \in Conns, LeaveDone(c)
  PROVE  [Membership!Next]_(Membership!vars)
<1>1. /\ reader[c] = "leave_broadcast" /\ todo[c] = {} /\ writer' = None
      /\ UNCHANGED <<nodeMap, roster>>
  BY DEF LeaveDone, Unlock, poolVars, clientVars
<1>2. writer = c /\ nodeMap[IdOf[c]] = None
  BY <1>1, Writer DEF InChange
<1>3. IdOf[c] \in NodeIDs /\ c # None /\ IdOf[c] # None
  BY LifecycleAssumption
<1>4. /\ News = IdOf[c] /\ News' = None
      /\ IdOf[c] \notin PresentIds /\ PresentIds' = PresentIds /\ Listed' = Listed
  BY <1>1, <1>2, <1>3 DEF News, PresentIds, Listed
<1>5. ASSUME NEW m \in PresentIds PROVE Listed[m] = Listed[m] \ {IdOf[c]}
  <2>1. /\ m \in NodeIDs /\ nodeMap[m] \in Conns /\ IdOf[nodeMap[m]] = m
        /\ Listed[m] = roster[nodeMap[m]] /\ m # IdOf[c]
    BY <1>4 DEF PresentIds, Listed, TypeOK, LifeInv, Registered
  <2>2. IdOf[c] \notin roster[nodeMap[m]]
    BY <1>1, <2>1 DEF TellInv
  <2> QED
    BY <2>1, <2>2
<1>6. Membership!INIT_POOL
  BY <1>3, <1>4, <1>5 DEF Membership!INIT_POOL, Membership!Told, Listed
<1> QED
  BY <1>6 DEF Membership!Next

(* Every step is one of PoolMembership, or no client notices it. *)
LEMMA StepMembership ==
  ASSUME TypeOK, LifeInv, OneAtATime, TellInv, [Next]_vars
  PROVE  [Membership!Next]_(Membership!vars)
<1> USE DEF Goto, managerVars, clientVars, poolVars, lockVars
<1>1. ASSUME NEW c \in Conns, StartJoin(c) \/ StartElsewhere(c) PROVE UNCHANGED Membership!vars
  <2>1. UNCHANGED <<nodeMap, roster>>
    BY <1>1 DEF StartJoin, StartElsewhere, AskLock
  <2>2. News' = News
    BY <1>1, LifecycleAssumption DEF StartJoin, StartElsewhere, AskLock, News, TypeOK
  <2> QED
    BY <2>1, <2>2, Unnoticed
<1>2. ASSUME NEW c \in Conns, JoinRefused(c) PROVE UNCHANGED Membership!vars
  <2>1. UNCHANGED <<nodeMap, roster>>
    BY <1>2 DEF JoinRefused, GetsLock, Unlock
  <2>2. News' = News
    BY <1>2, LifecycleAssumption DEF JoinRefused, GetsLock, Unlock, News, TypeOK
  <2> QED
    BY <2>1, <2>2, Unnoticed
<1>3. ASSUME NEW c \in Conns, Join(c) PROVE UNCHANGED Membership!vars
  <2>1. UNCHANGED <<nodeMap, roster>>
    BY <1>3 DEF Join, TakesLock, GetsLock
  <2>2. News' = News
    BY <1>3, LifecycleAssumption DEF Join, TakesLock, GetsLock, News, TypeOK
  <2> QED
    BY <2>1, <2>2, Unnoticed
<1>4. ASSUME NEW c \in Conns, Forward(c) PROVE UNCHANGED Membership!vars
  <2>1. UNCHANGED <<nodeMap, roster>>
    BY <1>4 DEF Forward
  <2>2. News' = News
    BY <1>4, LifecycleAssumption DEF Forward, News, TypeOK
  <2> QED
    BY <2>1, <2>2, Unnoticed
<1>5. ASSUME NEW c \in Conns, StartLeave(c) \/ LeaveNothing(c) PROVE UNCHANGED Membership!vars
  <2>1. UNCHANGED <<nodeMap, roster>>
    BY <1>5 DEF StartLeave, LeaveNothing, AskLock
  <2>2. News' = News
    BY <1>5, LifecycleAssumption DEF StartLeave, LeaveNothing, AskLock, News, TypeOK
  <2> QED
    BY <2>1, <2>2, Unnoticed
<1>6. ASSUME NEW c \in Conns, LeaveBroadcast(c) PROVE UNCHANGED Membership!vars
  <2>1. UNCHANGED <<nodeMap, roster>>
    BY <1>6 DEF LeaveBroadcast
  <2>2. News' = News
    BY <1>6, LifecycleAssumption DEF LeaveBroadcast, News, TypeOK
  <2> QED
    BY <2>1, <2>2, Unnoticed
<1>7. ASSUME NEW c \in Conns, Close(c) PROVE UNCHANGED Membership!vars
  <2>1. UNCHANGED <<nodeMap, roster>>
    BY <1>7 DEF Close
  <2>2. News' = News
    BY <1>7, LifecycleAssumption DEF Close, News, TypeOK
  <2> QED
    BY <2>1, <2>2, Unnoticed
<1>8. ASSUME NEW c \in Conns, ClientStep(c) PROVE UNCHANGED Membership!vars
  <2>1. UNCHANGED <<nodeMap, roster>>
    BY <1>8 DEF ClientStep, Read, ReadFails
  <2>2. News' = News
    BY <1>8, LifecycleAssumption DEF ClientStep, Read, ReadFails, News, TypeOK
  <2> QED
    BY <2>1, <2>2, Unnoticed
<1>9. ASSUME NEW c \in Conns, TimerStep(c) \/ ManagerEnds(c) \/ HandlingEnds(c)
      PROVE  UNCHANGED Membership!vars
  <2>1. UNCHANGED <<nodeMap, roster, reader, writer>>
    BY <1>9 DEF TimerStep, TimerCheck, Tick, ManagerEnds, HandlingEnds, Handled,
                HandledFailing, HandledRelaying
  <2> QED
    BY <2>1, Unnoticed DEF News
<1>10. ASSUME NEW r \in Relays, RelayStep(r) PROVE UNCHANGED Membership!vars
  <2>1. UNCHANGED <<nodeMap, roster, reader, writer>>
    BY <1>10 DEF RelayStep, RelayLocks, RelayFindsNoPool, RelayEnds
  <2> QED
    BY <2>1, Unnoticed DEF News
<1>11. CASE UNCHANGED vars
  <2>1. UNCHANGED <<nodeMap, roster, reader, writer>>
    BY <1>11 DEF vars
  <2> QED
    BY <2>1, Unnoticed DEF News
<1> QED
  BY <1>1, <1>2, <1>3, <1>4, <1>5, <1>6, <1>7, <1>8, <1>9, <1>10, <1>11,
     StepTold, StepEntering, StepEntered, StepLeaving, StepLeft
     DEF Next, ReaderStep, Over

(* The goroutines implement PoolMembership: nodes enter and leave one at a *)
(* time, of each change every client that stays is told before the next.   *)
THEOREM MembershipImplemented == Spec /\ []OneAtATime /\ []NoneStranded => MembershipKept
<1>1. Init => Membership!Init
  BY LifecycleAssumption DEF Init, Membership!Init, PresentIds, News
<1>2. TypeOK /\ LifeInv /\ OneAtATime /\ TellInv /\ [Next]_vars
        => [Membership!Next]_(Membership!vars)
  BY StepMembership
<1> QED
  BY <1>1, <1>2, InitTell, StepTell, LifeInvariant, PTL
     DEF Spec, MembershipKept, Membership!Spec
============================================================================
