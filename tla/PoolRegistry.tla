---------------------------- MODULE PoolRegistry ----------------------------
(***************************************************************************)
(* One pool in memory and in the database.  A request (pool/manager.go)    *)
(* looks the pool up in ActivePools, or loads it from the database and     *)
(* registers it; then takes the lock of the Pool it found, acts, and       *)
(* unregisters the pool when no node is left in it.  Between these steps   *)
(* other requests run: the lock belongs to a Pool, the lookup does not.    *)
(*                                                                         *)
(* The users of a pool are told by their devices: a user is in the list    *)
(* exactly as long as one of the user's devices is (store/pool.go), and a  *)
(* pool without users is deleted from the database.                        *)
(*                                                                         *)
(* Every device has at most one websocket; what happens under the lock is  *)
(* one step here (NodeLifecycle models the hand-over of messages).         *)
(***************************************************************************)
EXTENDS Integers, FiniteSets, Sequences

CONSTANTS
  Devices,     \* the devices
  Users,       \* their users
  OwnerOf,     \* OwnerOf[d] is the user of device d
  Requests,    \* the requests that can be under way at once
  MayFail,     \* the kinds of request whose database update can fail
  MaxPools     \* bound on the Pool objects made in a behaviour

ASSUME RegistryAssumption ==
  /\ OwnerOf \in [Devices -> Users]
  /\ MaxPools \in Nat

VARIABLES
  stored,   \* the devices in the database's record of the pool; {} is no record
  pools,    \* pools[i]: the i-th Pool made: its devices, and its nodes
  active,   \* the Pool in ActivePools, 0 when there is none
  request,  \* request[r]: the request r is serving, and how far it is
  socket,   \* socket[d]: where the websocket of device d is
  granted   \* the devices the pool has, by the answers that were given

vars == <<stored, pools, active, request, socket, granted>>

Kinds == {"exists", "join", "leave", "connect", "disconnect"}
NoPool == 0
Idle == [kind |-> "none", device |-> CHOOSE d \in Devices : TRUE,
         at |-> "idle", pool |-> NoPool, copy |-> {}]

HasUser(devices, u) == \E d \in devices : OwnerOf[d] = u

\* A pool that its first user has just made (NewPool); nobody uses it yet.
Init ==
  /\ \E d \in Devices : stored = {d}
  /\ granted = stored
  /\ pools = <<>>
  /\ active = NoPool
  /\ request = [r \in Requests |-> Idle]
  /\ socket = [d \in Devices |-> "off"]

----------------------------------------------------------------------------
(* A request starts *)

Begin(r, kind, d) ==
  /\ request[r] = Idle
  /\ request' = [request EXCEPT ![r] = [Idle EXCEPT !.kind = kind, !.device = d, !.at = "get"]]

\* /pool/:poolid/create-invite, /pool/join, /pool/:poolid/leave
Call(r, kind, d) ==
  /\ kind \in {"exists", "join", "leave"}
  /\ Begin(r, kind, d)
  /\ UNCHANGED <<stored, pools, active, socket, granted>>

Connect(r, d) ==
  /\ socket[d] = "off"
  /\ Begin(r, "connect", d)
  /\ socket' = [socket EXCEPT ![d] = "connecting"]
  /\ UNCHANGED <<stored, pools, active, granted>>

\* The websocket ends, or ConnectToPool failed: DisconnectFromPool follows.
Disconnect(r, d) ==
  /\ socket[d] \in {"on", "refused"}
  /\ Begin(r, "disconnect", d)
  /\ socket' = [socket EXCEPT ![d] = "leaving"]
  /\ UNCHANGED <<stored, pools, active, granted>>

----------------------------------------------------------------------------
(* fetchPool *)

Found(r, i) == request' = [request EXCEPT ![r].pool = i, ![r].at = "lock"]

\* The request ends without having acted; a connection is refused.
Fails(r) ==
  /\ request' = [request EXCEPT ![r] = Idle]
  /\ socket' = [socket EXCEPT ![request[r].device] =
                  CASE request[r].kind = "connect" -> "refused"
                    [] request[r].kind = "disconnect" -> "off"
                    [] OTHER -> @]
  /\ UNCHANGED <<stored, pools, active, granted>>

Get(r) ==
  /\ request[r].at = "get"
  /\ active # NoPool
  /\ Found(r, active)
  /\ UNCHANGED <<stored, pools, active, socket, granted>>

\* GetStoredPool decodes a copy of its own from the database's record.
Load(r) ==
  /\ request[r].at = "get" /\ active = NoPool
  /\ request[r].kind # "disconnect"
  /\ request' = [request EXCEPT ![r].at = "load"]
  /\ UNCHANGED <<stored, pools, active, socket, granted>>

Loaded(r) ==
  /\ request[r].at = "load" /\ stored # {}
  /\ request' = [request EXCEPT ![r].at = "register", ![r].copy = stored]
  /\ UNCHANGED <<stored, pools, active, socket, granted>>

\* Fault: the error of GetStoredPool is not looked at.
NotLoadedGoesOn(r) ==
  /\ request[r].at = "load" /\ stored = {}
  /\ Found(r, NoPool)
  /\ UNCHANGED <<stored, pools, active, socket, granted>>

NotLoaded(r) ==
  /\ \/ request[r].at = "load" /\ stored = {}
     \/ request[r].at = "get" /\ active = NoPool /\ request[r].kind = "disconnect"
  /\ Fails(r)

\* Fault: a Pool that was registered meanwhile is replaced.
RegisterAlways(r) ==
  /\ request[r].at = "register"
  /\ Len(pools) < MaxPools
  /\ pools' = Append(pools, [devices |-> request[r].copy, nodes |-> {}])
  /\ active' = Len(pools')
  /\ Found(r, active')
  /\ UNCHANGED <<stored, socket, granted>>

\* ActivePools.Upsert: a Pool that was registered meanwhile stays.
Register(r) ==
  /\ request[r].at = "register"
  /\ IF active # NoPool THEN UNCHANGED <<pools, active>>
     ELSE /\ Len(pools) < MaxPools
          /\ pools' = Append(pools, [devices |-> request[r].copy, nodes |-> {}])
          /\ active' = Len(pools')
  /\ Found(r, active')
  /\ UNCHANGED <<stored, socket, granted>>

----------------------------------------------------------------------------
(* The action, under the lock of the Pool that was found.  The database is  *)
(* written before the answer is given, and the change to the Pool undone    *)
(* when that fails.                                                         *)

\* AddUser (JoinPool): only for a user the pool does not have.
Adds(p, kind, d) ==
  \/ kind = "join" /\ ~HasUser(p.devices, OwnerOf[d])
  \/ kind = "connect" /\ HasUser(p.devices, OwnerOf[d]) /\ d \notin p.devices

\* AddDevice (ConnectToPool) is content with a device that is already there.
Succeeds(p, kind, d) ==
  \/ Adds(p, kind, d)
  \/ kind = "connect" /\ d \in p.devices
  \/ kind = "leave" /\ d \in p.devices
  \/ kind = "exists" /\ HasUser(p.devices, OwnerOf[d])
  \/ kind = "disconnect"

Writes(p, kind, d) ==
  \/ Adds(p, kind, d)
  \/ kind = "leave" /\ d \in p.devices

NewDevices(p, kind, d) ==
  IF Adds(p, kind, d) THEN p.devices \union {d}
  ELSE IF kind = "leave" THEN p.devices \ {d}
  ELSE p.devices

\* Fault: DisconnectFromPool leaves the node in the pool.
NodesKept(p, kind, d) ==
  IF kind = "connect" THEN p.nodes \union {d} ELSE p.nodes

NewNodes(p, kind, d) ==
  IF kind = "connect" THEN p.nodes \union {d}
  ELSE IF kind = "disconnect" THEN p.nodes \ {d}
  ELSE p.nodes

\* if pool.IsEmpty() { ActivePools.Remove(poolID) }, whatever Pool is there.
Unregistered(nodes) == IF nodes = {} THEN NoPool ELSE active

\* Fault: the database is not updated.
ActInMemory(r, p, kind, d) ==
  /\ Succeeds(p, kind, d)
  /\ pools' = [pools EXCEPT ![request[r].pool] =
                 [devices |-> NewDevices(p, kind, d), nodes |-> NewNodes(p, kind, d)]]
  /\ granted' = IF kind = "leave" THEN granted \ {d}
                ELSE IF Writes(p, kind, d) THEN granted \union {d} ELSE granted
  /\ active' = Unregistered(NewNodes(p, kind, d))
  /\ UNCHANGED stored

ActOn(r, p, kind, d) ==
  /\ Succeeds(p, kind, d)
  /\ pools' = [pools EXCEPT ![request[r].pool] =
                 [devices |-> NewDevices(p, kind, d), nodes |-> NewNodes(p, kind, d)]]
  /\ stored' = IF Writes(p, kind, d) THEN NewDevices(p, kind, d) ELSE stored
  /\ granted' = IF kind = "leave" THEN granted \ {d}
                ELSE IF Writes(p, kind, d) THEN granted \union {d} ELSE granted
  /\ active' = Unregistered(NewNodes(p, kind, d))

Act(r) ==
  LET kind == request[r].kind
      d    == request[r].device
  IN /\ request[r].at = "lock"
     /\ ActOn(r, pools[request[r].pool], kind, d)
     /\ request' = [request EXCEPT ![r] = Idle]
     /\ socket' = [socket EXCEPT ![d] = CASE kind = "connect" -> "on"
                                          [] kind = "disconnect" -> "off"
                                          [] OTHER -> @]

\* Fault: what could not be written stays in memory.
RefusedKeeping(r) ==
  LET kind == request[r].kind
      p    == pools[request[r].pool]
  IN /\ request[r].at = "lock"
     /\ Writes(p, kind, request[r].device) /\ kind \in MayFail
     /\ pools' = [pools EXCEPT ![request[r].pool].devices = NewDevices(p, kind, request[r].device)]
     /\ active' = Unregistered(p.nodes)
     /\ request' = [request EXCEPT ![r] = Idle]
     /\ socket' = [socket EXCEPT ![request[r].device] = IF kind = "connect" THEN "refused" ELSE @]
     /\ UNCHANGED <<stored, granted>>

\* The action does not apply, or the database could not be written.  RemoveDevice
\* of a user's last device does not undo the removal of the user then.
Refused(r) ==
  LET kind == request[r].kind
      d    == request[r].device
      p    == pools[request[r].pool]
      lost == IF kind = "leave" /\ Writes(p, kind, d)
                 /\ ~HasUser(p.devices \ {d}, OwnerOf[d]) THEN {d} ELSE {}
  IN /\ request[r].at = "lock"
     /\ \/ ~Succeeds(p, kind, d)
        \/ Writes(p, kind, d) /\ kind \in MayFail
     /\ pools' = [pools EXCEPT ![request[r].pool].devices = @ \ lost]
     /\ active' = Unregistered(p.nodes)
     /\ request' = [request EXCEPT ![r] = Idle]
     /\ socket' = [socket EXCEPT ![d] = IF kind = "connect" THEN "refused" ELSE @]
     /\ UNCHANGED <<stored, granted>>

----------------------------------------------------------------------------
Step(r) ==
  Get(r) \/ Load(r) \/ Loaded(r) \/ NotLoaded(r) \/ Register(r) \/ Act(r) \/ Refused(r)

Next ==
  \E r \in Requests :
    \/ Step(r)
    \/ \E d \in Devices :
         \/ Connect(r, d) \/ Disconnect(r, d)
         \/ \E kind \in Kinds : Call(r, kind, d)

Spec == Init /\ [][Next]_vars

\* When requests overlap without harm: while a device stays connected, and when
\* devices connect to a pool that is not in use, and all of them may.
UnderWay == {r \in Requests : request[r] # Idle}
Alone == \A r, q \in UnderWay : r = q
InUse == \E d \in Devices : socket[d] = "on"
Connecting ==
  \A r \in UnderWay :
    request[r].kind = "connect" /\ HasUser(stored, OwnerOf[request[r].device])
Refusals == {d \in Devices : socket[d] = "refused"}

Calm ==
  /\ (Alone \/ InUse \/ Connecting)'
  /\ Alone \/ InUse \/ Refusals' \subseteq Refusals

CalmSpec == Init /\ [][Next /\ Calm]_vars

----------------------------------------------------------------------------
(* Properties *)

\* The state is well formed; a request that is about to take a lock has a Pool.
TypeOK ==
  /\ stored \subseteq Devices /\ granted \subseteq Devices
  /\ pools \in Seq([devices : SUBSET Devices, nodes : SUBSET Devices])
  /\ Len(pools) <= MaxPools
  /\ active \in 0..Len(pools)
  /\ request \in [Requests -> [kind : Kinds \union {"none"}, device : Devices,
                               at : {"idle", "get", "load", "register", "lock"},
                               pool : 0..MaxPools, copy : SUBSET Devices]]
  /\ \A r \in Requests :
       /\ request[r].pool <= Len(pools)
       /\ request[r].at = "lock" => request[r].pool # NoPool
  /\ socket \in [Devices -> {"off", "connecting", "on", "refused", "leaving"}]

\* The database holds what was promised: every device that was answered to be
\* in the pool and has not been answered to be out of it, and no other.
NothingLost == stored = granted

\* The Pool that requests find agrees with the database.
MemoryMatchesStore == active # NoPool => pools[active].devices = stored

\* The devices that are connected are all in the one Pool that requests find,
\* so that each is told of the others.
OnePool ==
  \A d \in Devices :
    socket[d] = "on" =>
      /\ active # NoPool
      /\ d \in pools[active].nodes

\* A device that is not connected any more is in no Pool.
NoNodeLeft ==
  \A d \in Devices : socket[d] = "off" =>
    \A i \in DOMAIN pools : d \notin pools[i].nodes
============================================================================
