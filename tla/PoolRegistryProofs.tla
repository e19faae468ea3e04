------------------------- MODULE PoolRegistryProofs -------------------------
(***************************************************************************)
(* Proofs about PoolRegistry, for any devices, users, requests under way   *)
(* at once and Pool objects made.  The state is well formed under Spec.    *)
(* The safety properties are false under Spec (the run reg_race shows it): *)
(* they are proved under CalmSpec, which says when requests may overlap,   *)
(* and as long as the database does not fail in the middle of a leave,     *)
(* which the code does not undo (RemoveDevice).                            *)
(*                                                                         *)
(* The invariant, RegInv, says why: a Pool is only dropped when it is the  *)
(* active one and without nodes, and then Quiet leaves no other request    *)
(* that holds it, or a copy of the record that is about to change.         *)
(***************************************************************************)
EXTENDS PoolRegistry, SequenceTheorems, TLAPS

\* A Pool of pools.
PoolObject == [devices : SUBSET Devices, nodes : SUBSET Devices]

\* What a request is known by; TypeOK spells this set out.
RequestRecord ==
  [kind : Kinds \union {"none"}, device : Devices,
   at : {"idle", "get", "load", "register", "lock"},
   pool : 0..MaxPools, copy : SUBSET Devices]

\* A request that serves nothing has no kind, no Pool and no copy of the record.
LEMMA IdleFields ==
  ASSUME NEW d \in Devices
  PROVE  /\ Idle \in [kind : {"none"}, device : Devices, at : {"idle"},
                      pool : {NoPool}, copy : {{}}]
         /\ Idle.kind = "none" /\ Idle.at = "idle" /\ Idle.pool = NoPool
<1>1. (CHOOSE e \in Devices : TRUE) \in Devices
  OBVIOUS
<1> QED
  BY <1>1 DEF Idle

\* The state is well formed to begin with.
LEMMA InitTypes == Init => TypeOK
<1> SUFFICES ASSUME Init PROVE TypeOK
  OBVIOUS
<1>1. PICK d \in Devices : stored = {d}
  BY DEF Init
<1>2. Idle \in [kind : {"none"}, device : Devices, at : {"idle"}, pool : {NoPool}, copy : {{}}]
  BY <1>1, IdleFields
<1>3. request \in [Requests -> [kind : Kinds \union {"none"}, device : Devices,
                               at : {"idle", "get", "load", "register", "lock"},
                               pool : 0..MaxPools, copy : SUBSET Devices]]
  BY <1>2, RegistryAssumption DEF Init, NoPool
<1> QED
  BY <1>1, <1>2, <1>3, RegistryAssumption DEF Init, TypeOK, NoPool

\* Under the lock, the Pool the request found is the only one that changes
\* (performPoolAction works on the Pool it was given).
LEMMA ActTypes ==
  ASSUME TypeOK, NEW r \in Requests, request[r].at = "lock",
         NEW new \in PoolObject, pools' = [pools EXCEPT ![request[r].pool] = new]
  PROVE  /\ pools' \in Seq(PoolObject)
         /\ Len(pools') = Len(pools)
         /\ request[r].pool \in 1..Len(pools)
         /\ \A i \in 1..Len(pools) : pools'[i] = IF i = request[r].pool THEN new ELSE pools[i]
<1>1. pools \in Seq(PoolObject) /\ request[r].pool \in 1..Len(pools)
  BY RegistryAssumption DEF TypeOK, NoPool, PoolObject
<1> QED
  BY <1>1, ExceptSeq

\* What the pool actions leave of a Pool is a Pool.
LEMMA NewTypes ==
  ASSUME NEW p \in PoolObject, NEW kind, NEW d \in Devices
  PROVE  /\ NewDevices(p, kind, d) \in SUBSET Devices
         /\ NewNodes(p, kind, d) \in SUBSET Devices
         /\ [devices |-> NewDevices(p, kind, d), nodes |-> NewNodes(p, kind, d)] \in PoolObject
BY DEF PoolObject, NewDevices, NewNodes


\* A request that serves nothing is a request.
LEMMA IdleRecord ==
  ASSUME NEW d \in Devices
  PROVE  Idle \in RequestRecord
BY IdleFields, RegistryAssumption DEF RequestRecord, NoPool

\* A request starts with nothing but its kind and device.
LEMMA BeginFields ==
  ASSUME TypeOK, NEW r \in Requests, NEW d \in Devices, NEW kind \in Kinds, Begin(r, kind, d)
  PROVE  /\ request[r] = Idle
         /\ request' \in [Requests -> RequestRecord]
         /\ \A q \in Requests : q # r => request'[q] = request[q]
         /\ request'[r].kind = kind /\ request'[r].device = d /\ request'[r].at = "get"
         /\ request'[r].pool = NoPool /\ request'[r].copy = {}
<1>1. request \in [Requests -> RequestRecord]
  BY DEF TypeOK, RequestRecord
<1> DEFINE new == [Idle EXCEPT !.kind = kind, !.device = d, !.at = "get"]
<1>2. Idle \in RequestRecord /\ Idle.pool = NoPool /\ Idle.copy = {}
  BY IdleRecord, IdleFields
<1>3. /\ new \in RequestRecord
      /\ new.kind = kind /\ new.device = d /\ new.at = "get" /\ new.pool = NoPool /\ new.copy = {}
  BY <1>2 DEF RequestRecord
<1>4. request[r] = Idle /\ request' = [request EXCEPT ![r] = new]
  BY DEF Begin
<1> HIDE DEF new
<1> QED
  BY <1>1, <1>3, <1>4

\* A request that ends forgets all; the others do not notice.
LEMMA EndFields ==
  ASSUME TypeOK, NEW r \in Requests, request' = [request EXCEPT ![r] = Idle]
  PROVE  /\ request' \in [Requests -> RequestRecord]
         /\ request'[r] = Idle /\ request'[r].pool = NoPool /\ request'[r].at = "idle"
         /\ request'[r].kind = "none"
         /\ \A q \in Requests : q # r => request'[q] = request[q]
<1>1. request \in [Requests -> RequestRecord] /\ request[r].device \in Devices
  BY DEF TypeOK, RequestRecord
<1>2. Idle \in RequestRecord /\ Idle.pool = NoPool /\ Idle.at = "idle" /\ Idle.kind = "none"
  BY <1>1, IdleRecord, IdleFields
<1> QED
  BY <1>1, <1>2

\* A lookup gives the request the Pool it found, and changes nothing else of it.
LEMMA FoundFields ==
  ASSUME TypeOK, NEW r \in Requests, NEW i \in 0..MaxPools, Found(r, i)
  PROVE  /\ request' \in [Requests -> RequestRecord]
         /\ request'[r].pool = i /\ request'[r].at = "lock"
         /\ request'[r].kind = request[r].kind /\ request'[r].device = request[r].device
         /\ \A q \in Requests : q # r => request'[q] = request[q]
BY DEF TypeOK, RequestRecord, Found

\* Going to the database changes nothing but how far the request is.
LEMMA LoadFields ==
  ASSUME TypeOK, NEW r \in Requests, Load(r)
  PROVE  /\ request' \in [Requests -> RequestRecord]
         /\ request'[r].pool = request[r].pool /\ request'[r].at = "load"
         /\ request'[r].kind = request[r].kind /\ request'[r].device = request[r].device
         /\ \A q \in Requests : q # r => request'[q] = request[q]
BY DEF TypeOK, RequestRecord, Load

\* GetStoredPool gives the request the record as it is now.
LEMMA LoadedFields ==
  ASSUME TypeOK, NEW r \in Requests, Loaded(r)
  PROVE  /\ request' \in [Requests -> RequestRecord]
         /\ request'[r].pool = request[r].pool /\ request'[r].at = "register"
         /\ request'[r].copy = stored
         /\ request'[r].kind = request[r].kind /\ request'[r].device = request[r].device
         /\ \A q \in Requests : q # r => request'[q] = request[q]
<1> DEFINE new == [request[r] EXCEPT !.at = "register", !.copy = stored]
<1>1. request \in [Requests -> RequestRecord] /\ stored \in SUBSET Devices
  BY DEF TypeOK, RequestRecord
<1>2. /\ new \in RequestRecord /\ new.at = "register" /\ new.copy = stored
      /\ new.pool = request[r].pool /\ new.kind = request[r].kind
      /\ new.device = request[r].device
  BY <1>1 DEF RequestRecord
<1>3. request' = [request EXCEPT ![r] = new]
  BY <1>1 DEF Loaded
<1> HIDE DEF new
<1> QED
  BY <1>1, <1>2, <1>3

\* Every step of a request keeps the state well formed.
LEMMA StepTypes == TypeOK /\ [Next]_vars => TypeOK'
<1> SUFFICES ASSUME TypeOK, [Next]_vars PROVE TypeOK'
  OBVIOUS
<1> USE RegistryAssumption DEF NoPool
<1>0. /\ request \in [Requests -> RequestRecord]
      /\ pools \in Seq(PoolObject)
      /\ socket \in [Devices -> {"off", "connecting", "on", "refused", "leaving"}]
  BY DEF TypeOK, RequestRecord, PoolObject
<1>1. ASSUME request' \in [Requests -> RequestRecord], pools' \in Seq(PoolObject),
             stored' \subseteq Devices, granted' \subseteq Devices,
             Len(pools') <= MaxPools, active' \in 0..Len(pools'),
             \A r \in Requests : /\ request'[r].pool <= Len(pools')
                                 /\ request'[r].at = "lock" => request'[r].pool # NoPool,
             socket' \in [Devices -> {"off", "connecting", "on", "refused", "leaving"}]
      PROVE  TypeOK'
  BY <1>1 DEF TypeOK, RequestRecord, PoolObject
<1>2. ASSUME NEW r \in Requests, NEW d \in Devices, NEW kind \in Kinds,
             Begin(r, kind, d), UNCHANGED <<stored, pools, active, granted>>,
             socket' \in [Devices -> {"off", "connecting", "on", "refused", "leaving"}]
      PROVE  TypeOK'
  BY <1>0, <1>1, <1>2, BeginFields DEF TypeOK
<1>3. ASSUME NEW r \in Requests, NEW d \in Devices, NEW kind \in Kinds, Call(r, kind, d)
      PROVE  TypeOK'
  BY <1>0, <1>2, <1>3 DEF Call
<1>4. ASSUME NEW r \in Requests, NEW d \in Devices, Connect(r, d) \/ Disconnect(r, d)
      PROVE  TypeOK'
  BY <1>0, <1>2, <1>4 DEF Connect, Disconnect, Kinds
<1>5. ASSUME NEW r \in Requests, Get(r) PROVE TypeOK'
  <2>1. active \in 1..MaxPools
    BY <1>5 DEF Get, TypeOK
  <2> QED
    BY <1>0, <1>1, <1>5, <2>1, FoundFields DEF Get, TypeOK
<1>6. ASSUME NEW r \in Requests, Load(r) PROVE TypeOK'
  BY <1>0, <1>1, <1>6, LoadFields DEF Load, TypeOK
<1>7. ASSUME NEW r \in Requests, Loaded(r) PROVE TypeOK'
  BY <1>0, <1>1, <1>7, LoadedFields DEF Loaded, TypeOK
<1>8. ASSUME NEW r \in Requests, NotLoaded(r) PROVE TypeOK'
  <2>1. request' = [request EXCEPT ![r] = Idle] /\ UNCHANGED <<stored, pools, active, granted>>
    BY <1>8 DEF NotLoaded, Fails
  <2>2. socket' \in [Devices -> {"off", "connecting", "on", "refused", "leaving"}]
    BY <1>0, <1>8 DEF NotLoaded, Fails
  <2>3. /\ request' \in [Requests -> RequestRecord]
        /\ request'[r].pool = NoPool /\ request'[r].at = "idle"
        /\ \A q \in Requests : q # r => request'[q] = request[q]
    BY <2>1, EndFields
  <2>4. /\ stored \subseteq Devices /\ granted \subseteq Devices
        /\ Len(pools) \in Nat /\ Len(pools) <= MaxPools /\ active \in 0..Len(pools)
    BY <1>0 DEF TypeOK
  <2>5. \A q \in Requests : /\ request[q].pool <= Len(pools) /\ request[q].pool \in Nat
                            /\ request[q].at = "lock" => request[q].pool # NoPool
    BY <1>0 DEF TypeOK, RequestRecord
  <2>6. pools' = pools /\ active' = active /\ stored' = stored /\ granted' = granted
        /\ Len(pools') = Len(pools)
    BY <2>1
  <2>7. \A q \in Requests : /\ request'[q].pool <= Len(pools')
                            /\ request'[q].at = "lock" => request'[q].pool # NoPool
    BY <2>3, <2>4, <2>5, <2>6
  <2>8. /\ pools' \in Seq(PoolObject) /\ Len(pools') <= MaxPools /\ active' \in 0..Len(pools')
        /\ stored' \subseteq Devices /\ granted' \subseteq Devices
    BY <1>0, <2>4, <2>6
  <2> QED
    BY <1>1, <2>2, <2>3, <2>7, <2>8
<1>9. ASSUME NEW r \in Requests, Register(r) PROVE TypeOK'
  <2>1. CASE active # NoPool
    <3>1. active \in 1..MaxPools /\ active' = active /\ UNCHANGED pools
      BY <1>9, <2>1 DEF Register, TypeOK
    <3> QED
      BY <1>0, <1>1, <1>9, <3>1, FoundFields DEF Register, TypeOK
  <2>2. CASE active = NoPool
    <3> DEFINE new == [devices |-> request[r].copy, nodes |-> {}]
    <3>1. new \in PoolObject
      BY <1>0 DEF RequestRecord, PoolObject
    <3>2. pools' = Append(pools, new) /\ active' = Len(pools') /\ Len(pools) < MaxPools
      BY <1>9, <2>2 DEF Register
    <3> HIDE DEF new
    <3>3. pools' \in Seq(PoolObject) /\ Len(pools') = Len(pools) + 1
      BY <1>0, <3>1, <3>2, AppendProperties
    <3>4. active' \in 1..MaxPools /\ Len(pools') <= MaxPools /\ Len(pools) \in Nat
      BY <1>0, <3>2, <3>3
    <3>5. \A q \in Requests : /\ request[q].pool <= Len(pools) /\ request[q].pool \in Nat
                              /\ request[q].at = "lock" => request[q].pool # NoPool
      BY <1>0 DEF TypeOK, RequestRecord
    <3>6. /\ request' \in [Requests -> RequestRecord]
          /\ request'[r].pool = active'
          /\ \A q \in Requests : q # r => request'[q] = request[q]
      BY <1>9, <3>4, FoundFields DEF Register
    <3>7. \A q \in Requests : /\ request'[q].pool <= Len(pools')
                              /\ request'[q].at = "lock" => request'[q].pool # NoPool
      BY <3>2, <3>3, <3>4, <3>5, <3>6
    <3>8. UNCHANGED <<stored, socket, granted>> /\ stored \subseteq Devices /\ granted \subseteq Devices
      BY <1>9 DEF Register, TypeOK
    <3> QED
      BY <1>0, <1>1, <3>2, <3>3, <3>4, <3>6, <3>7, <3>8
  <2> QED
    BY <2>1, <2>2
<1>10. ASSUME NEW r \in Requests, NEW new \in PoolObject, request[r].at = "lock",
              pools' = [pools EXCEPT ![request[r].pool] = new],
              request' = [request EXCEPT ![r] = Idle],
              stored' \subseteq Devices, granted' \subseteq Devices, active' \in {NoPool, active},
              socket' \in [Devices -> {"off", "connecting", "on", "refused", "leaving"}]
       PROVE  TypeOK'
  <2>1. pools' \in Seq(PoolObject) /\ Len(pools') = Len(pools)
    BY <1>10, ActTypes
  <2>2. \A q \in Requests : /\ request[q].pool <= Len(pools) /\ request[q].pool \in Nat
                            /\ request[q].at = "lock" => request[q].pool # NoPool
    BY <1>0 DEF TypeOK, RequestRecord
  <2>3. /\ request' \in [Requests -> RequestRecord]
        /\ request'[r].pool = NoPool /\ request'[r].at = "idle"
        /\ \A q \in Requests : q # r => request'[q] = request[q]
    BY <1>10, EndFields
  <2>4. Len(pools) \in Nat /\ Len(pools) <= MaxPools /\ active \in 0..Len(pools)
    BY <1>0 DEF TypeOK
  <2> QED
    BY <1>1, <1>10, <2>1, <2>2, <2>3, <2>4
<1>11. ASSUME NEW r \in Requests, request[r].at = "lock"
       PROVE  pools[request[r].pool] \in PoolObject /\ request[r].device \in Devices
  <2>1. request[r].pool \in 1..Len(pools)
    BY <1>0, <1>11 DEF TypeOK, RequestRecord
  <2> QED
    BY <1>0, <2>1 DEF RequestRecord
<1>12. ASSUME NEW r \in Requests, Act(r) PROVE TypeOK'
  <2> DEFINE p == pools[request[r].pool]
             d == request[r].device
             kind == request[r].kind
             new == [devices |-> NewDevices(p, kind, d), nodes |-> NewNodes(p, kind, d)]
  <2>1. p \in PoolObject /\ d \in Devices /\ request[r].at = "lock"
    BY <1>11, <1>12 DEF Act
  <2>2. new \in PoolObject /\ NewDevices(p, kind, d) \subseteq Devices
    BY <2>1, NewTypes
  <2>3. /\ pools' = [pools EXCEPT ![request[r].pool] = new]
        /\ request' = [request EXCEPT ![r] = Idle]
        /\ active' \in {NoPool, active}
    BY <1>12 DEF Act, ActOn, Unregistered
  <2>4. stored' \subseteq Devices /\ granted' \subseteq Devices
    BY <1>12, <2>1, <2>2 DEF Act, ActOn, TypeOK
  <2>5. socket' \in [Devices -> {"off", "connecting", "on", "refused", "leaving"}]
    BY <1>0, <1>12, <2>1 DEF Act
  <2> QED
    BY <1>10, <2>1, <2>2, <2>3, <2>4, <2>5
<1>13. ASSUME NEW r \in Requests, Refused(r) PROVE TypeOK'
  <2> DEFINE p == pools[request[r].pool]
  <2>1. p \in PoolObject /\ request[r].device \in Devices /\ request[r].at = "lock"
    BY <1>11, <1>13 DEF Refused
  <2>2. PICK lost : pools' = [pools EXCEPT ![request[r].pool].devices = @ \ lost]
    BY <1>13 DEF Refused
  <2> DEFINE new == [p EXCEPT !.devices = @ \ lost]
  <2>3. new \in PoolObject
    BY <2>1 DEF PoolObject
  <2>4. pools' = [pools EXCEPT ![request[r].pool] = new]
    BY <2>2
  <2>5. /\ request' = [request EXCEPT ![r] = Idle]
        /\ active' \in {NoPool, active} /\ UNCHANGED <<stored, granted>>
    BY <1>13 DEF Refused, Unregistered
  <2>6. socket' \in [Devices -> {"off", "connecting", "on", "refused", "leaving"}]
    BY <1>0, <1>13, <2>1 DEF Refused
  <2>7. stored' \subseteq Devices /\ granted' \subseteq Devices
    BY <2>5 DEF TypeOK
  <2> QED
    BY <1>10, <2>1, <2>3, <2>4, <2>5, <2>6, <2>7
<1>14. CASE UNCHANGED vars
  BY <1>14 DEF vars, TypeOK
<1> QED
  BY <1>3, <1>4, <1>5, <1>6, <1>7, <1>8, <1>9, <1>12, <1>13, <1>14 DEF Next, Step

\* The state stays well formed, and a request that is about to take a lock has
\* a Pool, whatever requests overlap (fetchPool never hands out a nil Pool).
THEOREM TypeCorrect == Spec => []TypeOK
BY InitTypes, StepTypes, PTL DEF Spec

----------------------------------------------------------------------------
(* The inductive invariant *)

\* The answers, the database and the active Pool agree.
Agree == NothingLost /\ MemoryMatchesStore

\* The devices that are connected meet in the active Pool, and no other Pool
\* has nodes; a node is of a device that is connected or about to be taken out.
Meet ==
  /\ OnePool
  /\ \A i \in DOMAIN pools : \A d \in pools[i].nodes :
       i = active /\ socket[d] \in {"on", "leaving"}

\* A connection that is being made, or ended, is so by one request.
Claims ==
  /\ \A r \in Requests :
       /\ request[r].kind = "connect" => socket[request[r].device] = "connecting"
       /\ request[r].kind = "disconnect" => socket[request[r].device] = "leaving"
  /\ \A r, q \in Requests :
       /\ request[r].kind \in {"connect", "disconnect"}
       /\ request[q].kind \in {"connect", "disconnect"}
       /\ request[r].device = request[q].device
       => r = q

\* No request holds a Pool that is not active any more, nor, while no Pool is
\* active, a copy of a record that has changed since.
Current ==
  \A r \in Requests :
    /\ request[r].at = "lock" => request[r].pool = active
    /\ request[r].at = "register" /\ active = NoPool => request[r].copy = stored
    /\ request[r].at \in {"load", "register"} => request[r].kind # "disconnect"

\* Requests overlap only when that is harmless.
Quiet == Alone \/ InUse \/ Connecting

RegInv == Agree /\ Meet /\ Claims /\ Current

\* The invariant holds of a pool that was just made.
LEMMA InitInv == Init => RegInv /\ Quiet
<1> SUFFICES ASSUME Init PROVE RegInv /\ Quiet
  OBVIOUS
<1>1. \E d \in Devices : TRUE
  BY DEF Init
<1>2. \A r \in Requests : request[r] = Idle /\ request[r].kind = "none" /\ request[r].at = "idle"
  BY <1>1, IdleFields DEF Init
<1>3. Agree /\ Meet
  BY DEF Init, Agree, NothingLost, MemoryMatchesStore, Meet, OnePool
<1>4. Claims /\ Current
  BY <1>2 DEF Claims, Current
<1>5. Quiet
  BY <1>2 DEF Quiet, Alone, UnderWay
<1> QED
  BY <1>3, <1>4, <1>5 DEF RegInv

\* A request that starts keeps the invariant: a device is in one of its
\* connection's stages at a time.
LEMMA BeginInv ==
  ASSUME TypeOK, RegInv, NEW r \in Requests, NEW d \in Devices, NEW kind \in Kinds,
         Begin(r, kind, d), UNCHANGED <<stored, pools, active, granted>>,
         \/ kind \notin {"connect", "disconnect"} /\ UNCHANGED socket
         \/ /\ kind = "connect" /\ socket[d] = "off"
            /\ socket' = [socket EXCEPT ![d] = "connecting"]
         \/ /\ kind = "disconnect" /\ socket[d] \in {"on", "refused"}
            /\ socket' = [socket EXCEPT ![d] = "leaving"]
  PROVE  RegInv'
<1>1. /\ \A q \in Requests : q # r => request'[q] = request[q]
      /\ request'[r].kind = kind /\ request'[r].device = d /\ request'[r].at = "get"
  BY BeginFields
<1>2. socket \in [Devices -> {"off", "connecting", "on", "refused", "leaving"}]
  BY DEF TypeOK
<1>3. Agree'
  BY DEF RegInv, Agree, NothingLost, MemoryMatchesStore
<1>4. \A q \in Requests : request[q].device \in Devices
  BY DEF TypeOK
<1>5. Meet'
  <2>1. OnePool'
    BY <1>2 DEF RegInv, Meet, OnePool
  <2>2. \A i \in DOMAIN pools : \A e \in pools[i].nodes :
          i = active /\ socket'[e] \in {"on", "leaving"}
    <3>1. \A i \in DOMAIN pools : pools[i].nodes \subseteq Devices
      <4>1. pools \in Seq(PoolObject)
        BY DEF TypeOK, PoolObject
      <4>2. \A i \in DOMAIN pools : pools[i] \in PoolObject
        BY <4>1
      <4> QED
        BY <4>2 DEF PoolObject
    <3> QED
      BY <1>2, <3>1 DEF RegInv, Meet
  <2>3. pools' = pools /\ active' = active
    OBVIOUS
  <2>4. \A i \in DOMAIN pools' : \A e \in pools'[i].nodes :
          i = active' /\ socket'[e] \in {"on", "leaving"}
    BY <2>2, <2>3
  <2> QED
    BY <2>1, <2>4 DEF Meet
<1>6. Claims'
  BY <1>1, <1>2, <1>4 DEF RegInv, Claims
<1>7. Current'
  BY <1>1 DEF RegInv, Current
<1> QED
  BY <1>3, <1>5, <1>6, <1>7 DEF RegInv

\* Acting under the lock keeps the invariant, when the answer agrees with the
\* database, the Pool with both, and a Pool left without nodes was held by no
\* other request (performPoolAction followed by ActivePools.Remove).
LEMMA ActedInv ==
  ASSUME TypeOK, RegInv, NEW r \in Requests, request[r].at = "lock", NEW new \in PoolObject,
         pools' = [pools EXCEPT ![request[r].pool] = new],
         request' = [request EXCEPT ![r] = Idle],
         stored' = granted', new.devices = stored',
         active' = Unregistered(new.nodes),
         socket' \in [Devices -> {"off", "connecting", "on", "refused", "leaving"}],
         \A e \in Devices : e # request[r].device =>
           /\ socket'[e] = socket[e]
           /\ e \in new.nodes <=> e \in pools[active].nodes,
         request[r].kind \notin {"connect", "disconnect"} =>
           socket'[request[r].device] = socket[request[r].device],
         request[r].device \in new.nodes => socket'[request[r].device] \in {"on", "leaving"},
         socket'[request[r].device] = "on" => request[r].device \in new.nodes,
         new.nodes = {} => \A q \in Requests : q # r => request[q] = Idle
  PROVE  RegInv'
<1> DEFINE d == request[r].device
<1>1. /\ request'[r] = Idle /\ request'[r].at = "idle" /\ request'[r].kind = "none"
      /\ \A q \in Requests : q # r => request'[q] = request[q]
  BY EndFields
<1>2. /\ active = request[r].pool /\ active \in 1..Len(pools) /\ DOMAIN pools = 1..Len(pools)
      /\ DOMAIN pools' = DOMAIN pools
      /\ pools'[active] = new /\ \A i \in DOMAIN pools : i # active => pools'[i] = pools[i]
  <2>1. active = request[r].pool
    BY DEF RegInv, Current
  <2>2. /\ pools' \in Seq(PoolObject) /\ Len(pools') = Len(pools) /\ request[r].pool \in 1..Len(pools)
        /\ \A i \in 1..Len(pools) : pools'[i] = IF i = request[r].pool THEN new ELSE pools[i]
    BY ActTypes
  <2>0. pools \in Seq(PoolObject)
    BY DEF TypeOK, PoolObject
  <2>3. DOMAIN pools = 1..Len(pools) /\ DOMAIN pools' = 1..Len(pools)
    BY <2>0, <2>2
  <2>4. pools'[active] = new /\ \A i \in 1..Len(pools) : i # active => pools'[i] = pools[i]
    BY <2>1, <2>2
  <2>5. active \in 1..Len(pools) /\ DOMAIN pools' = DOMAIN pools
    BY <2>1, <2>2, <2>3
  <2>6. \A i \in DOMAIN pools : i # active => pools'[i] = pools[i]
    BY <2>3, <2>4
  <2> QED
    BY <2>1, <2>3, <2>4, <2>5, <2>6
<1>3. active' \in {NoPool, active} /\ (active' = NoPool <=> new.nodes = {})
  BY <1>2, RegistryAssumption DEF Unregistered, NoPool
<1>4. d \in Devices /\ new.nodes \subseteq Devices
  BY DEF TypeOK, PoolObject
<1>5. Agree'
  BY <1>2, <1>3 DEF Agree, NothingLost, MemoryMatchesStore
<1>6. \A i \in DOMAIN pools' : \A e \in pools'[i].nodes :
        i = active' /\ socket'[e] \in {"on", "leaving"}
  <2> TAKE i \in DOMAIN pools'
  <2>1. CASE i # active
    BY <1>2, <2>1 DEF RegInv, Meet
  <2>2. CASE i = active
    <3> TAKE e \in pools'[i].nodes
    <3>1. e \in new.nodes /\ e \in Devices /\ i = active'
      BY <1>2, <1>3, <1>4, <2>2
    <3>2. socket'[e] \in {"on", "leaving"}
      BY <1>2, <3>1 DEF RegInv, Meet
    <3> QED
      BY <3>1, <3>2
  <2> QED
    BY <2>1, <2>2
<1>7. OnePool'
  <2> SUFFICES ASSUME NEW e \in Devices, socket'[e] = "on"
               PROVE  active' # NoPool /\ e \in pools'[active'].nodes
    BY DEF OnePool
  <2>1. e \in new.nodes
    <3>1. CASE e # d
      BY <3>1 DEF RegInv, Meet, OnePool
    <3>2. CASE e = d
      BY <3>2
    <3> QED
      BY <3>1, <3>2
  <2> QED
    BY <1>2, <1>3, <2>1
<1>8. Claims'
  <2>1. \A q \in Requests : q # r => request'[q].device \in Devices
    BY <1>1 DEF TypeOK
  <2> QED
    BY <1>1, <1>4, <2>1 DEF RegInv, Claims
<1>9. Current'
  <2> SUFFICES ASSUME NEW q \in Requests, q # r
               PROVE  /\ request'[q].at = "lock" => request'[q].pool = active'
                      /\ request'[q].at = "register" /\ active' = NoPool => request'[q].copy = stored'
                      /\ request'[q].at \in {"load", "register"} => request'[q].kind # "disconnect"
    BY <1>1 DEF Current
  <2>1. CASE active' = active
    BY <1>1, <1>2, <2>1 DEF RegInv, Current, NoPool
  <2>2. CASE new.nodes = {}
    <3>1. request'[q].at = "idle"
      BY <1>1, <1>4, <2>2, IdleFields
    <3> QED
      BY <3>1
  <2> QED
    BY <1>3, <2>1, <2>2
<1> QED
  BY <1>5, <1>6, <1>7, <1>8, <1>9 DEF RegInv, Meet

\* The only request under way is the one that holds the lock.
LEMMA NotAlone ==
  ASSUME Alone, NEW d \in Devices, NEW r \in Requests, request[r].at = "lock"
  PROVE  \A q \in Requests : q # r => request[q] = Idle
BY IdleFields DEF Alone, UnderWay

\* Every calm step keeps the invariant.
LEMMA RegStep ==
  ASSUME "leave" \notin MayFail
  PROVE  TypeOK /\ RegInv /\ Quiet /\ [Next /\ Calm]_vars => RegInv' /\ Quiet'
<1> SUFFICES ASSUME TypeOK, RegInv, Quiet, [Next /\ Calm]_vars PROVE RegInv' /\ Quiet'
  OBVIOUS
<1> USE RegistryAssumption DEF NoPool
<1>0. /\ socket \in [Devices -> {"off", "connecting", "on", "refused", "leaving"}]
      /\ pools \in Seq(PoolObject) /\ active \in 0..Len(pools) /\ DOMAIN pools = 1..Len(pools)
      /\ \A r \in Requests : request[r].device \in Devices
  BY DEF TypeOK, PoolObject
<1>1. CASE UNCHANGED vars
  <2>1. Agree' /\ Meet'
    BY <1>1 DEF vars, RegInv, Agree, NothingLost, MemoryMatchesStore, Meet, OnePool
  <2>2. Claims' /\ Current'
    BY <1>1 DEF vars, RegInv, Claims, Current
  <2>3. Quiet'
    BY <1>1 DEF vars, Quiet, Alone, UnderWay, InUse, Connecting
  <2> QED
    BY <2>1, <2>2, <2>3 DEF RegInv
<1>2. CASE Next /\ Calm
  <2>1. Quiet'
    BY <1>2 DEF Calm, Quiet
  <2>2. ASSUME NEW r \in Requests, NEW d \in Devices, Connect(r, d) \/ Disconnect(r, d)
        PROVE  RegInv'
    BY <2>2, BeginInv DEF Connect, Disconnect, Kinds
  <2>3. ASSUME NEW r \in Requests, NEW d \in Devices, NEW kind \in Kinds, Call(r, kind, d)
        PROVE  RegInv'
    BY <2>3, BeginInv DEF Call
  <2>4. ASSUME NEW r \in Requests, UNCHANGED <<stored, pools, active, socket, granted>>,
               request'[r].kind = request[r].kind, request'[r].device = request[r].device,
               \A q \in Requests : q # r => request'[q] = request[q],
               request'[r].at = "lock" => request'[r].pool = active,
               request'[r].at = "register" => request'[r].copy = stored,
               request'[r].at \in {"load", "register"} => request'[r].kind # "disconnect"
        PROVE  RegInv'
    <3>1. Agree' /\ Meet'
      BY <2>4 DEF RegInv, Agree, NothingLost, MemoryMatchesStore, Meet, OnePool
    <3>2. Claims'
      <4>1. \A q \in Requests : request'[q].kind = request[q].kind
                                /\ request'[q].device = request[q].device
        BY <2>4
      <4> QED
        BY <2>4, <4>1 DEF RegInv, Claims
    <3>3. Current'
      BY <2>4 DEF RegInv, Current
    <3> QED
      BY <3>1, <3>2, <3>3 DEF RegInv
  <2>5. ASSUME NEW r \in Requests, Get(r) PROVE RegInv'
    <3>1. active \in 0..MaxPools
      BY DEF TypeOK
    <3> QED
      BY <2>4, <2>5, <3>1, FoundFields DEF Get
  <2>6. ASSUME NEW r \in Requests, Load(r) PROVE RegInv'
    BY <2>4, <2>6, LoadFields DEF Load
  <2>7. ASSUME NEW r \in Requests, Loaded(r) PROVE RegInv'
    <3>1. request[r].kind # "disconnect"
      BY <2>7 DEF Loaded, RegInv, Current
    <3> QED
      BY <2>4, <2>7, <3>1, LoadedFields DEF Loaded
  <2>8. ASSUME NEW r \in Requests, NotLoaded(r) PROVE RegInv'
    <3> DEFINE d == request[r].device
    <3>1. /\ request' = [request EXCEPT ![r] = Idle] /\ UNCHANGED <<stored, pools, active, granted>>
          /\ socket' = [socket EXCEPT ![d] = CASE request[r].kind = "connect" -> "refused"
                                               [] request[r].kind = "disconnect" -> "off"
                                               [] OTHER -> @]
      BY <2>8 DEF NotLoaded, Fails
    <3>2. /\ request'[r].at = "idle" /\ request'[r].kind = "none"
          /\ \A q \in Requests : q # r => request'[q] = request[q]
      BY <3>1, EndFields
    <3>3. request[r].kind = "disconnect" => active = NoPool
      BY <2>8 DEF NotLoaded, RegInv, Current
    <3>4. Agree'
      BY <3>1 DEF RegInv, Agree, NothingLost, MemoryMatchesStore
    <3>5. OnePool'
      BY <1>0, <3>1 DEF RegInv, Meet, OnePool
    <3>6. \A i \in DOMAIN pools : \A e \in pools[i].nodes :
            i = active /\ socket'[e] \in {"on", "leaving"}
      <4> TAKE i \in DOMAIN pools
      <4> TAKE e \in pools[i].nodes
      <4>1. i = active /\ socket[e] \in {"on", "leaving"} /\ active # NoPool
        BY <1>0 DEF RegInv, Meet
      <4>2. request[r].kind = "connect" => e # d
        BY <4>1 DEF RegInv, Claims
      <4> QED
        BY <1>0, <3>1, <3>3, <4>1, <4>2
    <3>7. Claims'
      BY <1>0, <3>1, <3>2 DEF RegInv, Claims
    <3>8. Current'
      BY <3>1, <3>2 DEF RegInv, Current
    <3> QED
      BY <3>1, <3>4, <3>5, <3>6, <3>7, <3>8 DEF RegInv, Meet
  <2>9. ASSUME NEW r \in Requests, Register(r) PROVE RegInv'
    <3>1. CASE active # NoPool
      <4>1. active \in 0..MaxPools /\ active' = active /\ UNCHANGED <<pools, stored, socket, granted>>
        BY <2>9, <3>1 DEF Register, TypeOK
      <4> QED
        BY <2>4, <2>9, <4>1, FoundFields DEF Register
    <3>2. CASE active = NoPool
      <4> DEFINE new == [devices |-> request[r].copy, nodes |-> {}]
      <4>1. /\ pools' = Append(pools, new) /\ active' = Len(pools') /\ Len(pools) < MaxPools
            /\ Found(r, active') /\ UNCHANGED <<stored, socket, granted>>
            /\ request[r].at = "register"
        BY <2>9, <3>2 DEF Register
      <4>2. new \in PoolObject /\ new.devices = stored /\ new.nodes = {}
        BY <3>2, <4>1 DEF TypeOK, PoolObject, RegInv, Current
      <4> HIDE DEF new
      <4>3. /\ pools' \in Seq(PoolObject) /\ Len(pools') = Len(pools) + 1
            /\ pools'[Len(pools) + 1] = new
            /\ \A i \in 1..Len(pools) : pools'[i] = pools[i]
        BY <1>0, <4>1, <4>2, AppendProperties
      <4>4. /\ active' = Len(pools) + 1 /\ active' \in 0..MaxPools
            /\ DOMAIN pools' = 1..(Len(pools) + 1) /\ Len(pools) \in Nat
        BY <1>0, <4>1, <4>3
      <4>5. /\ request'[r].pool = active' /\ request'[r].at = "lock"
            /\ request'[r].kind = request[r].kind /\ request'[r].device = request[r].device
            /\ \A q \in Requests : q # r => request'[q] = request[q]
        BY <4>1, <4>4, FoundFields
      <4>6. \A q \in Requests : request[q].at # "lock"
        BY <3>2 DEF RegInv, Current, TypeOK
      <4>7. Agree'
        BY <4>1, <4>2, <4>3, <4>4 DEF RegInv, Agree, NothingLost, MemoryMatchesStore
      <4>8. \A i \in DOMAIN pools : pools[i].nodes = {}
        BY <1>0, <3>2 DEF RegInv, Meet
      <4>9. Meet'
        <5>1. OnePool'
          BY <3>2, <4>1 DEF RegInv, Meet, OnePool
        <5>2. \A i \in DOMAIN pools' : pools'[i].nodes = {}
          BY <1>0, <4>2, <4>3, <4>4, <4>8
        <5> QED
          BY <5>1, <5>2 DEF Meet
      <4>10. Claims'
        <5>1. \A q \in Requests : request'[q].kind = request[q].kind
                                  /\ request'[q].device = request[q].device
          BY <4>5
        <5> QED
          BY <4>1, <5>1 DEF RegInv, Claims
      <4>11. Current'
        BY <4>4, <4>5, <4>6 DEF RegInv, Current
      <4> QED
        BY <4>7, <4>9, <4>10, <4>11 DEF RegInv
    <3> QED
      BY <3>1, <3>2
  <2>10. ASSUME NEW r \in Requests, request[r].at = "lock"
         PROVE  /\ request[r].pool = active /\ active # NoPool /\ active \in DOMAIN pools
                /\ pools[active] \in PoolObject /\ pools[active].devices = stored
    <3>1. request[r].pool = active /\ active # NoPool
      BY <2>10 DEF TypeOK, RegInv, Current
    <3>2. active \in DOMAIN pools
      BY <1>0, <3>1
    <3> QED
      BY <1>0, <3>1, <3>2 DEF RegInv, Agree, MemoryMatchesStore
  <2>11. ASSUME NEW r \in Requests, Act(r) PROVE RegInv'
    <3> DEFINE d == request[r].device
               kind == request[r].kind
               p == pools[active]
               new == [devices |-> NewDevices(p, kind, d), nodes |-> NewNodes(p, kind, d)]
    <3>1. /\ request[r].at = "lock" /\ request[r].pool = active /\ p \in PoolObject
          /\ p.devices = stored /\ stored = granted /\ d \in Devices
      BY <1>0, <2>10, <2>11 DEF Act, RegInv, Agree, NothingLost
    <3>2. /\ Succeeds(p, kind, d)
          /\ pools' = [pools EXCEPT ![request[r].pool] = new]
          /\ stored' = IF Writes(p, kind, d) THEN NewDevices(p, kind, d) ELSE stored
          /\ granted' = IF kind = "leave" THEN granted \ {d}
                        ELSE IF Writes(p, kind, d) THEN granted \union {d} ELSE granted
          /\ active' = Unregistered(new.nodes)
          /\ request' = [request EXCEPT ![r] = Idle]
          /\ socket' = [socket EXCEPT ![d] = CASE kind = "connect" -> "on"
                                               [] kind = "disconnect" -> "off"
                                               [] OTHER -> @]
      BY <2>11, <3>1 DEF Act, ActOn
    <3>3. new \in PoolObject /\ new.devices = NewDevices(p, kind, d) /\ new.nodes = NewNodes(p, kind, d)
      BY <3>1, NewTypes
    <3>4. stored' = granted' /\ NewDevices(p, kind, d) = stored'
      BY <3>1, <3>2 DEF Succeeds, Writes, Adds, NewDevices
    <3>5. /\ \A e \in Devices : e # d =>
               /\ socket'[e] = socket[e]
               /\ e \in new.nodes <=> e \in p.nodes
          /\ kind \notin {"connect", "disconnect"} => socket'[d] = socket[d]
      BY <1>0, <3>1, <3>2, <3>3 DEF NewNodes
    <3>6. /\ d \in new.nodes => socket'[d] \in {"on", "leaving"}
          /\ socket'[d] = "on" => d \in new.nodes
      <4>1. CASE kind = "connect"
        BY <1>0, <3>1, <3>2, <3>3, <4>1 DEF NewNodes
      <4>2. CASE kind = "disconnect"
        BY <1>0, <3>1, <3>2, <3>3, <4>2 DEF NewNodes
      <4>3. CASE kind \notin {"connect", "disconnect"}
        <5>1. new.nodes = p.nodes /\ socket'[d] = socket[d]
          BY <3>3, <3>5, <4>3 DEF NewNodes
        <5> QED
          BY <2>10, <3>1, <5>1 DEF RegInv, Meet, OnePool
      <4> QED
        BY <4>1, <4>2, <4>3
    <3>7. new.nodes = {} => \A q \in Requests : q # r => request[q] = Idle
      <4> SUFFICES ASSUME new.nodes = {} PROVE \A q \in Requests : q # r => request[q] = Idle
        OBVIOUS
      <4>1. ~InUse
        <5> SUFFICES ASSUME NEW e \in Devices, socket[e] = "on" PROVE FALSE
          BY DEF InUse
        <5>1. e \in p.nodes
          BY DEF RegInv, Meet, OnePool
        <5>2. kind = "disconnect" => e # d
          BY DEF RegInv, Claims
        <5> QED
          BY <3>3, <5>1, <5>2 DEF NewNodes
      <4>2. ~Connecting
        <5>1. r \in UnderWay
          BY <3>1, IdleFields DEF UnderWay
        <5>2. kind # "connect"
          BY <3>3 DEF NewNodes
        <5> QED
          BY <5>1, <5>2 DEF Connecting
      <4>3. Alone
        BY <4>1, <4>2 DEF Quiet
      <4> QED
        BY <3>1, <4>3, NotAlone
    <3>8. socket' \in [Devices -> {"off", "connecting", "on", "refused", "leaving"}]
      BY <1>0, <3>2
    <3> HIDE DEF new
    <3> QED
      BY <3>1, <3>2, <3>3, <3>4, <3>5, <3>6, <3>7, <3>8, ActedInv
  <2>12. ASSUME NEW r \in Requests, Refused(r) PROVE RegInv'
    <3> DEFINE d == request[r].device
               kind == request[r].kind
               p == pools[active]
    <3>1. /\ request[r].at = "lock" /\ request[r].pool = active /\ active \in DOMAIN pools
          /\ p \in PoolObject /\ p.devices = stored /\ stored = granted /\ d \in Devices
      BY <1>0, <2>10, <2>12 DEF Refused, RegInv, Agree, NothingLost
    <3>2. PICK lost :
            /\ pools' = [pools EXCEPT ![request[r].pool].devices = @ \ lost]
            /\ lost # {} => kind = "leave" /\ Writes(p, kind, d)
      BY <2>12, <3>1 DEF Refused
    <3>3. /\ ~Succeeds(p, kind, d) \/ (Writes(p, kind, d) /\ kind \in MayFail)
          /\ active' = Unregistered(p.nodes)
          /\ request' = [request EXCEPT ![r] = Idle]
          /\ socket' = [socket EXCEPT ![d] = IF kind = "connect" THEN "refused" ELSE @]
          /\ UNCHANGED <<stored, granted>>
      <4>1. ~Succeeds(p, kind, d) \/ (Writes(p, kind, d) /\ kind \in MayFail)
        BY <2>12, <3>1 DEF Refused
      <4>2. active' = Unregistered(pools[request[r].pool].nodes)
        BY <2>12 DEF Refused
      <4>3. active' = Unregistered(p.nodes)
        BY <3>1, <4>2
      <4> QED
        BY <2>12, <4>1, <4>3 DEF Refused
    <3>4. lost = {}
      BY <3>2, <3>3 DEF Writes, Succeeds
    <3>5. pools' = [pools EXCEPT ![request[r].pool] = p]
      <4>1. [p EXCEPT !.devices = @ \ lost] = p
        BY <3>1, <3>4 DEF PoolObject
      <4> QED
        BY <3>1, <3>2, <4>1
    <3>6. kind # "disconnect"
      BY <3>3 DEF Succeeds, Writes, Adds
    <3>7. kind = "connect" => socket[d] = "connecting" /\ d \notin p.nodes
      BY <3>1 DEF RegInv, Claims, Meet
    <3>8. /\ \A e \in Devices : e # d => socket'[e] = socket[e]
          /\ kind \notin {"connect", "disconnect"} => socket'[d] = socket[d]
          /\ kind = "connect" => socket'[d] = "refused"
      BY <1>0, <3>1, <3>3
    <3>9. /\ d \in p.nodes => socket'[d] \in {"on", "leaving"}
          /\ socket'[d] = "on" => d \in p.nodes
      BY <3>1, <3>6, <3>7, <3>8 DEF RegInv, Meet, OnePool
    <3>10. p.nodes = {} => \A q \in Requests : q # r => request[q] = Idle
      <4> SUFFICES ASSUME p.nodes = {} PROVE \A q \in Requests : q # r => request[q] = Idle
        OBVIOUS
      <4>1. ~InUse
        BY DEF InUse, RegInv, Meet, OnePool
      <4>2. Alone
        <5> SUFFICES ASSUME ~Alone PROVE FALSE
          OBVIOUS
        <5>1. Connecting /\ Refusals' \subseteq Refusals
          BY <1>2, <4>1 DEF Quiet, Calm
        <5>2. r \in UnderWay
          BY <3>1, IdleFields DEF UnderWay
        <5>3. kind = "connect"
          BY <5>1, <5>2 DEF Connecting
        <5>4. d \in Refusals' /\ d \notin Refusals
          BY <3>1, <3>7, <3>8, <5>3 DEF Refusals
        <5> QED
          BY <5>1, <5>4
      <4> QED
        BY <3>1, <4>2, NotAlone
    <3>11. socket' \in [Devices -> {"off", "connecting", "on", "refused", "leaving"}]
      BY <1>0, <3>3
    <3>12. stored' = granted' /\ p.devices = stored'
      BY <3>1, <3>3
    <3> HIDE DEF p
    <3> QED
      BY <3>1, <3>3, <3>5, <3>8, <3>9, <3>10, <3>11, <3>12, ActedInv DEF p
  <2> QED
    BY <1>2, <2>1, <2>2, <2>3, <2>5, <2>6, <2>7, <2>8, <2>9, <2>11, <2>12 DEF Next, Step
<1> QED
  BY <1>1, <1>2

\* In calm behaviours the invariant always holds.
THEOREM RegistryInvariant ==
  ASSUME "leave" \notin MayFail
  PROVE  CalmSpec => [](TypeOK /\ RegInv /\ Quiet)
<1>1. [Next /\ Calm]_vars => [Next]_vars
  OBVIOUS
<1>2. TypeOK /\ RegInv /\ Quiet /\ [Next /\ Calm]_vars => (TypeOK /\ RegInv /\ Quiet)'
  BY <1>1, StepTypes, RegStep
<1> QED
  BY <1>2, InitTypes, InitInv, PTL DEF CalmSpec

\* Nothing is lost: in calm behaviours the database holds exactly the devices
\* that were answered to be in the pool (AddUser, AddDevice, RemoveDevice).
THEOREM DatabaseKeepsAnswers ==
  ASSUME "leave" \notin MayFail
  PROVE  CalmSpec => []NothingLost
<1>1. RegInv => NothingLost
  BY DEF RegInv, Agree
<1> QED
  BY <1>1, RegistryInvariant, PTL

\* In calm behaviours the Pool in ActivePools agrees with the database.
THEOREM ActivePoolAgrees ==
  ASSUME "leave" \notin MayFail
  PROVE  CalmSpec => []MemoryMatchesStore
<1>1. RegInv => MemoryMatchesStore
  BY DEF RegInv, Agree
<1> QED
  BY <1>1, RegistryInvariant, PTL

\* In calm behaviours the devices that are connected are in one Pool, the one in
\* ActivePools (ConnectToPool).
THEOREM ConnectedMeet ==
  ASSUME "leave" \notin MayFail
  PROVE  CalmSpec => []OnePool
<1>1. RegInv => OnePool
  BY DEF RegInv, Meet
<1> QED
  BY <1>1, RegistryInvariant, PTL

\* In calm behaviours a device that is not connected is in no Pool, not even in
\* one that was dropped (DisconnectFromPool).
THEOREM GoneFromEveryPool ==
  ASSUME "leave" \notin MayFail
  PROVE  CalmSpec => []NoNodeLeft
<1>1. RegInv => NoNodeLeft
  BY DEF RegInv, Meet, NoNodeLeft
<1> QED
  BY <1>1, RegistryInvariant, PTL
=============================================================================
