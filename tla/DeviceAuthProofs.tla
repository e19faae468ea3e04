-------------------------- MODULE DeviceAuthProofs --------------------------
(***************************************************************************)
(* Proofs about DeviceAuth, for any finite sets of devices and of requests *)
(* under way, and any number of losses, sweeps and restarts.               *)
(*                                                                         *)
(* The invariant, AuthInv, is about three places: a challenge is in the    *)
(* sessions or with one request; a token that was accepted is not stored   *)
(* any more; and what a request has got so far, a device on disk or a      *)
(* token, is of a device on disk.                                          *)
(***************************************************************************)
EXTENDS DeviceAuth, FiniteSetTheorems, TLAPS

\* What a request is known by; TypeOK spells this set out.
RequestRecord ==
  [dev : Devices, kind : Kinds, at : Stages, late : BOOLEAN,
   shows : Numbers \union {None}, found : Numbers \union {None}]

Phases == {"new", "asking", "registering", "challenged", "answering", "in", "out", "gone"}

\* TypeOK but for the numbers.
Fields ==
  /\ sessions \in [Devices -> Numbers \union {None}]
  /\ tokens \in [Devices -> Numbers \union {Nil, None}]
  /\ devices \subseteq Devices
  /\ seen \in [Devices \X Caches -> Numbers \union {Nil, None}]
  /\ request \in [Conns -> {None} \union RequestRecord]
  /\ phase \in [Devices -> Phases]
  /\ challenge \in [Devices -> Numbers \union {None}]
  /\ held \in [Devices -> Numbers \union {None}]

\* A function takes no more values than it has arguments.
LEMMA ImageBound ==
  ASSUME NEW S, IsFiniteSet(S), NEW f
  PROVE  /\ IsFiniteSet({f[x] : x \in S})
         /\ Cardinality({f[x] : x \in S}) <= Cardinality(S)
<1> DEFINE T == {f[x] : x \in S}
           g == [x \in S |-> f[x]]
<1>1. g \in Surjection(S, T)
  BY DEF Surjection
<1> QED
  BY <1>1, FS_Surjection

\* A union has no more elements than its parts together.
LEMMA UnionBound ==
  ASSUME NEW S, IsFiniteSet(S), NEW T, IsFiniteSet(T),
         NEW m \in Nat, NEW n \in Nat, Cardinality(S) <= m, Cardinality(T) <= n
  PROVE  IsFiniteSet(S \union T) /\ Cardinality(S \union T) <= m + n
<1>1. IsFiniteSet(S \union T) /\ Cardinality(S \union T) = Cardinality(S) + Cardinality(T) - Cardinality(S \cap T)
  BY FS_Union
<1>2. IsFiniteSet(S \cap T)
  BY FS_Intersection
<1>3. Cardinality(S) \in Nat /\ Cardinality(T) \in Nat /\ Cardinality(S \cap T) \in Nat
  BY <1>2, FS_CardinalityType
<1> QED
  BY <1>1, <1>3

\* A number is in use when a store, a client or a request has it.
LEMMA InUseMembers ==
  ASSUME NEW n
  PROVE  n \in InUse <=> \/ \E d \in Devices : n \in {sessions[d], tokens[d], challenge[d], held[d]}
                        \/ \E c \in Conns : ~Free(c) /\ n \in {request[c].shows, request[c].found}
<1> DEFINE Of == {{sessions[d], tokens[d], challenge[d], held[d]} : d \in Devices}
           By == {{request[c].shows, request[c].found} : c \in {c \in Conns : ~Free(c)}}
<1>1. n \in UNION Of <=> \E d \in Devices : n \in {sessions[d], tokens[d], challenge[d], held[d]}
  BY Zenon
<1>2. n \in UNION By <=> \E c \in Conns : ~Free(c) /\ n \in {request[c].shows, request[c].found}
  <2>1. ASSUME n \in UNION By
        PROVE  \E c \in Conns : ~Free(c) /\ n \in {request[c].shows, request[c].found}
    <3>1. PICK s \in By : n \in s
      BY <2>1
    <3>2. PICK c \in {c \in Conns : ~Free(c)} : s = {request[c].shows, request[c].found}
      BY <3>1
    <3> QED
      BY <3>1, <3>2
  <2>2. ASSUME NEW c \in Conns, ~Free(c), n \in {request[c].shows, request[c].found}
        PROVE  n \in UNION By
    <3>1. {request[c].shows, request[c].found} \in By
      BY <2>2
    <3> QED
      BY <2>2, <3>1
  <2> QED
    BY <2>1, <2>2
<1>3. InUse = (UNION Of) \union (UNION By)
  BY Zenon DEF InUse
<1> HIDE DEF Of, By
<1>4. n \in InUse <=> n \in UNION Of \/ n \in UNION By
  BY <1>3
<1> QED
  BY <1>1, <1>2, <1>4, Zenon

\* There are more numbers than places for them: one is always left for a new
\* challenge or token, as the code's random strings never run out.
LEMMA NumbersLeft == Fields => Numbers \ InUse # {}
<1> SUFFICES ASSUME Numbers \subseteq InUse PROVE FALSE
  OBVIOUS
<1> DEFINE D == Cardinality(Devices)
           C == Cardinality(Conns)
           Busy == {c \in Conns : ~Free(c)}
           S == {sessions[d] : d \in Devices}
           T == {tokens[d] : d \in Devices}
           A == {challenge[d] : d \in Devices}
           H == {held[d] : d \in Devices}
           shown == [c \in Conns |-> request[c].shows]
           given == [c \in Conns |-> request[c].found]
           R == {shown[c] : c \in Busy}
           F == {given[c] : c \in Busy}
<1>1. D \in Nat /\ C \in Nat /\ IsFiniteSet(Devices) /\ IsFiniteSet(Conns)
  BY AuthAssumption, FS_CardinalityType
<1>2. IsFiniteSet(Busy) /\ Cardinality(Busy) <= C /\ Cardinality(Busy) \in Nat
  BY <1>1, FS_Subset, FS_CardinalityType
<1>3. /\ IsFiniteSet(S) /\ Cardinality(S) <= D
      /\ IsFiniteSet(T) /\ Cardinality(T) <= D
      /\ IsFiniteSet(A) /\ Cardinality(A) <= D
      /\ IsFiniteSet(H) /\ Cardinality(H) <= D
  BY <1>1, ImageBound
<1>4. IsFiniteSet(R) /\ Cardinality(R) <= C /\ IsFiniteSet(F) /\ Cardinality(F) <= C
  <2>1. /\ IsFiniteSet(R) /\ Cardinality(R) <= Cardinality(Busy)
        /\ IsFiniteSet(F) /\ Cardinality(F) <= Cardinality(Busy)
    BY <1>2, ImageBound
  <2>2. Cardinality(R) \in Nat /\ Cardinality(F) \in Nat
    BY <2>1, FS_CardinalityType
  <2> HIDE DEF R, F, Busy, C
  <2> QED
    BY <1>1, <1>2, <2>1, <2>2
<1>5. InUse \subseteq ((S \union T) \union (A \union H)) \union (R \union F)
  <2> SUFFICES ASSUME NEW n \in InUse
               PROVE  n \in ((S \union T) \union (A \union H)) \union (R \union F)
    OBVIOUS
  <2>1. CASE \E d \in Devices : n \in {sessions[d], tokens[d], challenge[d], held[d]}
    BY <2>1
  <2>2. CASE \E c \in Busy : n \in {request[c].shows, request[c].found}
    <3>1. PICK c \in Busy : n = request[c].shows \/ n = request[c].found
      BY <2>2
    <3>2. c \in Conns /\ (n = shown[c] \/ n = given[c])
      BY <3>1
    <3> HIDE DEF shown, given
    <3> QED
      BY <3>1, <3>2
  <2> QED
    BY <2>1, <2>2, InUseMembers
<1> HIDE DEF S, T, A, H, R, F, D, C
<1>6. IsFiniteSet(S \union T) /\ Cardinality(S \union T) <= D + D
  BY <1>1, <1>3, UnionBound
<1>7. IsFiniteSet(A \union H) /\ Cardinality(A \union H) <= D + D
  BY <1>1, <1>3, UnionBound
<1>8. IsFiniteSet(R \union F) /\ Cardinality(R \union F) <= C + C
  BY <1>1, <1>4, UnionBound
<1>9. D + D \in Nat /\ C + C \in Nat /\ (D + D) + (D + D) \in Nat
  BY <1>1
<1>10. /\ IsFiniteSet((S \union T) \union (A \union H))
       /\ Cardinality((S \union T) \union (A \union H)) <= (D + D) + (D + D)
  BY <1>6, <1>7, <1>9, UnionBound
<1> DEFINE All == ((S \union T) \union (A \union H)) \union (R \union F)
<1>11. IsFiniteSet(All) /\ Cardinality(All) <= ((D + D) + (D + D)) + (C + C)
  BY <1>8, <1>9, <1>10, UnionBound
<1>12. Numbers \subseteq All /\ Numbers = 1..(4 * D + 2 * C + 1)
  BY <1>5 DEF Numbers, D, C
<1> HIDE DEF All
<1>13. Cardinality(Numbers) = 4 * D + 2 * C + 1
  BY <1>1, <1>12, FS_Interval
<1>14. Cardinality(Numbers) <= Cardinality(All) /\ Cardinality(All) \in Nat
  BY <1>11, <1>12, FS_Subset, FS_CardinalityType
<1> QED
  BY <1>1, <1>11, <1>13, <1>14

\* A new challenge or token differs from all that anybody holds.
LEMMA FreshIsFree ==
  Fields => /\ Fresh \in Numbers /\ Fresh \notin {None, Nil}
            /\ \A d \in Devices : Fresh \notin {sessions[d], tokens[d], challenge[d], held[d]}
            /\ \A c \in Conns : ~Free(c) => Fresh \notin {request[c].shows, request[c].found}
<1> SUFFICES ASSUME Fields
             PROVE  /\ Fresh \in Numbers /\ Fresh \notin {None, Nil}
                    /\ \A d \in Devices : Fresh \notin {sessions[d], tokens[d], challenge[d], held[d]}
                    /\ \A c \in Conns : ~Free(c) => Fresh \notin {request[c].shows, request[c].found}
  OBVIOUS
<1>1. Fresh \in Numbers \ InUse
  BY NumbersLeft DEF Fresh
<1>2. Numbers \subseteq Nat
  <2>1. 4 * Cardinality(Devices) + 2 * Cardinality(Conns) + 1 \in Nat
    BY AuthAssumption, FS_CardinalityType
  <2> QED
    BY <2>1 DEF Numbers
<1>3. Fresh \notin {None, Nil}
  BY <1>1, <1>2, AuthAssumption
<1>4. \A d \in Devices : Fresh \notin {sessions[d], tokens[d], challenge[d], held[d]}
  BY <1>1, InUseMembers
<1>5. \A c \in Conns : ~Free(c) => Fresh \notin {request[c].shows, request[c].found}
  BY <1>1, InUseMembers
<1> QED
  BY <1>1, <1>3, <1>4, <1>5

----------------------------------------------------------------------------
\* No request and no token are not numbers.
LEMMA NothingIsNoNumber == None \notin Numbers /\ Nil \notin Numbers /\ None # Nil
<1>1. 4 * Cardinality(Devices) + 2 * Cardinality(Conns) + 1 \in Nat
  BY AuthAssumption, FS_CardinalityType
<1> QED
  BY <1>1, AuthAssumption DEF Numbers

\* A client's request is received with what it shows, and disturbs no other.
LEMMA AskFields ==
  ASSUME Fields, NEW c \in Conns, NEW d \in Devices, NEW kind \in Kinds,
         NEW shows \in Numbers \union {None}, Ask(c, d, kind, shows)
  PROVE  /\ request[c] = None
         /\ request' \in [Conns -> {None} \union RequestRecord]
         /\ \A e \in Conns : e # c => request'[e] = request[e]
         /\ request'[c].dev = d /\ request'[c].kind = kind /\ request'[c].at = "received"
         /\ request'[c].shows = shows /\ request'[c].found = None
<1> DEFINE new == Request(d, kind, shows)
<1>1. /\ new \in RequestRecord /\ new.dev = d /\ new.kind = kind /\ new.at = "received"
      /\ new.shows = shows /\ new.found = None
  BY DEF Request, RequestRecord, Stages
<1>2. request' = [request EXCEPT ![c] = new] /\ request[c] = None
  BY DEF Ask, Free
<1> HIDE DEF new
<1> QED
  BY <1>1, <1>2 DEF Fields

\* A request is answered with what is given, or dropped when nobody waits.
LEMMA ReplyFields ==
  ASSUME Fields, NEW c \in Conns, request[c] \in RequestRecord,
         NEW given \in Numbers \union {None}, Reply(c, given)
  PROVE  /\ request' \in [Conns -> {None} \union RequestRecord]
         /\ \A e \in Conns : e # c => request'[e] = request[e]
         /\ \/ request'[c] = None
            \/ /\ request'[c].dev = request[c].dev /\ request'[c].kind = request[c].kind
               /\ request'[c].shows = request[c].shows
               /\ request'[c].at = "answered" /\ request'[c].found = given
<1>1. CASE request[c].late
  BY <1>1 DEF Reply, Fields
<1>2. CASE ~request[c].late
  <2> DEFINE new == [request[c] EXCEPT !.at = "answered", !.found = given]
  <2>1. /\ new \in RequestRecord /\ new.dev = request[c].dev /\ new.kind = request[c].kind
        /\ new.at = "answered" /\ new.shows = request[c].shows /\ new.found = given
    BY DEF RequestRecord, Stages
  <2>2. request' = [request EXCEPT ![c] = new]
    BY <1>2 DEF Reply
  <2> HIDE DEF new
  <2> QED
    BY <2>1, <2>2 DEF Fields
<1> QED
  BY <1>1, <1>2

\* A handler that goes on keeps its request but for the stage and the session.
LEMMA GoesFields ==
  ASSUME Fields, NEW c \in Conns, request[c] \in RequestRecord, NEW at \in Stages,
         NEW found \in Numbers \union {None}, Goes(c, at, found)
  PROVE  /\ request' \in [Conns -> {None} \union RequestRecord]
         /\ \A e \in Conns : e # c => request'[e] = request[e]
         /\ request'[c].dev = request[c].dev /\ request'[c].kind = request[c].kind
         /\ request'[c].shows = request[c].shows
         /\ request'[c].at = at /\ request'[c].found = found
<1> DEFINE new == [request[c] EXCEPT !.at = at, !.found = found]
<1>1. /\ new \in RequestRecord /\ new.dev = request[c].dev /\ new.kind = request[c].kind
      /\ new.at = at /\ new.shows = request[c].shows /\ new.found = found
  BY DEF RequestRecord
<1>2. request' = [request EXCEPT ![c] = new]
  BY DEF Goes
<1> HIDE DEF new
<1> QED
  BY <1>1, <1>2 DEF Fields

\* A client that gives up changes nothing of the request but whether it waits.
LEMMA GiveUpFields ==
  ASSUME Fields, NEW c \in Conns, GiveUp(c)
  PROVE  /\ request[c] \in RequestRecord
         /\ request' \in [Conns -> {None} \union RequestRecord]
         /\ \A e \in Conns : e # c => request'[e] = request[e]
         /\ \/ request'[c] = None
            \/ /\ request'[c].dev = request[c].dev /\ request'[c].kind = request[c].kind
               /\ request'[c].shows = request[c].shows
               /\ request'[c].at = request[c].at /\ request'[c].found = request[c].found
<1>1. request[c] \in RequestRecord
  BY DEF GiveUp, Free, Fields
<1>2. CASE request[c].at = "answered"
  BY <1>1, <1>2 DEF GiveUp, Fields
<1>3. CASE request[c].at # "answered"
  <2> DEFINE new == [request[c] EXCEPT !.late = TRUE]
  <2>1. /\ new \in RequestRecord /\ new.dev = request[c].dev /\ new.kind = request[c].kind
        /\ new.at = request[c].at /\ new.shows = request[c].shows /\ new.found = request[c].found
    BY <1>1 DEF RequestRecord
  <2>2. request' = [request EXCEPT ![c] = new]
    BY <1>3 DEF GiveUp
  <2> HIDE DEF new
  <2> QED
    BY <1>1, <2>1, <2>2 DEF Fields
<1> QED
  BY <1>1, <1>2, <1>3

\* The state is well formed to begin with.
LEMMA InitFields == Init => Fields
BY DEF Init, Fields, Phases

\* A client's request keeps the state well formed.
LEMMA AskingFields ==
  ASSUME Fields, NEW c \in Conns, NEW d \in Devices, NEW kind \in Kinds,
         NEW shows \in Numbers \union {None}, Ask(c, d, kind, shows),
         phase' \in [Devices -> Phases], challenge' \in [Devices -> Numbers \union {None}]
  PROVE  Fields'
<1>1. request' \in [Conns -> {None} \union RequestRecord]
  BY AskFields
<1> QED
  BY <1>1 DEF Fields, Ask, memory

\* Every step of a client, a handler or a cleaner keeps the state well formed.
LEMMA StepFields == Fields /\ [Next]_vars => Fields'
<1> SUFFICES ASSUME Fields, [Next]_vars PROVE Fields'
  OBVIOUS
<1> USE DEF memory, client, bounds
<1>0. /\ sessions \in [Devices -> Numbers \union {None}]
      /\ tokens \in [Devices -> Numbers \union {Nil, None}]
      /\ devices \subseteq Devices
      /\ seen \in [Devices \X Caches -> Numbers \union {Nil, None}]
      /\ phase \in [Devices -> Phases]
      /\ challenge \in [Devices -> Numbers \union {None}]
      /\ held \in [Devices -> Numbers \union {None}]
      /\ \A c \in Conns : request[c] # None =>
           /\ request[c] \in RequestRecord /\ request[c].dev \in Devices
           /\ request[c].shows \in Numbers \union {None}
           /\ request[c].found \in Numbers \union {None}
  BY DEF Fields, RequestRecord
<1>00. Fresh \in Numbers
  BY FreshIsFree
<1>1. ASSUME NEW c \in Conns, NEW d \in Devices, AskRegistration(c, d) \/ AskLogin(c, d)
      PROVE  Fields'
  <2>1. phase' \in [Devices -> Phases]
    BY <1>0, <1>1 DEF AskRegistration, AskLogin, Enters, Phases
  <2> QED
    BY <1>0, <1>1, <2>1, AskingFields DEF AskRegistration, AskLogin, Kinds
<1>2. ASSUME NEW c \in Conns, NEW d \in Devices, AnswerChallenge(c, d) PROVE Fields'
  <2>1. phase' \in [Devices -> Phases] /\ challenge' \in [Devices -> Numbers \union {None}]
    BY <1>0, <1>2 DEF AnswerChallenge, Enters, Phases
  <2>2. challenge[d] \in Numbers \union {None}
    BY <1>0
  <2> QED
    BY <1>2, <2>1, <2>2, AskingFields DEF AnswerChallenge, Kinds
<1>3. ASSUME NEW c \in Conns, NEW d \in Devices, ShowToken(c, d) PROVE Fields'
  <2>1. held[d] \in Numbers \union {None}
    BY <1>0
  <2> QED
    BY <1>0, <1>3, <2>1, AskingFields DEF ShowToken, Kinds
<1>4. ASSUME NEW c \in Conns, GiveUp(c) PROVE Fields'
  <2>1. request' \in [Conns -> {None} \union RequestRecord]
    BY <1>4, GiveUpFields
  <2>2. phase' \in [Devices -> Phases]
    BY <1>0, <1>4 DEF GiveUp, Phases
  <2> QED
    BY <1>4, <2>1, <2>2 DEF GiveUp, Fields
<1>5. ASSUME NEW c \in Conns, Receive(c) PROVE Fields'
  <2>1. /\ request' = [request EXCEPT ![c] = None]
        /\ UNCHANGED <<memory, devices, seen>>
    BY <1>5 DEF Receive
  <2>2. request' \in [Conns -> {None} \union RequestRecord]
    BY <2>1 DEF Fields
  <2>3. request[c] # None /\ request[c].found \in Numbers \union {None}
    BY <1>0, <1>5 DEF Receive, Free
  <2>4. /\ phase' \in [Devices -> Phases]
        /\ challenge' \in [Devices -> Numbers \union {None}]
        /\ held' \in [Devices -> Numbers \union {None}]
    BY <1>0, <1>5, <2>3 DEF Receive, Phases
  <2> QED
    BY <1>0, <2>1, <2>2, <2>4 DEF Fields
<1>6. ASSUME NEW c \in Conns, request[c] # None, NEW given \in Numbers \union {None}, Reply(c, given)
      PROVE  request' \in [Conns -> {None} \union RequestRecord]
  BY <1>0, <1>6, ReplyFields
<1>7. ASSUME NEW c \in Conns, request[c] # None, NEW at \in Stages,
             NEW found \in Numbers \union {None}, Goes(c, at, found)
      PROVE  request' \in [Conns -> {None} \union RequestRecord]
  BY <1>0, <1>7, GoesFields
<1>8. ASSUME NEW c \in Conns, BeginRegistration(c) \/ BeginAuthenticate(c) PROVE Fields'
  <2>1. request[c] # None /\ UNCHANGED <<tokens, devices, seen, client>>
    BY <1>8 DEF BeginRegistration, BeginAuthenticate, Serves, Begin
  <2>2. request' \in [Conns -> {None} \union RequestRecord]
    BY <1>00, <1>6, <1>8, <2>1 DEF BeginRegistration, BeginAuthenticate, Begin, Refuse
  <2>3. sessions' \in [Devices -> Numbers \union {None}]
    BY <1>0, <1>00, <1>8 DEF BeginRegistration, BeginAuthenticate, Begin, StoreSessionData
  <2> QED
    BY <1>0, <2>1, <2>2, <2>3 DEF Fields
<1>9. ASSUME NEW c \in Conns, NEW kind, RetrieveSessionData(c, kind) PROVE Fields'
  <2>1. /\ request[c] # None /\ UNCHANGED <<tokens, devices, seen, client>>
        /\ sessions' = [sessions EXCEPT ![request[c].dev] = None]
    BY <1>9 DEF RetrieveSessionData, Serves
  <2>2. request' \in [Conns -> {None} \union RequestRecord]
    <3>1. sessions[request[c].dev] \in Numbers \union {None}
      BY <1>0, <2>1
    <3> QED
      BY <1>6, <1>7, <1>9, <2>1, <3>1 DEF RetrieveSessionData, Refuse, Stages
  <2> QED
    BY <1>0, <2>1, <2>2 DEF Fields
<1>10. ASSUME NEW c \in Conns, RegisterUserDevice(c) PROVE Fields'
  <2>1. request[c] # None /\ UNCHANGED <<memory, seen, client>>
    BY <1>10 DEF RegisterUserDevice, Serves
  <2>2. request' \in [Conns -> {None} \union RequestRecord]
    BY <1>0, <1>6, <1>7, <1>10, <2>1 DEF RegisterUserDevice, Refuse, Stages
  <2>3. devices' \subseteq Devices
    BY <1>0, <1>10, <2>1 DEF RegisterUserDevice
  <2> QED
    BY <1>0, <2>1, <2>2, <2>3 DEF Fields
<1>11. ASSUME NEW c \in Conns, GenerateAndStoreAuthToken(c) PROVE Fields'
  <2>1. /\ request[c] # None /\ UNCHANGED <<sessions, devices, seen, client>>
        /\ tokens' = [tokens EXCEPT ![request[c].dev] = Fresh] /\ Reply(c, Fresh)
    BY <1>11 DEF GenerateAndStoreAuthToken, Serves
  <2>2. request' \in [Conns -> {None} \union RequestRecord]
    BY <1>00, <1>6, <2>1
  <2> QED
    BY <1>0, <1>00, <2>1, <2>2 DEF Fields
<1>12. ASSUME NEW c \in Conns, RefuseAnswer(c) PROVE Fields'
  <2>1. request[c] # None /\ Reply(c, None) /\ UNCHANGED <<memory, devices, seen, client>>
    BY <1>12 DEF RefuseAnswer, Serves, Refuse
  <2>2. request' \in [Conns -> {None} \union RequestRecord]
    BY <1>6, <2>1
  <2> QED
    BY <1>0, <2>1, <2>2 DEF Fields
<1>13. ASSUME NEW c \in Conns, AuthTokenMiddleware(c) PROVE Fields'
  <2>1. request[c] # None /\ UNCHANGED <<sessions, devices, seen, client>>
    BY <1>13 DEF AuthTokenMiddleware, VerifyAndRefreshAuthToken, Serves
  <2>2. request' \in [Conns -> {None} \union RequestRecord]
    BY <1>00, <1>6, <1>13, <2>1 DEF AuthTokenMiddleware, VerifyAndRefreshAuthToken
  <2>3. tokens' \in [Devices -> Numbers \union {Nil, None}]
    BY <1>0, <1>00, <1>13 DEF AuthTokenMiddleware, VerifyAndRefreshAuthToken
  <2> QED
    BY <1>0, <2>1, <2>2, <2>3 DEF Fields
<1>14. ASSUME NEW d \in Devices, NEW cache \in Caches, IterBuffered(d, cache) PROVE Fields'
  <2>1. Stored(d, cache) \in Numbers \union {Nil, None}
    BY <1>0 DEF Stored
  <2>2. seen' = [seen EXCEPT ![<<d, cache>>] = Stored(d, cache)]
        /\ UNCHANGED <<memory, devices, request, client>>
    BY <1>14 DEF IterBuffered
  <2>3. seen' \in [Devices \X Caches -> Numbers \union {Nil, None}]
    BY <1>0, <2>1, <2>2
  <2> QED
    BY <2>2, <2>3 DEF Fields
<1>15. ASSUME NEW d \in Devices, NEW cache \in Caches, Clean(d, cache) PROVE Fields'
  BY <1>15 DEF Clean, Fields
<1>16. ASSUME Restart PROVE Fields'
  <2>1. phase' \in [Devices -> Phases]
    BY <1>0, <1>16 DEF Restart, Phases
  <2>2. UNCHANGED <<devices, challenge, held>>
    BY <1>16 DEF Restart
  <2>3. /\ sessions' = [d \in Devices |-> None]
        /\ tokens' = [d \in Devices |-> None]
        /\ seen' = [k \in Devices \X Caches |-> None]
        /\ request' = [c \in Conns |-> None]
    BY <1>16 DEF Restart
  <2> QED
    BY <1>0, <2>1, <2>2, <2>3 DEF Fields
<1>17. CASE UNCHANGED vars
  BY <1>17 DEF vars, Fields
<1> QED
  BY <1>1, <1>2, <1>3, <1>4, <1>5, <1>8, <1>9, <1>10, <1>11, <1>12, <1>13, <1>14, <1>15, <1>16, <1>17
     DEF Next, Serve, Login, Panic, Crash

\* The state stays well formed, and a number for the next challenge or token is
\* always left (auth/auth_token.go, store/session.go).
THEOREM TypeCorrect == Spec => []TypeOK
<1>1. Fields => TypeOK
  BY NumbersLeft DEF Fields, TypeOK, RequestRecord, Phases
<1> QED
  BY <1>1, InitFields, StepFields, PTL DEF Spec

----------------------------------------------------------------------------
(* The inductive invariant *)

\* The kinds of request whose answer brings a token.
Grants == {"FinishRegistration", "FinishAuthenticate", "ShowToken"}

\* c has taken a session out, and goes on with it.
Taken(c) == ~Free(c) /\ request[c].at \in {"taken", "put"}
\* c has shown a token that was good.
Accepted(c) ==
  /\ ~Free(c) /\ request[c].kind = "ShowToken"
  /\ request[c].at = "answered" /\ request[c].found # None

\* What the stages of a request say of the stores.
Sound(c) ==
  ~Free(c) =>
    /\ Taken(c) =>
         /\ request[c].found # None
         /\ \A d \in Devices : sessions[d] # request[c].found
    /\ request[c].kind = "ShowToken" => request[c].shows # None
    /\ Accepted(c) => \A d \in Devices : tokens[d] # request[c].shows
    /\ request[c].at = "put" => request[c].dev \in devices
    /\ request[c].at = "answered" /\ request[c].kind \in Grants /\ request[c].found # None =>
         request[c].dev \in devices

\* Challenges, tokens and what requests have taken or spent are all different.
Apart ==
  /\ \A d, e \in Devices : sessions[d] = sessions[e] /\ sessions[d] # None => d = e
  /\ \A d, e \in Devices : tokens[d] = tokens[e] /\ tokens[d] \notin {Nil, None} => d = e
  /\ \A c, e \in Conns : Taken(c) /\ Taken(e) /\ request[c].found = request[e].found => c = e
  /\ \A c, e \in Conns : Accepted(c) /\ Accepted(e) /\ request[c].shows = request[e].shows => c = e

AuthInv ==
  /\ \A c \in Conns : Sound(c)
  /\ Apart
  /\ TokensAreRegistered
  /\ \A d \in Devices : phase[d] = "in" => held[d] # None

\* Nothing is stored at first.
LEMMA InitInv == Init => AuthInv
BY DEF Init, AuthInv, Sound, Apart, TokensAreRegistered, Taken, Accepted, Free

\* What a step has to show for the invariant: only the requests in C change, of
\* which there is one at most; what is stored newly is fresh, for one device;
\* and the changed request is sound, and apart from the others.
LEMMA ChangeInv ==
  ASSUME Fields, AuthInv, NEW C \in SUBSET Conns, \A c, e \in C : c = e,
         \A e \in Conns : e \notin C => request'[e] = request[e],
         \A d \in Devices : sessions'[d] \in {sessions[d], None, Fresh},
         \A d \in Devices : tokens'[d] \in {tokens[d], None, Nil, Fresh},
         \A d, e \in Devices : sessions'[d] = Fresh /\ sessions'[e] = Fresh => d = e,
         \A d, e \in Devices : tokens'[d] = Fresh /\ tokens'[e] = Fresh => d = e,
         devices \subseteq devices', TokensAreRegistered',
         \A d \in Devices : phase'[d] = "in" => held'[d] # None,
         \A c \in C :
           /\ Sound(c)'
           /\ Taken(c)' => \A e \in Conns : e # c /\ Taken(e) => request[e].found # request'[c].found
           /\ Accepted(c)' => \A e \in Conns : e # c /\ Accepted(e) => request[e].shows # request'[c].shows
  PROVE  AuthInv'
<1>1. /\ Fresh \in Numbers /\ Fresh \notin {None, Nil}
      /\ \A d \in Devices : Fresh \notin {sessions[d], tokens[d], challenge[d], held[d]}
      /\ \A c \in Conns : ~Free(c) => Fresh \notin {request[c].shows, request[c].found}
  BY FreshIsFree
<1>2. \A c \in Conns : ~Free(c) => request[c].shows \in Numbers \union {None}
  BY DEF Fields, RequestRecord, Free
<1>3. ASSUME NEW e \in Conns, e \notin C
      PROVE  /\ Sound(e)' /\ (Free(e)' <=> Free(e))
             /\ (Taken(e)' <=> Taken(e)) /\ (Accepted(e)' <=> Accepted(e))
  <2>1. request'[e] = request[e]
    BY <1>3
  <2>2. Sound(e)
    BY DEF AuthInv
  <2>3. (Free(e)' <=> Free(e)) /\ (Taken(e)' <=> Taken(e)) /\ (Accepted(e)' <=> Accepted(e))
    BY <2>1 DEF Free, Taken, Accepted
  <2>4. Taken(e) => \A d \in Devices : sessions'[d] # request[e].found
    BY <1>1, <2>2 DEF Sound, Taken
  <2>5. Accepted(e) => \A d \in Devices : tokens'[d] # request[e].shows
    BY <1>1, <1>2, <2>2, NothingIsNoNumber DEF Sound, Accepted
  <2> QED
    BY <2>1, <2>2, <2>3, <2>4, <2>5 DEF Sound
<1>4. \A c \in Conns : Sound(c)'
  BY <1>3
<1>5. Apart'
  <2>1. \A d, e \in Devices : sessions'[d] = sessions'[e] /\ sessions'[d] # None => d = e
    BY <1>1 DEF AuthInv, Apart
  <2>2. \A d, e \in Devices : tokens'[d] = tokens'[e] /\ tokens'[d] \notin {Nil, None} => d = e
    BY <1>1 DEF AuthInv, Apart
  <2>3. ASSUME NEW c \in Conns, NEW e \in Conns, Taken(c)', Taken(e)',
               request'[c].found = request'[e].found
        PROVE  c = e
    BY <1>3, <2>3 DEF AuthInv, Apart
  <2>4. ASSUME NEW c \in Conns, NEW e \in Conns, Accepted(c)', Accepted(e)',
               request'[c].shows = request'[e].shows
        PROVE  c = e
    BY <1>3, <2>4 DEF AuthInv, Apart
  <2> QED
    BY <2>1, <2>2, <2>3, <2>4 DEF Apart
<1> QED
  BY <1>4, <1>5 DEF AuthInv

\* Every step keeps the invariant: of a client, of a handler between two
\* accesses to a store, of a cleaner, of a panic or a restart.
LEMMA StepInv == Fields /\ AuthInv /\ [Next]_vars => AuthInv'
<1> SUFFICES ASSUME Fields, AuthInv, [Next]_vars PROVE AuthInv'
  OBVIOUS
<1> USE DEF memory, client, bounds
<1>0. /\ sessions \in [Devices -> Numbers \union {None}]
      /\ tokens \in [Devices -> Numbers \union {Nil, None}]
      /\ phase \in [Devices -> Phases]
      /\ challenge \in [Devices -> Numbers \union {None}]
      /\ held \in [Devices -> Numbers \union {None}]
      /\ \A c \in Conns : request[c] # None =>
           /\ request[c] \in RequestRecord /\ request[c].dev \in Devices
           /\ request[c].shows \in Numbers \union {None}
           /\ request[c].found \in Numbers \union {None}
  BY DEF Fields, RequestRecord
<1>00. /\ Fresh \in Numbers /\ Fresh \notin {None, Nil}
       /\ \A d \in Devices : Fresh \notin {sessions[d], tokens[d], challenge[d], held[d]}
       /\ \A c \in Conns : ~Free(c) => Fresh \notin {request[c].shows, request[c].found}
  BY FreshIsFree
<1>000. None \notin Numbers /\ Nil \notin Numbers /\ None # Nil
  BY NothingIsNoNumber
\* No token is stored or given: only c's request changes, and is not accepted.
<1>1. ASSUME NEW c \in Conns, UNCHANGED <<tokens, devices, held>>,
             \A e \in Conns : e # c => request'[e] = request[e],
             \A d \in Devices : sessions'[d] \in {sessions[d], None, Fresh},
             \A d, e \in Devices : sessions'[d] = Fresh /\ sessions'[e] = Fresh => d = e,
             \A d \in Devices : phase'[d] = "in" => phase[d] = "in",
             Sound(c)',
             Taken(c)' => \A e \in Conns : e # c /\ Taken(e) => request[e].found # request'[c].found,
             ~Accepted(c)'
      PROVE  AuthInv'
  <2>1. TokensAreRegistered'
    BY <1>1 DEF AuthInv, TokensAreRegistered
  <2>2. \A d \in Devices : phase'[d] = "in" => held'[d] # None
    BY <1>1 DEF AuthInv
  <2>3. \A d, e \in Devices : tokens'[d] = Fresh /\ tokens'[e] = Fresh => d = e
    BY <1>00, <1>1
  <2> DEFINE C == {c}
  <2>4. C \in SUBSET Conns /\ (\A e, f \in C : e = f) /\ c \in C /\ \A e \in C : e = c
    OBVIOUS
  <2> HIDE DEF C
  <2> QED
    BY <1>1, <2>1, <2>2, <2>3, <2>4, ChangeInv
<1>2. ASSUME NEW c \in Conns, NEW d \in Devices, NEW kind \in Kinds,
             NEW shows \in Numbers \union {None}, Ask(c, d, kind, shows),
             UNCHANGED sessions, UNCHANGED tokens,
             kind = "ShowToken" => shows # None,
             \A e \in Devices : phase'[e] = "in" => phase[e] = "in"
      PROVE  AuthInv'
  <2>1. /\ request[c] = None /\ \A e \in Conns : e # c => request'[e] = request[e]
        /\ request'[c].kind = kind /\ request'[c].at = "received" /\ request'[c].shows = shows
    BY <1>2, AskFields
  <2>2. UNCHANGED <<devices, held>>
    BY <1>2 DEF Ask
  <2>3. Sound(c)' /\ ~Taken(c)' /\ ~Accepted(c)'
    BY <1>2, <2>1 DEF Sound, Taken, Accepted
  <2> QED
    BY <1>1, <1>2, <1>00, <2>1, <2>2, <2>3
<1>3. ASSUME NEW c \in Conns, NEW d \in Devices,
             AskRegistration(c, d) \/ AskLogin(c, d) \/ AnswerChallenge(c, d) \/ ShowToken(c, d)
      PROVE  AuthInv'
  <2>1. UNCHANGED sessions /\ UNCHANGED tokens
    BY <1>3 DEF AskRegistration, AskLogin, AnswerChallenge, ShowToken, Ask
  <2>2. \A e \in Devices : phase'[e] = "in" => phase[e] = "in"
    BY <1>0, <1>3 DEF AskRegistration, AskLogin, AnswerChallenge, ShowToken, Enters
  <2>3. challenge[d] \in Numbers \union {None} /\ held[d] \in Numbers \union {None}
    BY <1>0
  <2>4. ShowToken(c, d) => held[d] # None
    BY DEF ShowToken, AuthInv
  <2> QED
    BY <1>2, <1>3, <2>1, <2>2, <2>3, <2>4
       DEF AskRegistration, AskLogin, AnswerChallenge, ShowToken, Kinds
<1>4. ASSUME NEW c \in Conns, GiveUp(c) PROVE AuthInv'
  <2>1. /\ request[c] \in RequestRecord
        /\ \A e \in Conns : e # c => request'[e] = request[e]
        /\ \/ request'[c] = None
           \/ /\ request'[c].dev = request[c].dev /\ request'[c].kind = request[c].kind
              /\ request'[c].shows = request[c].shows
              /\ request'[c].at = request[c].at /\ request'[c].found = request[c].found
    BY <1>4, GiveUpFields
  <2>2. ~Free(c) /\ UNCHANGED <<sessions, tokens, devices, held>>
    BY <1>4 DEF GiveUp
  <2>3. Sound(c)' /\ (Taken(c)' => Taken(c) /\ request'[c].found = request[c].found)
    BY <2>1, <2>2 DEF AuthInv, Sound, Taken, Accepted, Free
  <2>4. ~Accepted(c)'
    BY <1>4, <2>1 DEF GiveUp, Accepted, Free, Fields
  <2>5. \A d \in Devices : phase'[d] = "in" => phase[d] = "in"
    BY <1>0, <1>4 DEF GiveUp
  <2>6. Taken(c)' => \A e \in Conns : e # c /\ Taken(e) => request[e].found # request'[c].found
    BY <2>3 DEF AuthInv, Apart
  <2> QED
    BY <1>00, <1>1, <2>1, <2>2, <2>3, <2>4, <2>5, <2>6
<1>5. ASSUME NEW c \in Conns, Receive(c) PROVE AuthInv'
  <2> DEFINE d == request[c].dev
             given == request[c].found
  <2>1. /\ ~Free(c) /\ request[c].at = "answered"
        /\ request' = [request EXCEPT ![c] = None] /\ UNCHANGED <<sessions, tokens, devices>>
    BY <1>5 DEF Receive
  <2>2. request'[c] = None /\ \A e \in Conns : e # c => request'[e] = request[e]
    BY <2>1 DEF Fields
  <2>3. d \in Devices /\ Sound(c)
    BY <1>0, <2>1 DEF Free, AuthInv
  <2>4. \/ UNCHANGED held /\ \A e \in Devices : phase'[e] = "in" => phase[e] = "in"
        \/ /\ held' = [held EXCEPT ![d] = given] /\ request[c].kind \in Grants
           /\ phase' = [phase EXCEPT ![d] = IF given = None THEN "out" ELSE "in"]
    BY <1>0, <1>5, <2>3 DEF Receive, Grants
  <2>5. TokensAreRegistered'
    BY <1>0, <2>1, <2>3, <2>4 DEF AuthInv, TokensAreRegistered, Sound
  <2>6. \A e \in Devices : phase'[e] = "in" => held'[e] # None
    BY <1>0, <2>3, <2>4 DEF AuthInv
  <2>7. Sound(c)' /\ ~Taken(c)' /\ ~Accepted(c)'
    BY <2>2 DEF Sound, Taken, Accepted, Free
  <2> DEFINE C == {c}
  <2>8. C \in SUBSET Conns /\ (\A e, f \in C : e = f) /\ c \in C /\ \A e \in C : e = c
    OBVIOUS
  <2> HIDE DEF C
  <2> QED
    BY <1>00, <2>1, <2>2, <2>5, <2>6, <2>7, <2>8, ChangeInv
<1>6. ASSUME NEW c \in Conns, request[c] # None, NEW given \in Numbers \union {None}, Reply(c, given)
      PROVE  /\ \A e \in Conns : e # c => request'[e] = request[e]
             /\ ~Taken(c)'
             /\ ~Free(c)' => /\ request'[c].dev = request[c].dev
                             /\ request'[c].kind = request[c].kind
                             /\ request'[c].shows = request[c].shows
                             /\ request'[c].at = "answered" /\ request'[c].found = given
  BY <1>0, <1>6, ReplyFields DEF Free, Taken
\* A request that ends without a token.
<1>7. ASSUME NEW c \in Conns, request[c] # None, NEW given \in Numbers \union {None}, Reply(c, given),
             UNCHANGED <<tokens, devices, held, phase>>,
             \A d \in Devices : sessions'[d] \in {sessions[d], None, Fresh},
             \A d, e \in Devices : sessions'[d] = Fresh /\ sessions'[e] = Fresh => d = e,
             given = None \/ request[c].kind \notin Grants
      PROVE  AuthInv'
  <2>1. /\ \A e \in Conns : e # c => request'[e] = request[e]
        /\ ~Taken(c)'
        /\ ~Free(c)' => /\ request'[c].kind = request[c].kind /\ request'[c].at = "answered"
                        /\ request'[c].shows = request[c].shows /\ request'[c].found = given
    BY <1>6, <1>7
  <2>2. Sound(c)
    BY DEF AuthInv
  <2>3. Sound(c)' /\ ~Accepted(c)'
    BY <1>7, <2>1, <2>2 DEF Sound, Accepted, Free, Grants
  <2> QED
    BY <1>1, <1>7, <2>1, <2>3
<1>8. ASSUME NEW c \in Conns, BeginRegistration(c) \/ BeginAuthenticate(c) PROVE AuthInv'
  <2>1. /\ request[c] # None /\ UNCHANGED <<tokens, devices, held, phase>>
        /\ request[c].kind \notin Grants
    BY <1>8 DEF BeginRegistration, BeginAuthenticate, Serves, Begin, Grants
  <2>2. \/ Reply(c, None) /\ UNCHANGED sessions
        \/ Reply(c, Fresh) /\ StoreSessionData(request[c].dev, Fresh)
    BY <1>8 DEF BeginRegistration, BeginAuthenticate, Begin, Refuse
  <2>3. /\ \A d \in Devices : sessions'[d] \in {sessions[d], None, Fresh}
        /\ \A d, e \in Devices : sessions'[d] = Fresh /\ sessions'[e] = Fresh => d = e
    BY <1>0, <1>00, <2>1, <2>2 DEF StoreSessionData
  <2> QED
    BY <1>00, <1>7, <2>1, <2>2, <2>3
<1>9. ASSUME NEW c \in Conns, NEW kind \in {"FinishRegistration", "FinishAuthenticate"},
             RetrieveSessionData(c, kind)
      PROVE  AuthInv'
  <2> DEFINE d == request[c].dev
  <2>1. /\ request[c] # None /\ UNCHANGED <<tokens, devices, held, phase>>
        /\ sessions' = [sessions EXCEPT ![d] = None] /\ request[c].kind = kind
        /\ request[c].at = "received" /\ d \in Devices /\ request[c] \in RequestRecord
        /\ sessions[d] \in Numbers \union {None}
    BY <1>0, <1>9 DEF RetrieveSessionData, Serves
  <2>2. /\ \A e \in Devices : sessions'[e] \in {sessions[e], None, Fresh}
        /\ \A e, f \in Devices : sessions'[e] = Fresh /\ sessions'[f] = Fresh => e = f
    BY <1>0, <1>00, <2>1
  <2>3. CASE sessions[d] = None
    BY <1>7, <1>9, <2>1, <2>2, <2>3 DEF RetrieveSessionData, Refuse
  <2>4. CASE sessions[d] # None
    <3>1. Goes(c, "taken", sessions[d])
      BY <1>9, <2>4 DEF RetrieveSessionData
    <3>2. /\ \A e \in Conns : e # c => request'[e] = request[e]
          /\ request'[c].kind = kind /\ request'[c].at = "taken" /\ request'[c].found = sessions[d]
      BY <2>1, <3>1, GoesFields DEF Stages
    <3>3. \A e \in Devices : sessions'[e] # sessions[d]
      BY <1>0, <2>1, <2>4 DEF AuthInv, Apart
    <3>4. Sound(c)' /\ ~Accepted(c)'
      BY <2>4, <3>2, <3>3 DEF Sound, Accepted, Taken
    <3>5. \A e \in Conns : e # c /\ Taken(e) => request[e].found # request'[c].found
      BY <2>1, <3>2 DEF AuthInv, Sound, Taken
    <3> QED
      BY <1>1, <2>1, <2>2, <3>2, <3>4, <3>5
  <2> QED
    BY <2>3, <2>4
<1>10. ASSUME NEW c \in Conns, RegisterUserDevice(c) PROVE AuthInv'
  <2>1. /\ request[c] # None /\ UNCHANGED <<sessions, tokens, held, phase>>
        /\ request[c].kind = "FinishRegistration" /\ request[c].at = "taken"
        /\ request[c] \in RequestRecord /\ request[c].found \in Numbers \union {None}
    BY <1>0, <1>10 DEF RegisterUserDevice, Serves
  <2>2. CASE Refuse(c) /\ UNCHANGED devices
    BY <1>00, <1>7, <2>1, <2>2 DEF Refuse
  <2>3. CASE Goes(c, "put", request[c].found) /\ devices' = devices \union {request[c].dev}
    <3>1. /\ \A e \in Conns : e # c => request'[e] = request[e]
          /\ request'[c].dev = request[c].dev /\ request'[c].kind = "FinishRegistration"
          /\ request'[c].at = "put" /\ request'[c].found = request[c].found
      BY <2>1, <2>3, GoesFields DEF Stages
    <3>2. Taken(c) /\ Sound(c)
      BY <2>1 DEF AuthInv, Taken, Free
    <3>3. Sound(c)' /\ ~Accepted(c)'
      BY <2>1, <2>3, <3>1, <3>2 DEF Sound, Accepted, Taken, Free
    <3>4. \A e \in Conns : e # c /\ Taken(e) => request[e].found # request'[c].found
      BY <3>1, <3>2 DEF AuthInv, Apart
    <3>5. TokensAreRegistered'
      BY <2>1, <2>3 DEF AuthInv, TokensAreRegistered
    <3>6. \A d \in Devices : phase'[d] = "in" => held'[d] # None
      BY <2>1 DEF AuthInv
    <3> DEFINE C == {c}
    <3>7. C \in SUBSET Conns /\ (\A e, f \in C : e = f) /\ c \in C /\ \A e \in C : e = c
      OBVIOUS
    <3> HIDE DEF C
    <3> QED
      BY <1>00, <2>1, <2>3, <3>1, <3>3, <3>4, <3>5, <3>6, <3>7, ChangeInv
  <2> QED
    BY <1>10, <2>2, <2>3 DEF RegisterUserDevice
\* A request that is answered with a new token.
<1>11. ASSUME NEW c \in Conns, request[c] # None, Reply(c, Fresh),
              tokens' = [tokens EXCEPT ![request[c].dev] = Fresh],
              UNCHANGED <<sessions, devices, held, phase>>,
              request[c].dev \in devices,
              request[c].kind = "ShowToken" =>
                request[c].shows # None /\ tokens[request[c].dev] = request[c].shows
       PROVE  AuthInv'
  <2> DEFINE d == request[c].dev
  <2>1. /\ \A e \in Conns : e # c => request'[e] = request[e]
        /\ ~Taken(c)'
        /\ ~Free(c)' => /\ request'[c].dev = request[c].dev
                        /\ request'[c].kind = request[c].kind
                        /\ request'[c].shows = request[c].shows
                        /\ request'[c].at = "answered" /\ request'[c].found = Fresh
    BY <1>00, <1>6, <1>11
  <2>2. d \in Devices /\ request[c].shows \in Numbers \union {None} /\ ~Free(c)
    BY <1>0, <1>11 DEF Free
  <2>3. /\ \A e \in Devices : tokens'[e] \in {tokens[e], None, Nil, Fresh}
        /\ \A e, f \in Devices : tokens'[e] = Fresh /\ tokens'[f] = Fresh => e = f
    BY <1>0, <1>00, <1>11, <2>2
  <2>4. TokensAreRegistered'
    BY <1>0, <1>11, <2>2 DEF AuthInv, TokensAreRegistered
  <2>5. request[c].kind = "ShowToken" => \A e \in Devices : tokens'[e] # request[c].shows
    BY <1>0, <1>00, <1>000, <1>11, <2>2 DEF AuthInv, Apart
  <2>6. Sound(c)'
    BY <1>11, <2>1, <2>5 DEF Sound, Accepted
  <2>7. Accepted(c)' => \A e \in Conns : e # c /\ Accepted(e) => request[e].shows # request'[c].shows
    BY <1>11, <2>1, <2>2 DEF AuthInv, Sound, Accepted
  <2>8. \A e \in Devices : phase'[e] = "in" => held'[e] # None
    BY <1>11 DEF AuthInv
  <2> DEFINE C == {c}
  <2>9. C \in SUBSET Conns /\ (\A e, f \in C : e = f) /\ c \in C /\ \A e \in C : e = c
    OBVIOUS
  <2> HIDE DEF C
  <2> QED
    BY <1>00, <1>11, <2>1, <2>3, <2>4, <2>6, <2>7, <2>8, <2>9, ChangeInv
<1>12. ASSUME NEW c \in Conns, GenerateAndStoreAuthToken(c) PROVE AuthInv'
  <2>1. /\ request[c] # None /\ Reply(c, Fresh)
        /\ tokens' = [tokens EXCEPT ![request[c].dev] = Fresh]
        /\ UNCHANGED <<sessions, devices, held, phase>> /\ request[c].kind # "ShowToken"
    BY <1>12 DEF GenerateAndStoreAuthToken, Serves
  <2>2. request[c].dev \in devices
    BY <1>12 DEF GenerateAndStoreAuthToken, Serves, getUserDevice, AuthInv, Sound, Free
  <2> QED
    BY <1>11, <2>1, <2>2
<1>13. ASSUME NEW c \in Conns, RefuseAnswer(c) PROVE AuthInv'
  <2>1. request[c] # None /\ Reply(c, None) /\ UNCHANGED <<memory, devices, held, phase>>
    BY <1>13 DEF RefuseAnswer, Serves, Refuse
  <2> QED
    BY <1>00, <1>7, <2>1
<1>14. ASSUME NEW c \in Conns, AuthTokenMiddleware(c) PROVE AuthInv'
  <2> DEFINE d == request[c].dev
  <2>1. /\ request[c] # None /\ ~Free(c) /\ request[c].kind = "ShowToken" /\ tokens[d] # Nil
        /\ UNCHANGED <<sessions, devices, held, phase>> /\ d \in Devices
    BY <1>0, <1>14 DEF AuthTokenMiddleware, VerifyAndRefreshAuthToken, Serves, Free
  <2>2. request[c].shows # None
    BY <2>1 DEF AuthInv, Sound
  <2>3. CASE tokens[d] = request[c].shows
    <3>1. Reply(c, Fresh) /\ tokens' = [tokens EXCEPT ![d] = Fresh]
      BY <1>14, <2>3 DEF AuthTokenMiddleware, VerifyAndRefreshAuthToken
    <3>2. d \in devices
      BY <2>1, <2>2, <2>3 DEF AuthInv, TokensAreRegistered
    <3> QED
      BY <1>11, <2>1, <2>2, <2>3, <3>1, <3>2
  <2>4. CASE tokens[d] # request[c].shows
    <3>1. Reply(c, None) /\ tokens' = [tokens EXCEPT ![d] = Nil]
      BY <1>14, <2>4 DEF AuthTokenMiddleware, VerifyAndRefreshAuthToken
    <3>2. /\ \A e \in Conns : e # c => request'[e] = request[e]
          /\ ~Taken(c)' /\ (~Free(c)' => request'[c].kind = request[c].kind
                              /\ request'[c].shows = request[c].shows
                              /\ request'[c].at = "answered" /\ request'[c].found = None)
      BY <1>6, <2>1, <3>1
    <3>3. TokensAreRegistered'
      BY <1>0, <2>1, <3>1 DEF AuthInv, TokensAreRegistered
    <3>4. Sound(c)' /\ ~Accepted(c)'
      BY <2>2, <3>2 DEF Sound, Accepted
    <3>5. /\ \A e \in Devices : tokens'[e] \in {tokens[e], None, Nil, Fresh}
          /\ \A e, f \in Devices : tokens'[e] = Fresh /\ tokens'[f] = Fresh => e = f
      BY <1>0, <1>00, <2>1, <3>1
    <3>6. \A e \in Devices : phase'[e] = "in" => held'[e] # None
      BY <2>1 DEF AuthInv
    <3> DEFINE C == {c}
    <3>7. C \in SUBSET Conns /\ (\A e, f \in C : e = f) /\ c \in C /\ \A e \in C : e = c
      OBVIOUS
    <3> HIDE DEF C
    <3> QED
      BY <1>00, <2>1, <3>2, <3>3, <3>4, <3>5, <3>6, <3>7, ChangeInv
  <2> QED
    BY <2>3, <2>4
<1>15. ASSUME NEW d \in Devices, NEW cache \in Caches, IterBuffered(d, cache) \/ Clean(d, cache)
       PROVE  AuthInv'
  <2>1. UNCHANGED <<devices, request, phase, held>>
    BY <1>15 DEF IterBuffered, Clean
  <2>2. /\ \A e \in Devices : sessions'[e] \in {sessions[e], None}
        /\ \A e \in Devices : tokens'[e] \in {tokens[e], None}
    BY <1>0, <1>15 DEF IterBuffered, Clean
  <2>3. TokensAreRegistered'
    BY <2>1, <2>2 DEF AuthInv, TokensAreRegistered
  <2>4. \A e \in Devices : phase'[e] = "in" => held'[e] # None
    BY <2>1 DEF AuthInv
  <2> DEFINE C == {}
  <2>5. C \in SUBSET Conns /\ \A e : e \notin C
    OBVIOUS
  <2> HIDE DEF C
  <2> QED
    BY <1>00, <2>1, <2>2, <2>3, <2>4, <2>5, ChangeInv
<1>16. ASSUME Restart PROVE AuthInv'
  <2>1. UNCHANGED <<devices, held>> /\ request' = [c \in Conns |-> None]
        /\ sessions' = [d \in Devices |-> None] /\ tokens' = [d \in Devices |-> None]
    BY <1>16 DEF Restart
  <2>2. \A d \in Devices : phase'[d] = "in" => phase[d] = "in"
    BY <1>16 DEF Restart
  <2>3. \A c \in Conns : Free(c)'
    BY <2>1 DEF Free
  <2>4. (\A c \in Conns : Sound(c)') /\ Apart'
    BY <2>1, <2>3 DEF Sound, Apart, Taken, Accepted
  <2>5. TokensAreRegistered'
    BY <2>1 DEF AuthInv, TokensAreRegistered
  <2> QED
    BY <2>1, <2>2, <2>4, <2>5 DEF AuthInv
<1>17. CASE UNCHANGED vars
  BY <1>17 DEF vars, AuthInv, Sound, Apart, TokensAreRegistered, Taken, Accepted, Free
<1> QED
  BY <1>3, <1>4, <1>5, <1>8, <1>9, <1>10, <1>12, <1>13, <1>14, <1>15, <1>16, <1>17
     DEF Next, Serve, Login, Panic, Crash

\* The invariant always holds.
THEOREM AuthInvariant == Spec => [](Fields /\ AuthInv)
BY InitFields, StepFields, InitInv, StepInv, PTL DEF Spec

\* A set whose elements are all the same has one at most.
LEMMA AtMostOne ==
  ASSUME NEW S, \A x, y \in S : x = y
  PROVE  Cardinality(S) \in {0, 1} /\ (Cardinality(S) = 0 <=> S = {})
<1>1. CASE S = {}
  BY <1>1, FS_EmptySet
<1>2. CASE S # {}
  <2>1. PICK x \in S : S = {x}
    BY <1>2
  <2>2. Cardinality({x}) = 1
    BY FS_Singleton
  <2>3. Cardinality(S) = 1
    BY <2>1, <2>2
  <2> QED
    BY <1>2, <2>3
<1> QED
  BY <1>1, <1>2

\* A challenge is with the sessions or with one request: RetrieveSessionData
\* gives it out once, whatever requests overlap, are given up or swept.
THEOREM OneAnswer == Spec => []ChallengeAnsweredOnce
<1>1. Fields /\ AuthInv => ChallengeAnsweredOnce
  <2> SUFFICES ASSUME Fields, AuthInv, NEW n \in Numbers
               PROVE  Cardinality({d \in Devices : sessions[d] = n}) +
                      Cardinality({c \in Conns : ~Free(c) /\ request[c].at \in {"taken", "put"}
                                                /\ request[c].found = n}) <= 1
    BY DEF ChallengeAnsweredOnce
  <2> DEFINE S == {d \in Devices : sessions[d] = n}
             R == {c \in Conns : ~Free(c) /\ request[c].at \in {"taken", "put"}
                                /\ request[c].found = n}
  <2>1. \A d, e \in S : d = e
    BY NothingIsNoNumber DEF AuthInv, Apart
  <2>2. \A c, e \in R : c = e
    BY DEF AuthInv, Apart, Taken
  <2>3. S = {} \/ R = {}
    BY DEF AuthInv, Sound, Taken
  <2> HIDE DEF S, R
  <2>4. Cardinality(S) \in {0, 1} /\ (Cardinality(S) = 0 <=> S = {})
    BY <2>1, AtMostOne
  <2>5. Cardinality(R) \in {0, 1} /\ (Cardinality(R) = 0 <=> R = {})
    BY <2>2, AtMostOne
  <2>6. Cardinality(S) + Cardinality(R) <= 1
    BY <2>3, <2>4, <2>5
  <2> QED
    BY <2>6 DEF S, R
<1> QED
  BY <1>1, AuthInvariant, PTL

\* Of two requests that show one token VerifyAndRefreshAuthToken accepts one at
\* most.
THEOREM OneAcceptance == Spec => []TokenAcceptedOnce
<1>1. AuthInv => TokenAcceptedOnce
  <2> SUFFICES ASSUME AuthInv, NEW c \in Conns, NEW e \in Conns, c # e, ~Free(c), ~Free(e),
                      request[c].kind = "ShowToken", request[e].kind = "ShowToken",
                      request[c].at = "answered", request[e].at = "answered",
                      request[c].shows = request[e].shows
               PROVE  None \in {request[c].found, request[e].found}
    BY DEF TokenAcceptedOnce
  <2> QED
    BY DEF AuthInv, Apart, Accepted
<1> QED
  BY <1>1, AuthInvariant, PTL

\* Every token that a client holds or the server accepts is of a device that
\* RegisterUserDevice has put on disk.
THEOREM TokensOfDevices == Spec => []TokensAreRegistered
<1>1. AuthInv => TokensAreRegistered
  BY DEF AuthInv
<1> QED
  BY <1>1, AuthInvariant, PTL
=============================================================================
