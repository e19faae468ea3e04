----------------------------- MODULE DeviceAuth -----------------------------
(***************************************************************************)
(* How a device registers, logs in and shows its token: the sessions and   *)
(* the tokens the server keeps in memory, swept by cleaners, and the       *)
(* devices it keeps on disk (auth/, store/session.go, store/ttl_cache.go,  *)
(* store/user_device.go).                                                  *)
(*                                                                         *)
(* A challenge and a token are random strings; here each is a number that  *)
(* nobody holds any longer when it is used again.  Time is left out: any   *)
(* entry a cleaner has seen may be past its expiry.  The clients are those *)
(* the API is made for; one may give up waiting for an answer, and ask on  *)
(* several connections at once.                                            *)
(***************************************************************************)
EXTENDS Naturals, FiniteSets

CONSTANTS
  Devices,
  Conns,        \* the requests that can be under way at a time
  MaxLosses,    \* bound on the answers given up
  MaxCrashes,   \* bound on the restarts that are not a panic
  MaxSweeps,    \* bound on what the cleaners look at
  None,         \* no request, challenge, token or session
  Nil           \* the pointer a failed Upsert stores

ASSUME AuthAssumption ==
  /\ IsFiniteSet(Devices) /\ IsFiniteSet(Conns)
  /\ {MaxLosses, MaxCrashes, MaxSweeps} \subseteq Nat
  /\ None \notin Nat /\ Nil \notin Nat \union {None}

VARIABLES
  sessions,   \* sessionStore: the challenge of a device, or None
  tokens,     \* authTokenStore: the token of a device, Nil, or None
  devices,    \* the devices in authDB
  seen,       \* seen[<<d, cache>>]: what the cleaner of the cache has seen of d
  request,    \* request[c]: what is under way on a connection
  phase,      \* phase[d]: how far d's client is with its login
  challenge,  \* challenge[d]: the challenge it has to answer
  held,       \* held[d]: the token it has
  losses, crashes, sweeps

memory == <<sessions, tokens>>
client == <<phase, challenge, held>>
bounds == <<losses, crashes, sweeps>>
vars == <<memory, devices, seen, request, client, bounds>>

Numbers == 1..(4 * Cardinality(Devices) + 2 * Cardinality(Conns) + 1)
Caches == {"sessions", "tokens"}
Kinds == {"BeginRegistration", "FinishRegistration", "BeginAuthenticate",
          "FinishAuthenticate", "ShowToken"}

\* Received, taken: the session is retrieved, put: the device is on disk.
Stages == {"received", "taken", "put", "answered"}

\* shows: the challenge or token the request brings; found: the session that
\* was stored, and in an answer what the client is given, None if it is refused.
Request(d, kind, shows) ==
  [dev |-> d, kind |-> kind, shows |-> shows, found |-> None,
   at |-> "received", late |-> FALSE]

Init ==
  /\ sessions = [d \in Devices |-> None]
  /\ tokens = [d \in Devices |-> None]
  /\ devices = {}
  /\ seen = [k \in Devices \X Caches |-> None]
  /\ request = [c \in Conns |-> None]
  /\ phase = [d \in Devices |-> "new"]
  /\ challenge = [d \in Devices |-> None]
  /\ held = [d \in Devices |-> None]
  /\ losses = 0 /\ crashes = 0 /\ sweeps = 0

----------------------------------------------------------------------------
(* The clients *)

Free(c) == request[c] = None

Ask(c, d, kind, shows) ==
  /\ Free(c)
  /\ request' = [request EXCEPT ![c] = Request(d, kind, shows)]
  /\ UNCHANGED <<memory, devices, seen, held, bounds>>

Enters(d, from, to) == phase[d] = from /\ phase' = [phase EXCEPT ![d] = to]

AskRegistration(c, d) == Enters(d, "new", "asking") /\ Ask(c, d, "BeginRegistration", None) /\ UNCHANGED challenge
AskLogin(c, d) == Enters(d, "out", "asking") /\ Ask(c, d, "BeginAuthenticate", None) /\ UNCHANGED challenge

\* The client signs the challenge.
AnswerChallenge(c, d) ==
  /\ \/ /\ Enters(d, "registering", "answering")
        /\ Ask(c, d, "FinishRegistration", challenge[d])
     \/ /\ Enters(d, "challenged", "answering")
        /\ Ask(c, d, "FinishAuthenticate", challenge[d])
  /\ challenge' = [challenge EXCEPT ![d] = None]

\* With a request to the API, or first on a websocket.
ShowToken(c, d) ==
  /\ phase[d] = "in"
  /\ Ask(c, d, "ShowToken", held[d])
  /\ UNCHANGED <<phase, challenge>>

\* The client gives up waiting; or the answer is lost.
GiveUp(c) ==
  /\ ~Free(c) /\ ~request[c].late /\ losses < MaxLosses
  /\ request' = IF request[c].at = "answered" THEN [request EXCEPT ![c] = None]
                ELSE [request EXCEPT ![c].late = TRUE]
  /\ phase' = IF request[c].kind = "ShowToken" THEN phase
              ELSE [phase EXCEPT ![request[c].dev] =
                      IF request[c].kind = "BeginRegistration" THEN "gone" ELSE "out"]
  /\ losses' = losses + 1
  /\ UNCHANGED <<memory, devices, seen, challenge, held, crashes, sweeps>>

\* What comes of an answer in the client.
Receive(c) ==
  LET d == request[c].dev
      given == request[c].found
      OnToken ==
        /\ held' = [held EXCEPT ![d] = given]
        /\ UNCHANGED challenge
      OnChallenge ==
        /\ challenge' = [challenge EXCEPT ![d] = given]
        /\ UNCHANGED held IN
  /\ ~Free(c) /\ request[c].at = "answered"
  /\ request' = [request EXCEPT ![c] = None]
  /\ CASE request[c].kind = "BeginRegistration" ->
            OnChallenge /\ phase' = [phase EXCEPT ![d] = "registering"]
       [] request[c].kind = "BeginAuthenticate" ->
            OnChallenge /\ phase' = [phase EXCEPT ![d] = IF given = None THEN "out" ELSE "challenged"]
       [] request[c].kind \in {"FinishRegistration", "FinishAuthenticate"} ->
            OnToken /\ phase' = [phase EXCEPT ![d] = IF given = None THEN "out" ELSE "in"]
       [] request[c].kind = "ShowToken" /\ phase[d] = "in" ->
            OnToken /\ phase' = [phase EXCEPT ![d] = IF given = None THEN "out" ELSE "in"]
       [] OTHER -> UNCHANGED client
  /\ UNCHANGED <<memory, devices, seen, bounds>>

----------------------------------------------------------------------------
(* The server *)

Serves(c, kind, at) ==
  /\ request[c] # None
  /\ request[c].kind = kind /\ request[c].at = at

Reply(c, given) ==
  request' = IF request[c].late THEN [request EXCEPT ![c] = None]
             ELSE [request EXCEPT ![c].at = "answered", ![c].found = given]
Refuse(c) == Reply(c, None)
Goes(c, at, found) == request' = [request EXCEPT ![c].at = at, ![c].found = found]

\* A number that nobody holds.
InUse == (UNION {{sessions[d], tokens[d], challenge[d], held[d]} : d \in Devices})
         \union (UNION {{request[c].shows, request[c].found} : c \in {e \in Conns : ~Free(e)}})
Fresh == CHOOSE n \in Numbers \ InUse : TRUE

\* StoreSessionData: SetIfAbsent, whose result is not looked at.
StoreSessionData(d, new) ==
  sessions' = IF sessions[d] = None THEN [sessions EXCEPT ![d] = new] ELSE sessions

Begin(c) ==
  /\ StoreSessionData(request[c].dev, Fresh)
  /\ Reply(c, Fresh)
  /\ UNCHANGED <<tokens, devices, seen, client, bounds>>

getUserDevice(d) == d \in devices

BeginRegistration(c) == Serves(c, "BeginRegistration", "received") /\ Begin(c)

BeginAuthenticate(c) ==
  /\ Serves(c, "BeginAuthenticate", "received")
  /\ \/ getUserDevice(request[c].dev) /\ Begin(c)
     \/ /\ ~getUserDevice(request[c].dev)
        /\ Refuse(c)
        /\ UNCHANGED <<memory, devices, seen, client, bounds>>

\* Fault: the session stays.
RetrieveKeeping(c, kind) ==
  LET d == request[c].dev IN
  /\ Serves(c, kind, "received")
  /\ IF sessions[d] = None THEN Refuse(c) ELSE Goes(c, "taken", sessions[d])
  /\ UNCHANGED <<memory, devices, seen, client, bounds>>

\* Fault: a session is taken by the right answer only.
RetrieveIfValid(c, kind) ==
  LET d == request[c].dev
      good == sessions[d] = request[c].shows IN
  /\ Serves(c, kind, "received")
  /\ IF good THEN Goes(c, "taken", sessions[d]) ELSE Refuse(c)
  /\ sessions' = IF good THEN [sessions EXCEPT ![d] = None] ELSE sessions
  /\ UNCHANGED <<tokens, devices, seen, client, bounds>>

\* RetrieveSessionData: RemoveCb.
RetrieveSessionData(c, kind) ==
  LET d == request[c].dev IN
  /\ Serves(c, kind, "received")
  /\ IF sessions[d] = None THEN Refuse(c) ELSE Goes(c, "taken", sessions[d])
  /\ sessions' = [sessions EXCEPT ![d] = None]
  /\ UNCHANGED <<tokens, devices, seen, client, bounds>>

\* CreateCredential and ValidateLogin, as far as the challenge goes.
Valid(c) == request[c].found = request[c].shows

\* Fault: the error of putUserDevice is not looked at.
RegisterAnyhow(c) ==
  /\ Serves(c, "FinishRegistration", "taken") /\ Valid(c)
  /\ \E ok \in BOOLEAN : devices' = IF ok THEN devices \union {request[c].dev} ELSE devices
  /\ Goes(c, "put", request[c].found)
  /\ UNCHANGED <<memory, seen, client, bounds>>

RegisterUserDevice(c) ==
  /\ Serves(c, "FinishRegistration", "taken") /\ Valid(c)
  /\ \/ devices' = devices \union {request[c].dev} /\ Goes(c, "put", request[c].found)
     \/ UNCHANGED devices /\ Refuse(c)
  /\ UNCHANGED <<memory, seen, client, bounds>>

\* GenerateAndStoreAuthToken: Set, whatever is there.
GenerateAndStoreAuthToken(c) ==
  /\ \/ Serves(c, "FinishRegistration", "put")
     \/ /\ Serves(c, "FinishAuthenticate", "taken") /\ Valid(c)
        /\ getUserDevice(request[c].dev)
  /\ tokens' = [tokens EXCEPT ![request[c].dev] = Fresh]
  /\ Reply(c, Fresh)
  /\ UNCHANGED <<sessions, devices, seen, client, bounds>>

RefuseAnswer(c) ==
  /\ \/ Serves(c, "FinishRegistration", "taken") /\ ~Valid(c)
     \/ /\ Serves(c, "FinishAuthenticate", "taken")
        /\ ~Valid(c) \/ ~getUserDevice(request[c].dev)
  /\ Refuse(c)
  /\ UNCHANGED <<memory, devices, seen, client, bounds>>

\* Fault: the token shown goes on being good.
VerifyWithoutRefresh(c) ==
  LET d == request[c].dev
      good == tokens[d] = request[c].shows IN
  /\ tokens[d] # Nil
  /\ tokens' = IF good THEN tokens ELSE [tokens EXCEPT ![d] = Nil]
  /\ Reply(c, IF good THEN request[c].shows ELSE None)
  /\ UNCHANGED <<sessions, devices, seen, client, bounds>>

\* Fault: the nil that Upsert returns is given to the client.
VerifyGivingNil(c) ==
  LET d == request[c].dev
      next == IF tokens[d] = request[c].shows THEN Fresh ELSE Nil IN
  /\ tokens[d] # Nil
  /\ tokens' = [tokens EXCEPT ![d] = next]
  /\ Reply(c, next)
  /\ UNCHANGED <<sessions, devices, seen, client, bounds>>

\* Upsert: a new token for the one that was shown, nil for any other or none.
VerifyAndRefreshAuthToken(c) ==
  LET d == request[c].dev
      good == tokens[d] = request[c].shows IN
  /\ tokens[d] # Nil
  /\ tokens' = [tokens EXCEPT ![d] = IF good THEN Fresh ELSE Nil]
  /\ Reply(c, IF good THEN Fresh ELSE None)
  /\ UNCHANGED <<sessions, devices, seen, client, bounds>>

\* AuthenticateWebsocket does the same.
AuthTokenMiddleware(c) == Serves(c, "ShowToken", "received") /\ VerifyAndRefreshAuthToken(c)

----------------------------------------------------------------------------
(* The cleaners: what is seen first is looked at, and removed, later *)

Stored(d, cache) == IF cache = "sessions" THEN sessions[d] ELSE tokens[d]

IterBuffered(d, cache) ==
  /\ sweeps < MaxSweeps /\ Stored(d, cache) # None /\ seen[<<d, cache>>] = None
  /\ seen' = [seen EXCEPT ![<<d, cache>>] = Stored(d, cache)]
  /\ sweeps' = sweeps + 1
  /\ UNCHANGED <<memory, devices, request, client, losses, crashes>>

Clean(d, cache) ==
  /\ seen[<<d, cache>>] \notin {None, Nil}
  /\ seen' = [seen EXCEPT ![<<d, cache>>] = None]
  /\ \/ UNCHANGED memory
     \/ /\ cache = "sessions" /\ sessions' = [sessions EXCEPT ![d] = None]
        /\ UNCHANGED tokens
     \/ /\ cache = "tokens" /\ tokens' = [tokens EXCEPT ![d] = None]
        /\ UNCHANGED sessions
  /\ UNCHANGED <<devices, request, client, bounds>>

----------------------------------------------------------------------------
(* The process ends and is started again *)

\* A client that waits for a login is told; one that registers starts over.
Restart ==
  /\ sessions' = [d \in Devices |-> None]
  /\ tokens' = [d \in Devices |-> None]
  /\ seen' = [k \in Devices \X Caches |-> None]
  /\ request' = [c \in Conns |-> None]
  /\ phase' = [d \in Devices |->
                 CASE \E c \in Conns : ~Free(c) /\ request[c].dev = d /\ ~request[c].late
                                       /\ request[c].kind = "BeginRegistration" -> "gone"
                   [] phase[d] \in {"asking", "answering"} -> "out"
                   [] OTHER -> phase[d]]
  /\ UNCHANGED <<devices, challenge, held, losses, sweeps>>

\* The nil of an earlier Upsert is dereferenced, by the next one or a cleaner.
Panic ==
  /\ \/ \E c \in Conns : Serves(c, "ShowToken", "received") /\ tokens[request[c].dev] = Nil
     \/ \E d \in Devices : seen[<<d, "tokens">>] = Nil
  /\ Restart
  /\ UNCHANGED crashes

Crash == crashes < MaxCrashes /\ Restart /\ crashes' = crashes + 1

----------------------------------------------------------------------------
Serve(c) ==
  \/ BeginRegistration(c) \/ BeginAuthenticate(c)
  \/ \E kind \in {"FinishRegistration", "FinishAuthenticate"} : RetrieveSessionData(c, kind)
  \/ RegisterUserDevice(c) \/ GenerateAndStoreAuthToken(c) \/ RefuseAnswer(c)
  \/ AuthTokenMiddleware(c)

Login(d) == \E c \in Conns : AskLogin(c, d) \/ AnswerChallenge(c, d)

Next ==
  \/ \E c \in Conns : GiveUp(c) \/ Receive(c) \/ Serve(c)
  \/ \E c \in Conns, d \in Devices : AskRegistration(c, d) \/ ShowToken(c, d)
  \/ \E d \in Devices : Login(d) \/ \E cache \in Caches : IterBuffered(d, cache) \/ Clean(d, cache)
  \/ Panic \/ Crash

Spec == Init /\ [][Next]_vars

\* A request is served and answered, or the process ends; and a client that is
\* out goes on trying.
Fairness ==
  /\ \A c \in Conns : WF_vars(Serve(c) \/ Panic) /\ WF_vars(Receive(c))
  /\ \A d \in Devices : WF_vars(Login(d))

FairSpec == Spec /\ Fairness

----------------------------------------------------------------------------
(* Properties *)

\* The state is well formed; numbers do not run out.
TypeOK ==
  /\ sessions \in [Devices -> Numbers \union {None}]
  /\ tokens \in [Devices -> Numbers \union {Nil, None}]
  /\ devices \subseteq Devices
  /\ seen \in [Devices \X Caches -> Numbers \union {Nil, None}]
  /\ request \in [Conns -> {None} \union
                   [dev : Devices, kind : Kinds, at : Stages, late : BOOLEAN,
                    shows : Numbers \union {None}, found : Numbers \union {None}]]
  /\ phase \in [Devices -> {"new", "asking", "registering", "challenged", "answering",
                            "in", "out", "gone"}]
  /\ challenge \in [Devices -> Numbers \union {None}]
  /\ held \in [Devices -> Numbers \union {None}]
  /\ Numbers \ InUse # {}

\* A challenge is in one place: with the sessions, or with one request that
\* answers it.  However many answer it at once, and are retried, one gets a token.
ChallengeAnsweredOnce ==
  \A n \in Numbers :
    Cardinality({d \in Devices : sessions[d] = n}) +
    Cardinality({c \in Conns : ~Free(c) /\ request[c].at \in {"taken", "put"}
                              /\ request[c].found = n}) <= 1

\* A token is accepted once at most: of two requests that show it, over the API
\* or a websocket, one is refused.
TokenAcceptedOnce ==
  \A c, e \in Conns :
    /\ c # e /\ ~Free(c) /\ ~Free(e)
    /\ {request[c].kind, request[e].kind} = {"ShowToken"}
    /\ {request[c].at, request[e].at} = {"answered"}
    /\ request[c].shows = request[e].shows
    => None \in {request[c].found, request[e].found}

\* Whoever has a token, and every token the server accepts, is of a device on
\* disk: it can log in again once the memory is lost.
TokensAreRegistered ==
  \A d \in Devices : held[d] # None \/ tokens[d] \notin {Nil, None} => d \in devices

\* A registered device that is out gets in again, whatever sessions and tokens
\* are left from requests it gave up, swept away, or lost in a restart.
EventuallyIn ==
  \A d \in Devices : d \in devices /\ phase[d] = "out" ~> phase[d] = "in"

\* authTokenStore holds a token for every device it has an entry for.
EntriesAreTokens == \A d \in Devices : tokens[d] # Nil
============================================================================
