--------------------- MODULE NodeProtocolFirstLinkProofs ---------------------
(***************************************************************************)
(* A client is closed for its reports only after as many failures in a row *)
(* as MAX_REPORTS says: proofs for the first link of a behaviour, any set  *)
(* of nodes, any MAX_REPORTS, any number of losses, when connections are   *)
(* lost in the calm way (see Lose) and a manager may have two reports.     *)
(*                                                                         *)
(* There is never more than one thing under way for the link, so that a    *)
(* failure is told, counted by both managers and answered by a new attempt *)
(* before the next can happen.  Late messages do not break this: a first   *)
(* link has none before it.                                                *)
(***************************************************************************)
EXTENDS NodeProtocolProofs, FiniteSetTheorems

\* Nothing is under way (but word of a client that was closed); or one thing is:
\* a request to n's client about m, a message of n's client, a relay.
NoneAsked == \A n \in Nodes : \A q \in Nodes \X Answers : asked[n][q] = 0
NoneSent == \A n \in Nodes : sent[n] = <<>>
NoneCarried == \A r \in Messages : r.what # "FINAL" => relays[r] = 0
Quiet == NoneAsked /\ NoneSent /\ NoneCarried

OnlyAsked(n, m, op) ==
  /\ NoneSent /\ NoneCarried
  /\ \A k \in Nodes : \A q \in Nodes \X Answers :
       asked[k][q] = IF k = n /\ q = <<m, op>> THEN 1 ELSE 0

OnlySent(n, e) ==
  /\ NoneAsked /\ NoneCarried
  /\ \A k \in Nodes : sent[k] = IF k = n THEN <<e>> ELSE <<>>

OnlyCarried(t) ==
  /\ NoneAsked /\ NoneSent
  /\ \A r \in Messages : r.what # "FINAL" => relays[r] = IF r = t THEN 1 ELSE 0

Whats == {"offer", "answer", "verify"} \union Codes

\* One thing at most is under way, and it is about the link of P.
OneThing(P) ==
  \/ Quiet
  \/ \E n, m \in P : n # m /\ \E op \in Answers : OnlyAsked(n, m, op)
  \/ \E n, m \in P : n # m /\ \E e \in Sent : e.node = m /\ OnlySent(n, e)
  \/ \E n, m \in P : n # m /\ \E w \in Whats : OnlyCarried(Message(n, m, w))

\* What a client's message says of m: that they failed, or are connected.
Failing(e, m) ==
  /\ e.node = m
  /\ \/ e.op \in {"CONNECT_NODE", "VERIFY_NODE_CONNECTED"} /\ e.ok = FALSE
     \/ e.op = "REPORT_NODE"
Connected(e, m) == e.node = m /\ e.op = "CONNECT_NODE" /\ e.ok = TRUE
Verified(e, m) == e.node = m /\ e.op = "VERIFY_NODE_CONNECTED" /\ e.ok = TRUE

Failure(n, m) == sent[n] # <<>> /\ Failing(Head(sent[n]), m)
Noticed(n, m) == \E c \in Codes : relays[Message(n, m, c)] > 0

\* n's client will be asked to verify that it is connected to m.
ToVerify(n, m) ==
  \/ sent[m] # <<>> /\ Connected(Head(sent[m]), n)
  \/ relays[Message(m, n, "verify")] > 0
  \/ asked[n][<<m, "VERIFY_NODE_CONNECTED">>] > 0

\* What is under way clears n's count; or has n count a failure.
Clears(n, m) ==
  \/ ToVerify(n, m)
  \/ sent[n] # <<>> /\ (Connected(Head(sent[n]), m) \/ Verified(Head(sent[n]), m))
Due(n, m) == Failure(n, m) \/ Failure(m, n) \/ Noticed(m, n)

Linked(n, m) == Open(n) /\ m \in states[n]

\* n has counted no more failures than there were in a row.
Counted(n, m) ==
  Linked(n, m) => Clears(n, m) \/ count[n] + (IF Due(n, m) THEN 1 ELSE 0) <= inRow

\* A client is asked to verify a connection while there is one; a manager whose
\* client is open has the link when the other has; who failed is not connected.
Verifiable(n, m) == Linked(n, m) /\ ToVerify(n, m) => {n, m} \in joined
Mutual(n, m) == Linked(n, m) /\ Open(m) => n \in states[m]
Separate(n, m) == Failure(n, m) \/ Noticed(n, m) => {n, m} \notin joined

Side(n, m) == Counted(n, m) /\ Verifiable(n, m) /\ Mutual(n, m) /\ Separate(n, m)

\* Nobody else has a link.
OfPair(P) ==
  /\ \A n \in Nodes : states[n] \subseteq P \ {n} /\ (n \notin P => states[n] = {})
  /\ joined \subseteq {P}

\* A client has been closed for its reports: nothing more comes of the link.
Over ==
  \/ \E n \in Nodes : closed[n] = "reports"
  \/ \E r \in Messages : r.what = "FINAL" /\ relays[r] > 0
WhenOver == Over => inRow >= MaxReports /\ Quiet /\ joined = {}

\* The first link is the one between the two nodes of P.
FirstLink(P) ==
  /\ OfPair(P) /\ OneThing(P) /\ WhenOver
  /\ \A n, m \in P : n # m => Side(n, m)

\* There was none yet.
NoLinkYet ==
  /\ Quiet /\ ~Over /\ joined = {}
  /\ \A n \in Nodes : states[n] = {} /\ count[n] = 0

FirstInv ==
  /\ made = 0 => NoLinkYet
  /\ made = 1 => \E i, j \in Nodes : i # j /\ FirstLink({i, j})

----------------------------------------------------------------------------
\* What the types say that is needed here.
LEMMA FirstTypes ==
  ASSUME TypeOK
  PROVE  /\ states \in [Nodes -> SUBSET Nodes]
         /\ count \in [Nodes -> Nat] /\ \A n \in Nodes : count[n] \in Nat
         /\ closed \in [Nodes -> {"no", "reports", "client"}]
         /\ asked \in [Nodes -> [Nodes \X Answers -> Nat]]
         /\ sent \in [Nodes -> Seq(Sent)]
         /\ relays \in [Messages -> Nat]
         /\ inRow \in Nat /\ MaxReports \in Nat
<1>1. count \in [Nodes -> 0..MaxReports] /\ MaxReports \in Nat
  BY ProtocolAssumption DEF TypeOK
<1>2. count \in [Nodes -> Nat]
  BY <1>1
<1> QED
  BY <1>1, <1>2 DEF TypeOK, Sent

\* A message for the other manager, and when two are the same.
LEMMA MessageOf ==
  ASSUME NEW n \in Nodes, NEW m \in Nodes, n # m, NEW w \in Whats \union {"FINAL"}
  PROVE  /\ Message(n, m, w) \in Messages /\ Message(n, m, w).what = w
         /\ Message(n, m, w).from = n /\ Message(n, m, w).to = m
BY DEF Message, Messages, Whats

LEMMA MessageSame ==
  ASSUME NEW n, NEW m, NEW w, NEW k, NEW l, NEW v
  PROVE  Message(n, m, w) = Message(k, l, v) <=> n = k /\ m = l /\ w = v
<1>1. /\ Message(n, m, w).from = n /\ Message(n, m, w).to = m /\ Message(n, m, w).what = w
      /\ Message(k, l, v).from = k /\ Message(k, l, v).to = l /\ Message(k, l, v).what = v
  BY DEF Message
<1> QED
  BY <1>1 DEF Message

\* The kinds of messages.
LEMMA WhatKinds ==
  /\ Codes \subseteq Whats /\ "verify" \in Whats /\ "offer" \in Whats /\ "answer" \in Whats
  /\ "FINAL" \notin Whats /\ "verify" \notin Codes /\ "offer" \notin Codes
  /\ "answer" \notin Codes
BY DEF Whats, Codes

\* What is said of a link when nothing is under way ...
QuietMeans ==
  Quiet =>
    \A n, m \in Nodes : n # m =>
      ~Failure(n, m) /\ ~Noticed(n, m) /\ ~ToVerify(n, m) /\ ~Clears(n, m) /\ ~Due(n, m)

LEMMA WhenQuiet == QuietMeans
<1> SUFFICES ASSUME Quiet, NEW n \in Nodes, NEW m \in Nodes, n # m
             PROVE  /\ ~Failure(n, m) /\ ~Noticed(n, m) /\ ~ToVerify(n, m)
                    /\ ~Clears(n, m) /\ ~Due(n, m)
  BY DEF QuietMeans
<1>1. sent[n] = <<>> /\ sent[m] = <<>>
  BY DEF Quiet, NoneSent
<1>2. \A w \in Whats : relays[Message(n, m, w)] = 0 /\ relays[Message(m, n, w)] = 0
  BY MessageOf, WhatKinds DEF Quiet, NoneCarried
<1>3. asked[n][<<m, "VERIFY_NODE_CONNECTED">>] = 0
  <2>1. <<m, "VERIFY_NODE_CONNECTED">> \in Nodes \X Answers
    BY DEF Answers
  <2> QED
    BY <2>1 DEF Quiet, NoneAsked
<1>4. ~Noticed(n, m) /\ ~Noticed(m, n)
  BY <1>2, WhatKinds DEF Noticed
<1>5. ~ToVerify(n, m)
  BY <1>1, <1>2, <1>3, WhatKinds DEF ToVerify
<1> QED
  BY <1>1, <1>4, <1>5 DEF Failure, Clears, Due

\* ... one request ...
AskedMeans ==
  \A a, b, op : OnlyAsked(a, b, op) =>
    \A n, m \in Nodes : n # m =>
      /\ ~Failure(n, m) /\ ~Noticed(n, m) /\ ~Due(n, m)
      /\ Clears(n, m) <=> ToVerify(n, m)
      /\ ToVerify(n, m) <=> (n = a /\ m = b /\ op = "VERIFY_NODE_CONNECTED")

LEMMA WhenAsked == AskedMeans
<1> SUFFICES ASSUME NEW a, NEW b, NEW op, OnlyAsked(a, b, op),
                    NEW n \in Nodes, NEW m \in Nodes, n # m
             PROVE  /\ ~Failure(n, m) /\ ~Noticed(n, m) /\ ~Due(n, m)
                    /\ Clears(n, m) <=> ToVerify(n, m)
                    /\ ToVerify(n, m) <=> (n = a /\ m = b /\ op = "VERIFY_NODE_CONNECTED")
  BY DEF AskedMeans
<1>1. sent[n] = <<>> /\ sent[m] = <<>>
  BY DEF OnlyAsked, NoneSent
<1>2. \A w \in Whats : relays[Message(n, m, w)] = 0 /\ relays[Message(m, n, w)] = 0
  BY MessageOf, WhatKinds DEF OnlyAsked, NoneCarried
<1>3. asked[n][<<m, "VERIFY_NODE_CONNECTED">>] > 0
        <=> (n = a /\ m = b /\ op = "VERIFY_NODE_CONNECTED")
  <2>1. <<m, "VERIFY_NODE_CONNECTED">> \in Nodes \X Answers
    BY DEF Answers
  <2>2. <<m, "VERIFY_NODE_CONNECTED">> = <<b, op>> <=> m = b /\ op = "VERIFY_NODE_CONNECTED"
    OBVIOUS
  <2>3. asked[n][<<m, "VERIFY_NODE_CONNECTED">>]
          = IF n = a /\ <<m, "VERIFY_NODE_CONNECTED">> = <<b, op>> THEN 1 ELSE 0
    BY <2>1 DEF OnlyAsked
  <2> QED
    BY <2>2, <2>3
<1>4. ~Noticed(n, m) /\ ~Noticed(m, n)
  BY <1>2, WhatKinds DEF Noticed
<1>5. ToVerify(n, m) <=> (n = a /\ m = b /\ op = "VERIFY_NODE_CONNECTED")
  BY <1>1, <1>2, <1>3, WhatKinds DEF ToVerify
<1> QED
  BY <1>1, <1>4, <1>5 DEF Failure, Clears, Due

\* ... one message of a client ...
SentMeans ==
  \A a, e : OnlySent(a, e) =>
    \A n, m \in Nodes : n # m =>
      /\ ~Noticed(n, m)
      /\ Failure(n, m) <=> n = a /\ Failing(e, m)
      /\ ToVerify(n, m) <=> m = a /\ Connected(e, n)
      /\ Clears(n, m) <=> \/ m = a /\ Connected(e, n)
                          \/ n = a /\ (Connected(e, m) \/ Verified(e, m))
      /\ Due(n, m) <=> (n = a /\ Failing(e, m)) \/ (m = a /\ Failing(e, n))

LEMMA WhenSent == SentMeans
<1> SUFFICES ASSUME NEW a, NEW e, OnlySent(a, e), NEW n \in Nodes, NEW m \in Nodes, n # m
             PROVE  /\ ~Noticed(n, m)
                    /\ Failure(n, m) <=> n = a /\ Failing(e, m)
                    /\ ToVerify(n, m) <=> m = a /\ Connected(e, n)
                    /\ Clears(n, m) <=> \/ m = a /\ Connected(e, n)
                                        \/ n = a /\ (Connected(e, m) \/ Verified(e, m))
                    /\ Due(n, m) <=> (n = a /\ Failing(e, m)) \/ (m = a /\ Failing(e, n))
  BY DEF SentMeans
<1>1. \A k \in Nodes : sent[k] # <<>> <=> k = a
  BY DEF OnlySent
<1>1a. \A k \in Nodes : k = a => Head(sent[k]) = e
  BY DEF OnlySent
<1>2. \A w \in Whats : relays[Message(n, m, w)] = 0 /\ relays[Message(m, n, w)] = 0
  BY MessageOf, WhatKinds DEF OnlySent, NoneCarried
<1>3. asked[n][<<m, "VERIFY_NODE_CONNECTED">>] = 0
  <2>1. <<m, "VERIFY_NODE_CONNECTED">> \in Nodes \X Answers
    BY DEF Answers
  <2> QED
    BY <2>1 DEF OnlySent, NoneAsked
<1>4. ~Noticed(n, m) /\ ~Noticed(m, n)
  BY <1>2, WhatKinds DEF Noticed
<1>5. ToVerify(n, m) <=> m = a /\ Connected(e, n)
  BY <1>1, <1>1a, <1>2, <1>3, WhatKinds DEF ToVerify
<1>6. /\ Failure(n, m) <=> n = a /\ Failing(e, m)
      /\ Failure(m, n) <=> m = a /\ Failing(e, n)
  BY <1>1, <1>1a DEF Failure
<1> QED
  BY <1>1, <1>1a, <1>4, <1>5, <1>6 DEF Clears, Due

\* ... or one relay.
CarriedMeans ==
  \A a, b, w : OnlyCarried(Message(a, b, w)) =>
    \A n, m \in Nodes : n # m =>
      /\ ~Failure(n, m)
      /\ Noticed(n, m) <=> (n = a /\ m = b /\ w \in Codes)
      /\ Clears(n, m) <=> ToVerify(n, m)
      /\ ToVerify(n, m) <=> (m = a /\ n = b /\ w = "verify")
      /\ Due(n, m) <=> (m = a /\ n = b /\ w \in Codes)

LEMMA WhenCarried == CarriedMeans
<1> SUFFICES ASSUME NEW a, NEW b, NEW w, OnlyCarried(Message(a, b, w)),
                    NEW n \in Nodes, NEW m \in Nodes, n # m
             PROVE  /\ ~Failure(n, m)
                    /\ Noticed(n, m) <=> (n = a /\ m = b /\ w \in Codes)
                    /\ Clears(n, m) <=> ToVerify(n, m)
                    /\ ToVerify(n, m) <=> (m = a /\ n = b /\ w = "verify")
                    /\ Due(n, m) <=> (m = a /\ n = b /\ w \in Codes)
  BY DEF CarriedMeans
<1>1. sent[n] = <<>> /\ sent[m] = <<>>
  BY DEF OnlyCarried, NoneSent
<1>2. \A k, l \in Nodes : k # l => \A v \in Whats :
        relays[Message(k, l, v)] > 0 <=> (k = a /\ l = b /\ v = w)
  <2> SUFFICES ASSUME NEW k \in Nodes, NEW l \in Nodes, k # l, NEW v \in Whats
               PROVE  relays[Message(k, l, v)] > 0 <=> (k = a /\ l = b /\ v = w)
    OBVIOUS
  <2>1. Message(k, l, v) \in Messages /\ Message(k, l, v).what # "FINAL"
    BY MessageOf, WhatKinds
  <2>2. relays[Message(k, l, v)] = IF Message(k, l, v) = Message(a, b, w) THEN 1 ELSE 0
    BY <2>1 DEF OnlyCarried
  <2> QED
    BY <2>2, MessageSame
<1>3. asked[n][<<m, "VERIFY_NODE_CONNECTED">>] = 0
  <2>1. <<m, "VERIFY_NODE_CONNECTED">> \in Nodes \X Answers
    BY DEF Answers
  <2> QED
    BY <2>1 DEF OnlyCarried, NoneAsked
<1>4. /\ Noticed(n, m) <=> (n = a /\ m = b /\ w \in Codes)
      /\ Noticed(m, n) <=> (m = a /\ n = b /\ w \in Codes)
  BY <1>2, WhatKinds DEF Noticed
<1>5. ToVerify(n, m) <=> (m = a /\ n = b /\ w = "verify")
  BY <1>1, <1>2, <1>3, WhatKinds DEF ToVerify
<1> QED
  BY <1>1, <1>4, <1>5 DEF Failure, Clears, Due

\* The same holds after a step.
LEMMA Afterwards == QuietMeans' /\ AskedMeans' /\ SentMeans' /\ CarriedMeans'
BY WhenQuiet, WhenAsked, WhenSent, WhenCarried, PTL

\* A request that waits is the one thing that is under way; likewise a message
\* of a client, and a relay.
LEMMA AskedAlone ==
  ASSUME NEW P, P \subseteq Nodes, OneThing(P),
         NEW n \in Nodes, NEW m \in Nodes, NEW op \in Answers, asked[n][<<m, op>>] > 0
  PROVE  n \in P /\ m \in P /\ n # m /\ OnlyAsked(n, m, op)
<1>1. <<m, op>> \in Nodes \X Answers
  OBVIOUS
<1>2. ~NoneAsked
  BY <1>1 DEF NoneAsked
<1>3. PICK k \in P, l \in P : k # l /\ \E o \in Answers : OnlyAsked(k, l, o)
  BY <1>2 DEF OneThing, Quiet, OnlySent, OnlyCarried
<1>4. PICK o \in Answers : OnlyAsked(k, l, o)
  BY <1>3
<1>5. asked[n][<<m, op>>] = IF n = k /\ <<m, op>> = <<l, o>> THEN 1 ELSE 0
  BY <1>1, <1>4 DEF OnlyAsked
<1>6. n = k /\ m = l /\ op = o
  BY <1>5
<1> QED
  BY <1>3, <1>4, <1>6

LEMMA SentAlone ==
  ASSUME NEW P, P \subseteq Nodes, OneThing(P), NEW n \in Nodes, sent[n] # <<>>
  PROVE  \E e \in Sent : /\ n \in P /\ e.node \in P /\ n # e.node /\ OnlySent(n, e)
                         /\ sent[n] = <<e>>
<1>1. ~NoneSent
  BY DEF NoneSent
<1>2. PICK k \in P, l \in P : k # l /\ \E e \in Sent : e.node = l /\ OnlySent(k, e)
  BY <1>1 DEF OneThing, Quiet, OnlyAsked, OnlyCarried
<1>3. PICK e \in Sent : e.node = l /\ OnlySent(k, e)
  BY <1>2
<1>4. sent[n] = IF n = k THEN <<e>> ELSE <<>>
  BY <1>3 DEF OnlySent
<1> QED
  BY <1>2, <1>3, <1>4

LEMMA CarriedAlone ==
  ASSUME NEW P, P \subseteq Nodes, OneThing(P),
         NEW r \in Messages, r.what # "FINAL", relays[r] > 0
  PROVE  r.from \in P /\ r.to \in P /\ r.from # r.to /\ r.what \in Whats /\ OnlyCarried(r)
<1>1. ~NoneCarried
  BY DEF NoneCarried
<1>2. PICK k \in P, l \in P : k # l /\ \E w \in Whats : OnlyCarried(Message(k, l, w))
  BY <1>1 DEF OneThing, Quiet, OnlyAsked, OnlySent
<1>3. PICK w \in Whats : OnlyCarried(Message(k, l, w))
  BY <1>2
<1>4. relays[r] = IF r = Message(k, l, w) THEN 1 ELSE 0
  BY <1>3 DEF OnlyCarried
<1>5. r = Message(k, l, w)
  BY <1>4
<1>6. r.from = k /\ r.to = l /\ r.what = w
  BY <1>5 DEF Message
<1> QED
  BY <1>2, <1>3, <1>5, <1>6

\* Something is under way only while no client was closed for its reports.
LEMMA NotQuiet ==
  ASSUME WhenOver, NEW a,
         \/ \E b, op : b \in Nodes /\ a \in Nodes /\ op \in Answers /\ OnlyAsked(a, b, op)
         \/ a \in Nodes /\ \E e : OnlySent(a, e)
         \/ a \in Messages /\ a.what # "FINAL" /\ OnlyCarried(a)
  PROVE  ~Over
<1>1. ~Quiet
  <2>1. CASE \E b, op : b \in Nodes /\ a \in Nodes /\ op \in Answers /\ OnlyAsked(a, b, op)
    <3>1. PICK b \in Nodes, op \in Answers : a \in Nodes /\ OnlyAsked(a, b, op)
      BY <2>1
    <3>2. <<b, op>> \in Nodes \X Answers
      OBVIOUS
    <3>3. asked[a][<<b, op>>] = 1
      BY <3>1, <3>2 DEF OnlyAsked
    <3> QED
      BY <3>1, <3>2, <3>3 DEF Quiet, NoneAsked
  <2>2. CASE a \in Nodes /\ \E e : OnlySent(a, e)
    BY <2>2 DEF Quiet, NoneSent, OnlySent
  <2>3. CASE a \in Messages /\ a.what # "FINAL" /\ OnlyCarried(a)
    BY <2>3 DEF Quiet, NoneCarried, OnlyCarried
  <2> QED
    BY <2>1, <2>2, <2>3
<1> QED
  BY <1>1 DEF WhenOver

\* The two sides of a link.
LEMMA BothSides ==
  ASSUME NEW n \in Nodes, NEW m \in Nodes, n # m
  PROVE  /\ FirstLink({n, m}) <=> /\ OfPair({n, m}) /\ OneThing({n, m}) /\ WhenOver
                                  /\ Side(n, m) /\ Side(m, n)
         /\ FirstLink({n, m})' <=> /\ OfPair({n, m})' /\ OneThing({n, m})' /\ WhenOver'
                                   /\ Side(n, m)' /\ Side(m, n)'
BY DEF FirstLink

\* Of the link's two nodes each is the other's only neighbour.
LEMMA PairFacts ==
  ASSUME NEW n \in Nodes, NEW m \in Nodes, n # m, OfPair({n, m})
  PROVE  /\ states[n] \subseteq {m} /\ states[m] \subseteq {n}
         /\ \A k \in Nodes \ {n, m} : states[k] = {}
         /\ joined = {} \/ joined = {{n, m}}
BY DEF OfPair

\* The same pair, named by whoever acts.
LEMMA SamePair ==
  ASSUME NEW i, NEW j, NEW n \in {i, j}, NEW m \in {i, j}, n # m
  PROVE  {i, j} = {n, m}
OBVIOUS

----------------------------------------------------------------------------
(* Steps *)

\* A client answers: its message is the one thing under way.
LEMMA AnswerAlone ==
  ASSUME TypeOK, NEW P, P \subseteq Nodes, OneThing(P),
         NEW n \in Nodes, NEW m \in Nodes, NEW op \in Answers, NEW ok \in BOOLEAN,
         Answer(n, m, op, ok)
  PROVE  /\ n \in P /\ m \in P /\ n # m /\ OnlyAsked(n, m, op) /\ Open(n)
         /\ OnlySent(n, [op |-> op, node |-> m, ok |-> ok])'
         /\ OneThing(P)'
         /\ UNCHANGED <<states, reports, count, closed, relays, made>>
<1> DEFINE e == [op |-> op, node |-> m, ok |-> ok]
<1>1. /\ Open(n) /\ asked[n][<<m, op>>] > 0
      /\ asked' = [asked EXCEPT ![n][<<m, op>>] = @ - 1]
      /\ sent' = [sent EXCEPT ![n] = Append(@, e)]
      /\ UNCHANGED <<states, reports, count, closed, relays, made>>
  BY DEF Answer, Send, managerVars
<1>2. n \in P /\ m \in P /\ n # m /\ OnlyAsked(n, m, op)
  BY <1>1, AskedAlone
<1>3. e \in Sent /\ e.node = m
  BY DEF Sent
<1> HIDE DEF e
<1>4. sent \in [Nodes -> Seq(Sent)] /\ asked \in [Nodes -> [Nodes \X Answers -> Nat]]
  BY FirstTypes
<1>5. OnlySent(n, e)'
  <2>1. \A k \in Nodes : sent'[k] = IF k = n THEN <<e>> ELSE <<>>
    <3>1. \A k \in Nodes : sent[k] = <<>>
      BY <1>2 DEF OnlyAsked, NoneSent
    <3>2. Append(<<>>, e) = <<e>>
      OBVIOUS
    <3> QED
      BY <1>1, <1>4, <3>1, <3>2
  <2>2. \A k \in Nodes : \A q \in Nodes \X Answers : asked'[k][q] = 0
    BY <1>1, <1>2, <1>4 DEF OnlyAsked
  <2>3. NoneCarried'
    BY <1>1, <1>2 DEF OnlyAsked, NoneCarried
  <2> QED
    BY <2>1, <2>2, <2>3 DEF OnlySent, NoneAsked
<1>6. OneThing(P)'
  BY <1>2, <1>3, <1>5 DEF OneThing
<1> QED
  BY <1>1, <1>2, <1>5, <1>6 DEF e

\* A manager takes its client's message: nothing else is under way.
LEMMA TakesAlone ==
  ASSUME TypeOK, NEW P, P \subseteq Nodes, OneThing(P),
         NEW n \in Nodes, NEW m \in Nodes, NEW op, NEW ok, Takes(n, op, m, ok)
  PROVE  /\ n \in P /\ m \in P /\ n # m /\ Open(n)
         /\ OnlySent(n, [op |-> op, node |-> m, ok |-> ok]) /\ NoneCarried
         /\ NoneSent' /\ NoneAsked'
         /\ UNCHANGED <<asked, joined, inRow, made, losses>>
<1>1. /\ Open(n) /\ sent[n] # <<>>
      /\ Head(sent[n]) = [op |-> op, node |-> m, ok |-> ok]
      /\ sent' = [sent EXCEPT ![n] = Tail(@)]
      /\ UNCHANGED <<asked, joined, inRow, made, losses>>
  BY DEF Takes
<1>2. PICK e \in Sent : n \in P /\ e.node \in P /\ n # e.node /\ OnlySent(n, e) /\ sent[n] = <<e>>
  BY <1>1, SentAlone
<1>3. e = [op |-> op, node |-> m, ok |-> ok]
  BY <1>1, <1>2
<1>4. e.node = m
  BY <1>3
<1>5. sent \in [Nodes -> Seq(Sent)]
  BY FirstTypes
<1>6. NoneSent' /\ NoneAsked'
  BY <1>1, <1>2, <1>5 DEF OnlySent, NoneSent, NoneAsked
<1>7. OnlySent(n, [op |-> op, node |-> m, ok |-> ok]) /\ NoneCarried
  BY <1>2, <1>3 DEF OnlySent
<1> QED
  BY <1>1, <1>2, <1>4, <1>6, <1>7

\* What a manager then has carried is the one thing under way, but for the last
\* report, of which nothing comes.
LEMMA ThenCarried ==
  ASSUME TypeOK, NEW P, P \subseteq Nodes, NoneAsked', NoneSent', NoneCarried,
         NEW n \in P, NEW m \in P, n # m
  PROVE  /\ UNCHANGED relays => Quiet' /\ OneThing(P)'
         /\ relays' = With(relays, Message(n, m, "FINAL")) => Quiet' /\ OneThing(P)'
         /\ \A w \in Whats :
              relays' = With(relays, Message(n, m, w)) =>
                OnlyCarried(Message(n, m, w))' /\ OneThing(P)'
<1>1. relays \in [Messages -> Nat]
  BY FirstTypes
<1>2. ASSUME UNCHANGED relays PROVE Quiet' /\ OneThing(P)'
  BY <1>2 DEF Quiet, OneThing, NoneCarried
<1>3. ASSUME relays' = With(relays, Message(n, m, "FINAL")) PROVE Quiet' /\ OneThing(P)'
  <2>1. Message(n, m, "FINAL").what = "FINAL"
    BY DEF Message
  <2>2. \A r \in Messages : r.what # "FINAL" => relays'[r] = relays[r]
    BY <1>1, <1>3, <2>1 DEF With
  <2> QED
    BY <2>2 DEF Quiet, OneThing, NoneCarried
<1>4. ASSUME NEW w \in Whats, relays' = With(relays, Message(n, m, w))
      PROVE  OnlyCarried(Message(n, m, w))' /\ OneThing(P)'
  <2>1. Message(n, m, w) \in Messages
    BY MessageOf
  <2>2. \A r \in Messages : relays'[r] = IF r = Message(n, m, w) THEN relays[r] + 1 ELSE relays[r]
    BY <1>1, <1>4, <2>1 DEF With
  <2>3. OnlyCarried(Message(n, m, w))'
    BY <2>2 DEF OnlyCarried, NoneCarried
  <2> QED
    BY <2>3 DEF OneThing
<1> QED
  BY <1>2, <1>3, <1>4

\* A relay that arrives was the one thing under way.
LEMMA ReachesAlone ==
  ASSUME TypeOK, NEW P, P \subseteq Nodes, OneThing(P),
         NEW r \in Messages, r.what # "FINAL", Reaches(r)
  PROVE  /\ r.from \in P /\ r.to \in P /\ r.from # r.to /\ r.what \in Whats
         /\ OnlyCarried(r) /\ r = Message(r.from, r.to, r.what)
         /\ \A q \in Messages : q.what # "FINAL" => Without(r)[q] = 0
         /\ NoneSent' /\ NoneAsked
         /\ UNCHANGED <<sent, joined, inRow, made, losses>>
<1>1. relays[r] > 0 /\ UNCHANGED <<sent, joined, inRow, made, losses>>
  BY DEF Reaches
<1>2. r.from \in P /\ r.to \in P /\ r.from # r.to /\ r.what \in Whats /\ OnlyCarried(r)
  BY <1>1, CarriedAlone
<1>3. relays \in [Messages -> Nat]
  BY FirstTypes
<1>4. \A q \in Messages : q.what # "FINAL" => Without(r)[q] = 0
  BY <1>2, <1>3 DEF Without, OnlyCarried
<1>5. NoneSent' /\ NoneAsked
  BY <1>1, <1>2 DEF OnlyCarried, NoneSent
<1>6. r = Message(r.from, r.to, r.what)
  BY DEF Messages, Message
<1> QED
  BY <1>1, <1>2, <1>4, <1>5, <1>6

\* A client's answer leaves the managers and the relays alone.
LEMMA AnswerSides ==
  ASSUME NEW n \in Nodes, NEW m \in Nodes, UNCHANGED <<states, count, closed, relays>>
  PROVE  /\ Linked(n, m)' <=> Linked(n, m)
         /\ Mutual(n, m) => Mutual(n, m)'
         /\ Over' <=> Over
BY DEF Linked, Mutual, Over, Open

\* The steps of the clients keep the invariant.
LEMMA ClientFirst ==
  ASSUME ProtocolInv, NEW i \in Nodes, NEW j \in Nodes, i # j, FirstLink({i, j}),
         NEW n \in Nodes, NEW m \in Nodes, NEW op \in Answers, ClientStep(n, m, op)
  PROVE  FirstLink({i, j})'
<1> DEFINE e(ok) == [op |-> op, node |-> m, ok |-> ok]
<1>0. TypeOK /\ inRow \in Nat /\ \A k \in Nodes : count[k] \in Nat
  BY FirstTypes DEF ProtocolInv
<1>1. OneThing({i, j}) /\ {i, j} \subseteq Nodes
  BY DEF FirstLink
\* What every answer has in common.
<1>2. ASSUME NEW ok \in BOOLEAN, Answer(n, m, op, ok)
      PROVE  /\ {i, j} = {n, m} /\ n # m /\ Open(n)
             /\ OnlyAsked(n, m, op) /\ OnlySent(n, e(ok))' /\ OneThing({n, m})'
             /\ OfPair({n, m}) /\ Side(n, m) /\ Side(m, n) /\ ~Over /\ ~Over'
             /\ ~Due(n, m) /\ ~Due(m, n) /\ ~Clears(m, n)
             /\ Clears(n, m) <=> op = "VERIFY_NODE_CONNECTED"
             /\ ToVerify(n, m) <=> op = "VERIFY_NODE_CONNECTED"
             /\ UNCHANGED <<states, count, closed>>
             /\ Mutual(n, m)' /\ Mutual(m, n)'
             /\ Linked(n, m)' <=> Linked(n, m)
             /\ Linked(m, n)' <=> Linked(m, n)
  <2>1. /\ n \in {i, j} /\ m \in {i, j} /\ n # m /\ OnlyAsked(n, m, op) /\ Open(n)
        /\ OnlySent(n, e(ok))' /\ OneThing({i, j})'
        /\ UNCHANGED <<states, reports, count, closed, relays, made>>
    BY <1>0, <1>1, <1>2, AnswerAlone
  <2> HIDE DEF e
  <2>2. {i, j} = {n, m}
    BY <2>1, SamePair
  <2>3. OfPair({n, m}) /\ WhenOver /\ Side(n, m) /\ Side(m, n)
    BY <2>1, <2>2, BothSides
  <2>4. ~Over
    BY <2>1, <2>3, NotQuiet
  <2>5. /\ ~Due(n, m) /\ ~Due(m, n) /\ ~Clears(m, n)
        /\ Clears(n, m) <=> op = "VERIFY_NODE_CONNECTED"
        /\ ToVerify(n, m) <=> op = "VERIFY_NODE_CONNECTED"
    BY <2>1, WhenAsked DEF AskedMeans
  <2>6. /\ Over' <=> Over
        /\ Mutual(n, m)' /\ Mutual(m, n)'
        /\ Linked(n, m)' <=> Linked(n, m)
        /\ Linked(m, n)' <=> Linked(m, n)
    BY <2>1, <2>3, AnswerSides DEF Side
  <2> QED
    BY <2>1, <2>2, <2>3, <2>4, <2>5, <2>6
\* What the message says.
<1>3. ASSUME NEW ok \in BOOLEAN, OnlySent(n, e(ok))', n # m
      PROVE  /\ ~Noticed(n, m)' /\ ~Noticed(m, n)' /\ ~Failure(m, n)' /\ ~ToVerify(n, m)'
             /\ Failure(n, m)' <=> Failing(e(ok), m)
             /\ ToVerify(m, n)' <=> Connected(e(ok), m)
             /\ Clears(m, n)' <=> Connected(e(ok), m)
             /\ Clears(n, m)' <=> Connected(e(ok), m) \/ Verified(e(ok), m)
             /\ Due(n, m)' <=> Failing(e(ok), m)
             /\ Due(m, n)' <=> Failing(e(ok), m)
  <2> HIDE DEF e
  <2>1. /\ ~Noticed(n, m)'
        /\ Failure(n, m)' <=> n = n /\ Failing(e(ok), m)
        /\ ToVerify(n, m)' <=> m = n /\ Connected(e(ok), n)
        /\ Clears(n, m)' <=> \/ m = n /\ Connected(e(ok), n)
                             \/ n = n /\ (Connected(e(ok), m) \/ Verified(e(ok), m))
        /\ Due(n, m)' <=> (n = n /\ Failing(e(ok), m)) \/ (m = n /\ Failing(e(ok), n))
    BY <1>3, Afterwards DEF SentMeans
  <2>2. /\ ~Noticed(m, n)'
        /\ Failure(m, n)' <=> m = n /\ Failing(e(ok), n)
        /\ ToVerify(m, n)' <=> n = n /\ Connected(e(ok), m)
        /\ Clears(m, n)' <=> \/ n = n /\ Connected(e(ok), m)
                             \/ m = n /\ (Connected(e(ok), n) \/ Verified(e(ok), n))
        /\ Due(m, n)' <=> (m = n /\ Failing(e(ok), n)) \/ (n = n /\ Failing(e(ok), m))
    BY <1>3, Afterwards DEF SentMeans
  <2> QED
    BY <1>3, <2>1, <2>2
\* It is enough to look at the two sides.
<1>4. ASSUME {i, j} = {n, m}, n # m, OfPair({n, m})', OneThing({n, m})', ~Over',
             Side(n, m)', Side(m, n)'
      PROVE  FirstLink({i, j})'
  BY <1>4, BothSides DEF WhenOver
<1>5. CASE AnswerOffer(n, m, op)
  <2>1. op \in {"SEND_OFFER", "ANSWER_OFFER"} /\ Answer(n, m, op, TRUE)
        /\ joined' = joined /\ inRow' = inRow
    BY <1>5 DEF AnswerOffer
  <2>2. ~Failing(e(TRUE), m) /\ ~Connected(e(TRUE), m) /\ ~Verified(e(TRUE), m)
    BY <2>1 DEF Failing, Connected, Verified
  <2> HIDE DEF e
  <2>3. OfPair({n, m})'
    BY <1>2, <2>1 DEF OfPair
  <2>4. Counted(n, m)' /\ Counted(m, n)'
    BY <1>0, <1>2, <1>3, <2>1, <2>2 DEF Side, Counted
  <2>5. Side(n, m)' /\ Side(m, n)'
    BY <1>2, <1>3, <2>1, <2>2, <2>4 DEF Side, Verifiable, Separate
  <2> QED
    BY <1>2, <1>4, <2>1, <2>3, <2>5
<1>6. CASE op = "CONNECT_NODE" /\ Connects(n, m)
  <2>1. /\ Answer(n, m, op, TRUE) /\ op = "CONNECT_NODE"
        /\ joined' = joined \union {{n, m}} /\ inRow' = 0
    BY <1>6 DEF Connects
  <2>2. ~Failing(e(TRUE), m) /\ Connected(e(TRUE), m)
    BY <2>1 DEF Failing, Connected
  <2> HIDE DEF e
  <2>3. OfPair({n, m})'
    BY <1>2, <2>1 DEF OfPair
  <2>4. {n, m} \in joined' /\ {m, n} = {n, m}
    BY <2>1
  <2>5. Side(n, m)' /\ Side(m, n)'
    BY <1>2, <1>3, <2>1, <2>2, <2>4 DEF Side, Counted, Verifiable, Separate
  <2> QED
    BY <1>2, <1>4, <2>1, <2>3, <2>5
<1>7. CASE op = "CONNECT_NODE" /\ FailsToConnect(n, m)
  <2>1. /\ Answer(n, m, op, FALSE) /\ op = "CONNECT_NODE" /\ {n, m} \notin joined
        /\ joined' = joined /\ inRow' = inRow + 1
    BY <1>7 DEF FailsToConnect, Fails
  <2>2. ~Connected(e(FALSE), m) /\ ~Verified(e(FALSE), m)
    BY <2>1 DEF Connected, Verified
  <2> HIDE DEF e
  <2>3. OfPair({n, m})'
    BY <1>2, <2>1 DEF OfPair
  <2>4. Counted(n, m)' /\ Counted(m, n)'
    <3>1. /\ Linked(n, m) => count[n] + 0 <= inRow
          /\ Linked(m, n) => count[m] + 0 <= inRow
      BY <1>2, <2>1 DEF Side, Counted
    <3>2. /\ Linked(n, m)' => count'[n] + 1 <= inRow'
          /\ Linked(m, n)' => count'[m] + 1 <= inRow'
          /\ count'[n] \in Nat /\ count'[m] \in Nat /\ inRow' \in Nat
      <4>1. count' = count /\ inRow' = inRow + 1
        BY <1>2, <2>1
      <4>2. /\ Linked(n, m)' <=> Linked(n, m)
            /\ Linked(m, n)' <=> Linked(m, n)
        BY <1>2, <2>1
      <4> QED
        BY <1>0, <3>1, <4>1, <4>2
    <3> QED
      BY <3>2 DEF Counted
  <2>4a. {m, n} = {n, m}
    OBVIOUS
  <2>5. Side(n, m)' /\ Side(m, n)'
    BY <1>2, <1>3, <2>1, <2>2, <2>4, <2>4a DEF Side, Verifiable, Separate
  <2> QED
    BY <1>2, <1>4, <2>1, <2>3, <2>5
<1>8. CASE op = "VERIFY_NODE_CONNECTED" /\ Verifies(n, m) /\ {n, m} \in joined
  <2>1. /\ Answer(n, m, op, TRUE) /\ op = "VERIFY_NODE_CONNECTED"
        /\ joined' = joined /\ inRow' = inRow
    <3>1. ({n, m} \in joined) = TRUE
      BY <1>8
    <3> QED
      BY <1>8, <3>1 DEF Verifies
  <2>2. ~Failing(e(TRUE), m) /\ ~Connected(e(TRUE), m) /\ Verified(e(TRUE), m)
    BY <2>1 DEF Failing, Connected, Verified
  <2> HIDE DEF e
  <2>3. OfPair({n, m})'
    BY <1>2, <2>1 DEF OfPair
  <2>4. Counted(n, m)' /\ Counted(m, n)'
    BY <1>0, <1>2, <1>3, <2>1, <2>2 DEF Side, Counted
  <2>5. Side(n, m)' /\ Side(m, n)'
    BY <1>2, <1>3, <2>1, <2>2, <2>4 DEF Side, Verifiable, Separate
  <2> QED
    BY <1>2, <1>4, <2>1, <2>3, <2>5
<1>9. CASE op = "VERIFY_NODE_CONNECTED" /\ Verifies(n, m) /\ {n, m} \notin joined
  <2>1. /\ Answer(n, m, op, FALSE) /\ op = "VERIFY_NODE_CONNECTED"
        /\ joined' = joined /\ inRow' = inRow
    <3>1. ({n, m} \in joined) = FALSE
      BY <1>9
    <3> QED
      BY <1>9, <3>1 DEF Verifies
  <2>2. ~Connected(e(FALSE), m) /\ ~Verified(e(FALSE), m)
    BY <2>1 DEF Connected, Verified
  <2> HIDE DEF e
  <2>3. OfPair({n, m})'
    BY <1>2, <2>1 DEF OfPair
  <2>4. ~Linked(n, m) /\ ~Linked(m, n)
    <3>1. ~Linked(n, m)
      BY <1>2, <1>9, <2>1 DEF Side, Verifiable
    <3> QED
      BY <1>2, <2>1, <3>1 DEF Side, Mutual, Linked
  <2>5. {m, n} = {n, m}
    OBVIOUS
  <2>6. Side(n, m)' /\ Side(m, n)'
    BY <1>2, <1>3, <1>9, <2>1, <2>2, <2>4, <2>5 DEF Side, Counted, Verifiable, Separate
  <2> QED
    BY <1>2, <1>4, <2>1, <2>3, <2>6
<1> QED
  BY <1>5, <1>6, <1>7, <1>8, <1>9 DEF ClientStep

\* A connection that is lost: one client reports it, when nothing is under way.
LEMMA LoseFirst ==
  ASSUME ProtocolInv, Calm, NEW i \in Nodes, NEW j \in Nodes, i # j, FirstLink({i, j}),
         NEW x \in Nodes, NEW y \in Nodes, NEW noticing, Lose(x, y, noticing)
  PROVE  FirstLink({i, j})'
<1>0. TypeOK /\ inRow \in Nat /\ \A k \in Nodes : count[k] \in Nat
  BY FirstTypes DEF ProtocolInv
<1>1. /\ {x, y} \in joined /\ noticing \in (SUBSET {x, y}) \ {{}}
      /\ Cardinality(noticing) = 1 /\ ~InHand(x, y) /\ ~InHand(y, x)
      /\ joined' = joined \ {{x, y}} /\ inRow' = inRow + 1
      /\ sent' = [n \in Nodes |->
                    IF n \in noticing /\ Open(n)
                    THEN Append(sent[n], [op |-> "REPORT_NODE", ok |-> TRUE,
                                          node |-> IF n = x THEN y ELSE x])
                    ELSE sent[n]]
      /\ UNCHANGED <<states, reports, count, closed, asked, relays, made>>
  BY DEF Lose, Fails, managerVars
<1>2. {x, y} = {i, j} /\ x # y
  <2>1. {x, y} = {i, j}
    BY <1>1 DEF FirstLink, OfPair
  <2> QED
    BY <2>1
<1>3. OfPair({x, y}) /\ OneThing({x, y}) /\ WhenOver /\ Side(x, y) /\ Side(y, x)
  BY <1>2, BothSides
<1>4. Quiet
  <2> SUFFICES ASSUME ~Quiet PROVE FALSE
    OBVIOUS
  <2>1. CASE \E n, m \in {x, y} : n # m /\ \E op \in Answers : OnlyAsked(n, m, op)
    <3>1. PICK n \in {x, y}, m \in {x, y}, op \in Answers : n # m /\ OnlyAsked(n, m, op)
      BY <2>1
    <3>2. asked[n][<<m, op>>] = 1
      <4>1. <<m, op>> \in Nodes \X Answers
        OBVIOUS
      <4> QED
        BY <3>1, <4>1 DEF OnlyAsked
    <3>3. InHand(n, m)
      BY <3>2 DEF InHand
    <3> QED
      BY <1>1, <3>1, <3>3
  <2>2. CASE \E n, m \in {x, y} : n # m /\ \E e \in Sent : e.node = m /\ OnlySent(n, e)
    <3>1. PICK n \in {x, y}, m \in {x, y}, e \in Sent : n # m /\ e.node = m /\ OnlySent(n, e)
      BY <2>2
    <3>2. sent[n] = <<e>>
      BY <3>1 DEF OnlySent
    <3>3. 1 \in DOMAIN sent[n] /\ sent[n][1].node = m
      BY <3>1, <3>2
    <3>4. InHand(n, m)
      BY <3>3 DEF InHand
    <3> QED
      BY <1>1, <3>1, <3>4
  <2>3. CASE \E n, m \in {x, y} : n # m /\ \E w \in Whats : OnlyCarried(Message(n, m, w))
    <3>1. PICK n \in {x, y}, m \in {x, y}, w \in Whats : n # m /\ OnlyCarried(Message(n, m, w))
      BY <2>3
    <3>2. /\ Message(n, m, w) \in Messages /\ Message(n, m, w).what # "FINAL"
          /\ Message(n, m, w).from = n /\ Message(n, m, w).to = m
      BY <3>1, MessageOf, WhatKinds
    <3>3. relays[Message(n, m, w)] = 1
      BY <3>1, <3>2 DEF OnlyCarried
    <3>4. InHand(n, m)
      BY <3>2, <3>3 DEF InHand
    <3> QED
      BY <1>1, <3>1, <3>4
  <2> QED
    BY <1>3, <2>1, <2>2, <2>3 DEF OneThing
<1>5. ~Over /\ ~Over'
  <2>1. ~Over
    BY <1>1, <1>3 DEF WhenOver
  <2> QED
    BY <1>1, <2>1, AnswerSides DEF Over
<1>6. PICK z \in {x, y} : noticing = {z}
  <2>1. PICK z \in noticing : TRUE
    BY <1>1
  <2>2. IsFiniteSet(noticing)
    <3>1. IsFiniteSet({x, y})
      <4>1. IsFiniteSet({x}) /\ {x, y} = {x} \union {y}
        BY FS_Singleton
      <4> QED
        BY <4>1, FS_AddElement
    <3> QED
      BY <1>1, <3>1, FS_Subset
  <2>3. noticing = {z}
    <3>1. \E w : noticing = {w}
      BY <1>1, <2>2, FS_Singleton
    <3> QED
      BY <2>1, <3>1
  <2> QED
    BY <1>1, <2>1, <2>3
<1> DEFINE other == IF z = x THEN y ELSE x
           e == [op |-> "REPORT_NODE", ok |-> TRUE, node |-> other]
<1>7. z \in Nodes /\ other \in {x, y} /\ z # other /\ {z, other} = {x, y}
  BY <1>2, <1>6
<1>8. e \in Sent /\ e.node = other
  BY <1>7 DEF Sent
<1>8a. \A k : ~Connected(e, k) /\ ~Verified(e, k)
  BY DEF Connected, Verified
<1>8b. sent' = [n \in Nodes |-> IF n = z /\ Open(n) THEN Append(sent[n], e) ELSE sent[n]]
  <2>1. \A n \in Nodes : n \in noticing <=> n = z
    BY <1>6
  <2>2. \A n \in Nodes : n = z => e = [op |-> "REPORT_NODE", ok |-> TRUE,
                                       node |-> IF n = x THEN y ELSE x]
    OBVIOUS
  <2> HIDE DEF e
  <2> QED
    BY <1>1, <2>1, <2>2
<1> HIDE DEF e, other
<1>9. Quiet' \/ OnlySent(z, e)'
  <2>1. NoneAsked' /\ NoneCarried'
    BY <1>1, <1>4 DEF Quiet, NoneAsked, NoneCarried
  <2>2. \A n \in Nodes : sent[n] = <<>>
    BY <1>4 DEF Quiet, NoneSent
  <2>3. Append(<<>>, e) = <<e>>
    OBVIOUS
  <2>4. CASE Open(z)
    <3>1. \A n \in Nodes : sent'[n] = IF n = z THEN <<e>> ELSE <<>>
      BY <1>8b, <2>2, <2>3, <2>4
    <3> QED
      BY <2>1, <3>1 DEF OnlySent
  <2>5. CASE ~Open(z)
    <3>1. \A n \in Nodes : sent'[n] = <<>>
      BY <1>8b, <2>2, <2>5
    <3> QED
      BY <2>1, <3>1 DEF Quiet, NoneSent
  <2> QED
    BY <2>4, <2>5
<1>10. OneThing({x, y})'
  <2>1. CASE Quiet'
    BY <2>1 DEF OneThing
  <2>2. CASE OnlySent(z, e)'
    BY <1>6, <1>7, <1>8, <2>2 DEF OneThing
  <2> QED
    BY <1>9, <2>1, <2>2
<1>11. OfPair({x, y})' /\ joined' = {} /\ {y, x} = {x, y}
  BY <1>1, <1>2, <1>3 DEF OfPair
\* The two sides.
<1>12. ASSUME NEW n \in {x, y}, NEW m \in {x, y}, n # m, Side(n, m)
       PROVE  Side(n, m)'
  <2>1. ~Clears(n, m) /\ ~Due(n, m)
    BY <1>4, <1>12, WhenQuiet DEF QuietMeans
  <2>2. ~ToVerify(n, m)'
    <3>1. CASE Quiet'
      BY <1>12, <3>1, Afterwards DEF QuietMeans
    <3>2. CASE OnlySent(z, e)'
      <4>1. ToVerify(n, m)' <=> m = z /\ Connected(e, n)
        BY <1>12, <3>2, Afterwards DEF SentMeans
      <4> QED
        BY <1>8a, <4>1
    <3> QED
      BY <1>9, <3>1, <3>2
  <2>3. (Linked(n, m)' <=> Linked(n, m)) /\ Mutual(n, m)'
    BY <1>1, <1>12 DEF Linked, Mutual, Side, Open
  <2>4. Counted(n, m)'
    <3>1. Linked(n, m) => count[n] + 0 <= inRow
      BY <1>12, <2>1 DEF Side, Counted
    <3>2. /\ Linked(n, m)' => count'[n] + 1 <= inRow'
          /\ count'[n] \in Nat /\ inRow' \in Nat
      BY <1>0, <1>1, <1>12, <2>3, <3>1
    <3> QED
      BY <3>2 DEF Counted
  <2> QED
    BY <1>11, <2>2, <2>3, <2>4 DEF Side, Verifiable, Separate
<1>13. Side(x, y)' /\ Side(y, x)'
  BY <1>2, <1>3, <1>12
<1> QED
  BY <1>2, <1>5, <1>10, <1>11, <1>13, BothSides DEF WhenOver

\* The pool ends a link, a node leaves, or a client is closed: links, connections
\* and what is under way become less, and nothing else.
LEMMA FewerSide ==
  ASSUME NEW n \in Nodes, NEW m \in Nodes, n # m, Side(n, m),
         joined' \subseteq joined, inRow' = inRow, inRow \in Nat, count[n] \in Nat,
         count'[n] = count[n] \/ count'[n] = 0,
         Linked(n, m)' => Linked(n, m),
         Linked(n, m)' => (Clears(n, m) => Clears(n, m)'),
         Linked(n, m)' => (ToVerify(n, m)' => ToVerify(n, m)),
         Linked(n, m)' => ({n, m} \in joined => {n, m} \in joined'),
         Linked(n, m)' /\ Open(m)' => Open(m) /\ (n \in states[m] => n \in states'[m]),
         Due(n, m)' => Due(n, m),
         Failure(n, m)' => Failure(n, m), Noticed(n, m)' => Noticed(n, m)
  PROVE  Side(n, m)'
<1>1. Counted(n, m)'
  <2> SUFFICES ASSUME Linked(n, m)', ~Clears(n, m)'
               PROVE  count'[n] + (IF Due(n, m)' THEN 1 ELSE 0) <= inRow'
    BY DEF Counted
  <2>1. count[n] + (IF Due(n, m) THEN 1 ELSE 0) <= inRow
    BY DEF Side, Counted
  <2> QED
    BY <2>1
<1>2. Verifiable(n, m)'
  BY DEF Side, Verifiable
<1>3. Mutual(n, m)'
  BY DEF Side, Mutual
<1>4. Separate(n, m)'
  BY DEF Side, Separate
<1> QED
  BY <1>1, <1>2, <1>3, <1>4 DEF Side

\* The pool ends the link.
LEMMA UnlinkFirst ==
  ASSUME ProtocolInv, NEW i \in Nodes, NEW j \in Nodes, i # j, FirstLink({i, j}),
         NEW x \in Nodes, NEW y \in Nodes, Unlink(x, y)
  PROVE  FirstLink({i, j})'
<1> DEFINE gone == [n \in Nodes |->
             CASE n = x /\ Open(x) -> {y} [] n = y /\ Open(y) -> {x} [] OTHER -> {}]
<1>0. inRow \in Nat /\ \A k \in Nodes : count[k] \in Nat
  BY FirstTypes DEF ProtocolInv
<1>1. /\ (Open(x) /\ y \in states[x]) \/ (Open(y) /\ x \in states[y])
      /\ joined' = joined \ {{x, y}}
      /\ UNCHANGED <<closed, asked, sent, relays, inRow, made, losses>>
      /\ states' = [n \in Nodes |-> states[n] \ gone[n]]
      /\ count' = [n \in Nodes |-> IF gone[n] = {} THEN count[n] ELSE 0]
  BY DEF Unlink, DisconnectNode
<1>2. x # y /\ {x, y} = {i, j}
  <2>1. OfPair({i, j})
    BY DEF FirstLink
  <2>2. x \in {i, j} /\ y \in {i, j} /\ x # y
    BY <1>1, <2>1 DEF OfPair
  <2> QED
    BY <2>2, SamePair
<1>3. OfPair({x, y}) /\ OneThing({x, y}) /\ WhenOver /\ Side(x, y) /\ Side(y, x)
  BY <1>2, BothSides
<1>4. /\ Open(x) => gone[x] = {y}
      /\ Open(y) => gone[y] = {x}
  BY <1>2
<1> HIDE DEF gone
<1>5. /\ OneThing({x, y})' <=> OneThing({x, y})
      /\ Quiet' <=> Quiet
      /\ Over' <=> Over
  BY <1>1 DEF OneThing, Quiet, Over, NoneAsked, NoneSent, NoneCarried, OnlyAsked, OnlySent,
              OnlyCarried
<1>6. OfPair({x, y})'
  BY <1>1, <1>3 DEF OfPair
<1>7. ASSUME NEW n \in {x, y}, NEW m \in {x, y}, n # m, Side(n, m)
      PROVE  Side(n, m)'
  <2>1. ~Linked(n, m)'
    BY <1>1, <1>4, <1>7 DEF Linked, Open
  <2>2. /\ Due(n, m)' <=> Due(n, m)
        /\ Failure(n, m)' <=> Failure(n, m)
        /\ Noticed(n, m)' <=> Noticed(n, m)
    BY <1>1 DEF Due, Failure, Noticed
  <2>3. count'[n] = count[n] \/ count'[n] = 0
    BY <1>1, <1>7
  <2> QED
    BY <1>0, <1>1, <1>7, <2>1, <2>2, <2>3, FewerSide
<1>8. Side(x, y)' /\ Side(y, x)' /\ WhenOver'
  BY <1>1, <1>2, <1>3, <1>5, <1>7 DEF WhenOver
<1> QED
  BY <1>2, <1>3, <1>5, <1>6, <1>8, BothSides

\* A node leaves, and what waits for its client is gone.
LEMMA LeaveFirst ==
  ASSUME ProtocolInv, NEW i \in Nodes, NEW j \in Nodes, i # j, FirstLink({i, j}),
         NEW x \in Nodes, Leave(x)
  PROVE  FirstLink({i, j})'
<1> DEFINE gone == [m \in Nodes |->
             IF m = x THEN Nodes ELSE IF Open(m) THEN states[m] \intersect {x} ELSE {}]
<1>0. /\ inRow \in Nat /\ (\A k \in Nodes : count[k] \in Nat)
      /\ asked \in [Nodes -> [Nodes \X Answers -> Nat]] /\ sent \in [Nodes -> Seq(Sent)]
      /\ states \in [Nodes -> SUBSET Nodes]
      /\ closed \in [Nodes -> {"no", "reports", "client"}]
  BY FirstTypes DEF ProtocolInv
<1>1. /\ closed' = [closed EXCEPT ![x] = "no"]
      /\ asked' = [asked EXCEPT ![x] = [q \in Nodes \X Answers |-> 0]]
      /\ sent' = [sent EXCEPT ![x] = <<>>]
      /\ joined' = {p \in joined : x \notin p}
      /\ UNCHANGED <<relays, inRow, made, losses>>
      /\ states' = [n \in Nodes |-> states[n] \ gone[n]]
      /\ count' = [n \in Nodes |-> IF gone[n] = {} THEN count[n] ELSE 0]
  BY DEF Leave, DisconnectNode
<1>2. /\ gone[x] = Nodes
      /\ \A m \in Nodes : m # x /\ Open(m) => gone[m] = states[m] \intersect {x}
      /\ \A m \in Nodes : gone[m] \subseteq Nodes
      /\ \A m \in Nodes : m # x => gone[m] \subseteq {x}
  BY <1>0
<1> HIDE DEF gone
<1>3. OfPair({i, j}) /\ OneThing({i, j}) /\ WhenOver /\ Side(i, j) /\ Side(j, i)
  BY BothSides
<1>4. OfPair({i, j})'
  BY <1>1, <1>3 DEF OfPair
<1>5. \A n \in Nodes : n # x => sent'[n] = sent[n] /\ asked'[n] = asked[n] /\ closed'[n] = closed[n]
  BY <1>0, <1>1
<1>6. sent'[x] = <<>> /\ asked'[x] = [q \in Nodes \X Answers |-> 0] /\ closed'[x] = "no"
  BY <1>0, <1>1
<1>7. (NoneAsked => NoneAsked') /\ (NoneSent => NoneSent') /\ (NoneCarried => NoneCarried')
  BY <1>1, <1>5, <1>6 DEF NoneAsked, NoneSent, NoneCarried
<1>8. Quiet => Quiet'
  BY <1>7 DEF Quiet
<1>9. OneThing({i, j})'
  <2>1. CASE Quiet
    BY <1>8, <2>1 DEF OneThing
  <2>2. ASSUME NEW n \in {i, j}, NEW m \in {i, j}, n # m, NEW op \in Answers, OnlyAsked(n, m, op)
        PROVE  OneThing({i, j})'
    <3>1. NoneSent' /\ NoneCarried'
      BY <1>7, <2>2 DEF OnlyAsked
    <3>2. CASE n = x
      <4>1. NoneAsked'
        <5>1. \A k \in Nodes \ {x} : \A q \in Nodes \X Answers : asked'[k][q] = 0
          BY <1>5, <2>2, <3>2 DEF OnlyAsked
        <5>2. \A q \in Nodes \X Answers : asked'[x][q] = 0
          BY <1>6
        <5> QED
          BY <5>1, <5>2 DEF NoneAsked
      <4> QED
        BY <3>1, <4>1 DEF OneThing, Quiet
    <3>3. CASE n # x
      <4>1. \A k \in Nodes \ {x} : \A q \in Nodes \X Answers :
              asked'[k][q] = IF k = n /\ q = <<m, op>> THEN 1 ELSE 0
        BY <1>5, <2>2 DEF OnlyAsked
      <4>2. \A q \in Nodes \X Answers : asked'[x][q] = 0
        BY <1>6
      <4>3. OnlyAsked(n, m, op)'
        BY <3>1, <3>3, <4>1, <4>2 DEF OnlyAsked
      <4> QED
        BY <2>2, <4>3 DEF OneThing
    <3> QED
      BY <3>2, <3>3
  <2>3. ASSUME NEW n \in {i, j}, NEW m \in {i, j}, n # m, NEW e \in Sent, e.node = m, OnlySent(n, e)
        PROVE  OneThing({i, j})'
    <3>1. NoneAsked' /\ NoneCarried'
      BY <1>7, <2>3 DEF OnlySent
    <3>2. CASE n = x
      <4>1. NoneSent'
        BY <1>5, <1>6, <2>3, <3>2 DEF OnlySent, NoneSent
      <4> QED
        BY <3>1, <4>1 DEF OneThing, Quiet
    <3>3. CASE n # x
      <4>1. OnlySent(n, e)'
        BY <1>5, <1>6, <2>3, <3>1, <3>3 DEF OnlySent
      <4> QED
        BY <2>3, <4>1 DEF OneThing
    <3> QED
      BY <3>2, <3>3
  <2>4. ASSUME NEW n \in {i, j}, NEW m \in {i, j}, n # m, NEW w \in Whats,
               OnlyCarried(Message(n, m, w))
        PROVE  OneThing({i, j})'
    <3>1. OnlyCarried(Message(n, m, w))'
      BY <1>1, <1>7, <2>4 DEF OnlyCarried
    <3> QED
      BY <2>4, <3>1 DEF OneThing
  <2> QED
    BY <1>3, <2>1, <2>2, <2>3, <2>4 DEF OneThing
<1>10. Over' => Over
  BY <1>1, <1>5, <1>6 DEF Over
<1>11. WhenOver'
  BY <1>1, <1>3, <1>8, <1>10 DEF WhenOver
<1>12. ASSUME NEW n \in {i, j}, NEW m \in {i, j}, n # m, Side(n, m)
       PROVE  Side(n, m)'
  <2>1. Linked(n, m)' => Linked(n, m) /\ n # x /\ m # x
    BY <1>0, <1>1, <1>2, <1>5, <1>12 DEF Linked, Open
  <2>2. Linked(n, m)' =>
          /\ Clears(n, m)' <=> Clears(n, m)
          /\ ToVerify(n, m)' <=> ToVerify(n, m)
          /\ {n, m} \in joined => {n, m} \in joined'
          /\ Open(m)' => Open(m) /\ (n \in states[m] => n \in states'[m])
    <3> SUFFICES ASSUME n # x, m # x
                 PROVE  /\ Clears(n, m)' <=> Clears(n, m)
                        /\ ToVerify(n, m)' <=> ToVerify(n, m)
                        /\ {n, m} \in joined => {n, m} \in joined'
                        /\ Open(m)' => Open(m) /\ (n \in states[m] => n \in states'[m])
      BY <2>1
    <3>1. /\ sent'[n] = sent[n] /\ sent'[m] = sent[m] /\ asked'[n] = asked[n]
          /\ closed'[m] = closed[m] /\ relays' = relays
      BY <1>1, <1>5
    <3>2. ToVerify(n, m)' <=> ToVerify(n, m)
      BY <3>1 DEF ToVerify
    <3>3. Clears(n, m)' <=> Clears(n, m)
      BY <3>1, <3>2 DEF Clears
    <3>4. {n, m} \in joined => {n, m} \in joined'
      BY <1>1
    <3>5. n \in states[m] => n \in states'[m]
      BY <1>1, <1>2
    <3> QED
      BY <3>1, <3>2, <3>3, <3>4, <3>5 DEF Open
  <2>3. /\ Failure(n, m)' => Failure(n, m)
        /\ Failure(m, n)' => Failure(m, n)
        /\ Noticed(n, m)' <=> Noticed(n, m)
        /\ Noticed(m, n)' <=> Noticed(m, n)
    BY <1>1, <1>5, <1>6 DEF Failure, Noticed
  <2>4. Due(n, m)' => Due(n, m)
    BY <2>3 DEF Due
  <2>5. count'[n] = count[n] \/ count'[n] = 0
    BY <1>1, <1>12
  <2>6. joined' \subseteq joined
    BY <1>1
  <2> QED
    BY <1>0, <1>1, <1>12, <2>1, <2>2, <2>3, <2>4, <2>5, <2>6, FewerSide
<1> QED
  BY <1>3, <1>4, <1>9, <1>11, <1>12, BothSides

\* A client is closed for something else.
LEMMA CloseFirst ==
  ASSUME ProtocolInv, NEW i \in Nodes, NEW j \in Nodes, i # j, FirstLink({i, j}),
         NEW x \in Nodes, NotCompliant(x)
  PROVE  FirstLink({i, j})'
<1>0. /\ inRow \in Nat /\ (\A k \in Nodes : count[k] \in Nat)
      /\ closed \in [Nodes -> {"no", "reports", "client"}]
  BY FirstTypes DEF ProtocolInv
<1>1. /\ closed' = [closed EXCEPT ![x] = "client"] /\ Open(x)
      /\ UNCHANGED <<states, reports, count, asked, sent, joined, inRow, relays, made, losses>>
  BY DEF NotCompliant, clientVars
<1>2. OfPair({i, j}) /\ OneThing({i, j}) /\ WhenOver /\ Side(i, j) /\ Side(j, i)
  BY BothSides
<1>3. /\ OneThing({i, j})' <=> OneThing({i, j})
      /\ Quiet' <=> Quiet
      /\ OfPair({i, j})' <=> OfPair({i, j})
  BY <1>1 DEF OneThing, Quiet, NoneAsked, NoneSent, NoneCarried, OnlyAsked, OnlySent,
              OnlyCarried, OfPair
<1>4. Over' => Over
  BY <1>0, <1>1 DEF Over
<1>5. \A n \in Nodes : Open(n)' => Open(n)
  BY <1>0, <1>1 DEF Open
<1>6. ASSUME NEW n \in {i, j}, NEW m \in {i, j}, n # m, Side(n, m)
      PROVE  Side(n, m)'
  <2>1. Linked(n, m)' => Linked(n, m)
    BY <1>1, <1>5, <1>6 DEF Linked
  <2>2. /\ Due(n, m)' <=> Due(n, m)
        /\ Failure(n, m)' <=> Failure(n, m)
        /\ Noticed(n, m)' <=> Noticed(n, m)
        /\ ToVerify(n, m)' <=> ToVerify(n, m)
        /\ Clears(n, m)' <=> Clears(n, m)
    BY <1>1 DEF Due, Failure, Noticed, ToVerify, Clears
  <2> QED
    BY <1>0, <1>1, <1>5, <1>6, <2>1, <2>2, FewerSide
<1> QED
  BY <1>1, <1>2, <1>3, <1>4, <1>6, BothSides DEF WhenOver

\* What the manager has taken, and that it was the one thing under way.
LEMMA TakenFirst ==
  ASSUME ProtocolInv, NEW i \in Nodes, NEW j \in Nodes, i # j, FirstLink({i, j}),
         NEW n \in Nodes, NEW m \in Nodes, NEW op, NEW ok, Takes(n, op, m, ok)
  PROVE  /\ {i, j} = {n, m} /\ n # m /\ Open(n)
         /\ OnlySent(n, [op |-> op, node |-> m, ok |-> ok])
         /\ NoneCarried /\ NoneSent' /\ NoneAsked'
         /\ joined' = joined /\ inRow' = inRow /\ made' = made
         /\ OfPair({n, m}) /\ Side(n, m) /\ Side(m, n) /\ ~Over
         /\ Linked(m, n) => m \in states[n]
<1>1. TypeOK /\ OneThing({i, j}) /\ {i, j} \subseteq Nodes
  BY DEF ProtocolInv, FirstLink
<1>2. /\ n \in {i, j} /\ m \in {i, j} /\ n # m /\ Open(n)
      /\ OnlySent(n, [op |-> op, node |-> m, ok |-> ok]) /\ NoneCarried
      /\ NoneSent' /\ NoneAsked'
      /\ UNCHANGED <<asked, joined, inRow, made, losses>>
  BY <1>1, TakesAlone
<1>3. {i, j} = {n, m}
  BY <1>2, SamePair
<1>4. OfPair({n, m}) /\ WhenOver /\ Side(n, m) /\ Side(m, n)
  BY <1>2, <1>3, BothSides
<1>5. ~Over
  BY <1>2, <1>4, NotQuiet
<1>6. Linked(m, n) => m \in states[n]
  BY <1>2, <1>4 DEF Side, Mutual
<1> QED
  BY <1>2, <1>3, <1>4, <1>5, <1>6

\* A step after which nothing clears or fails: each side's count is what it was.
LEMMA CalmSide ==
  ASSUME NEW n \in Nodes, NEW m \in Nodes, n # m, Side(n, m), inRow \in Nat,
         count[n] \in Nat, ~Clears(n, m),
         UNCHANGED <<states, count, closed, joined, inRow>>,
         ~Due(n, m)', ~ToVerify(n, m)', ~Failure(n, m)',
         ~Noticed(n, m)' \/ {n, m} \notin joined
  PROVE  Side(n, m)'
<1>1. Linked(n, m)' <=> Linked(n, m)
  BY DEF Linked, Open
<1>2. Linked(n, m) => count[n] <= inRow
  <2>1. Linked(n, m) => count[n] + (IF Due(n, m) THEN 1 ELSE 0) <= inRow
    BY DEF Side, Counted
  <2> QED
    BY <2>1
<1>3. Counted(n, m)'
  <2>1. Linked(n, m)' => count'[n] + 0 <= inRow'
    BY <1>1, <1>2
  <2> QED
    BY <2>1 DEF Counted
<1>4. Mutual(n, m)'
  BY <1>1 DEF Side, Mutual, Open
<1> QED
  BY <1>3, <1>4 DEF Side, Verifiable, Separate

\* A manager passes an offer, or an answer to one, on.
LEMMA PassFirst ==
  ASSUME ProtocolInv, NEW i \in Nodes, NEW j \in Nodes, i # j, FirstLink({i, j}),
         NEW n \in Nodes, NEW m \in Nodes,
         NEW op \in {"SEND_OFFER", "ANSWER_OFFER"}, NEW w \in {"offer", "answer"},
         Takes(n, op, m, TRUE), Passes(n, m, w)
  PROVE  FirstLink({i, j})'
<1> DEFINE e == [op |-> op, node |-> m, ok |-> TRUE]
<1>0. TypeOK /\ inRow \in Nat /\ \A k \in Nodes : count[k] \in Nat
  BY FirstTypes DEF ProtocolInv
<1>1. /\ {i, j} = {n, m} /\ n # m /\ Open(n) /\ OnlySent(n, e)
      /\ NoneCarried /\ NoneSent' /\ NoneAsked'
      /\ joined' = joined /\ inRow' = inRow /\ made' = made
      /\ OfPair({n, m}) /\ Side(n, m) /\ Side(m, n) /\ ~Over
  BY TakenFirst
<1>2. ~Connected(e, m) /\ ~Verified(e, m) /\ ~Connected(e, n) /\ ~Verified(e, n)
  BY DEF Connected, Verified
<1> HIDE DEF e
<1>3. ~Clears(n, m) /\ ~Clears(m, n)
  BY <1>1, <1>2, WhenSent DEF SentMeans
<1>4. UNCHANGED <<states, reports, count, closed>>
      /\ (UNCHANGED relays \/ relays' = With(relays, Message(n, m, w)))
  BY DEF Passes, Inactive, managerVars
<1>5. w \in Whats /\ w \notin Codes /\ w # "verify" /\ w # "FINAL"
  BY WhatKinds
<1>6. OneThing({n, m})' /\ (Quiet' \/ OnlyCarried(Message(n, m, w))')
  BY <1>0, <1>1, <1>4, <1>5, ThenCarried
<1>7. ASSUME NEW a \in {n, m}, NEW b \in {n, m}, a # b
      PROVE  ~Due(a, b)' /\ ~ToVerify(a, b)' /\ ~Failure(a, b)' /\ ~Noticed(a, b)'
  <2>1. CASE Quiet'
    BY <1>7, <2>1, Afterwards DEF QuietMeans
  <2>2. CASE OnlyCarried(Message(n, m, w))'
    BY <1>5, <1>7, <2>2, Afterwards DEF CarriedMeans
  <2> QED
    BY <1>6, <2>1, <2>2
<1>8. Side(n, m)' /\ Side(m, n)'
  BY <1>0, <1>1, <1>3, <1>4, <1>7, CalmSide
<1>9. ~Over'
  <2>1. \A r \in Messages : r.what = "FINAL" => relays'[r] = relays[r]
    <3>1. relays \in [Messages -> Nat] /\ Message(n, m, w).what = w
      BY <1>0, FirstTypes DEF Message
    <3> QED
      BY <1>4, <1>5, <3>1 DEF With
  <2> QED
    BY <1>1, <1>4, <2>1 DEF Over
<1>10. OfPair({n, m})'
  BY <1>1, <1>4 DEF OfPair
<1> QED
  BY <1>1, <1>6, <1>8, <1>9, <1>10, BothSides DEF WhenOver

\* A manager hears that the clients are connected.
LEMMA ConnectedFirst ==
  ASSUME ProtocolInv, NEW i \in Nodes, NEW j \in Nodes, i # j, FirstLink({i, j}),
         NEW n \in Nodes, NEW m \in Nodes, NodeConnected(n, m) \/ NodeVerified(n, m)
  PROVE  FirstLink({i, j})'
<1>0. /\ TypeOK /\ inRow \in Nat /\ (\A k \in Nodes : count[k] \in Nat)
      /\ relays \in [Messages -> Nat] /\ count \in [Nodes -> Nat]
  BY FirstTypes DEF ProtocolInv
<1>1. PICK op \in {"CONNECT_NODE", "VERIFY_NODE_CONNECTED"} :
        /\ Takes(n, op, m, TRUE)
        /\ op = "CONNECT_NODE" <=> NodeConnected(n, m)
  <2>1. CASE NodeConnected(n, m)
    BY <2>1 DEF NodeConnected
  <2>2. CASE ~NodeConnected(n, m)
    BY <2>2 DEF NodeVerified
  <2> QED
    BY <2>1, <2>2
<1> DEFINE e == [op |-> op, node |-> m, ok |-> TRUE]
<1>2. /\ {i, j} = {n, m} /\ n # m /\ Open(n) /\ OnlySent(n, e)
      /\ NoneCarried /\ NoneSent' /\ NoneAsked'
      /\ joined' = joined /\ inRow' = inRow /\ made' = made
      /\ OfPair({n, m}) /\ Side(n, m) /\ Side(m, n) /\ ~Over
      /\ Linked(m, n) => m \in states[n]
  BY <1>1, TakenFirst
<1>3. /\ Connected(e, m) <=> op = "CONNECT_NODE"
      /\ ~Connected(e, n) /\ ~Verified(e, n)
  BY <1>2 DEF Connected, Verified
<1> HIDE DEF e
<1>4. /\ ToVerify(m, n) <=> op = "CONNECT_NODE"
      /\ Clears(m, n) <=> op = "CONNECT_NODE"
  BY <1>2, <1>3, WhenSent DEF SentMeans
<1>5. OfPair({n, m})' /\ {m, n} = {n, m}
  <2>1. states' = states
    BY DEF NodeConnected, NodeVerified, Inactive, clearReport, managerVars
  <2> QED
    BY <1>2, <2>1 DEF OfPair
\* The manager has no link, or begins to count anew; the other is told.
<1>6. CASE m \notin states[n]
  <2>1. UNCHANGED <<states, reports, count, closed, relays>>
    BY <1>6 DEF NodeConnected, NodeVerified, Inactive, managerVars
  <2>2. ~Linked(n, m) /\ ~Linked(m, n) /\ ~Linked(n, m)' /\ ~Linked(m, n)'
    BY <1>2, <1>6, <2>1 DEF Linked, Open
  <2>3. Quiet' /\ OneThing({n, m})'
    BY <1>0, <1>2, <2>1, ThenCarried
  <2>4. ~Failure(n, m)' /\ ~Failure(m, n)' /\ ~Noticed(n, m)' /\ ~Noticed(m, n)'
    BY <1>2, <2>3, Afterwards DEF QuietMeans
  <2>5. Side(n, m)' /\ Side(m, n)'
    BY <2>2, <2>4 DEF Side, Counted, Verifiable, Mutual, Separate
  <2>6. ~Over'
    BY <1>2, <2>1 DEF Over
  <2> QED
    BY <1>2, <1>5, <2>3, <2>5, <2>6, BothSides DEF WhenOver
<1>7. CASE m \in states[n]
  <2>1. /\ UNCHANGED <<states, closed>> /\ count' = [count EXCEPT ![n] = 0]
        /\ relays' = IF op = "CONNECT_NODE" THEN With(relays, Message(n, m, "verify")) ELSE relays
    BY <1>1, <1>7 DEF NodeConnected, NodeVerified, Inactive, clearReport
  <2>2. /\ OneThing({n, m})'
        /\ op # "CONNECT_NODE" => Quiet'
        /\ op = "CONNECT_NODE" => OnlyCarried(Message(n, m, "verify"))'
    BY <1>0, <1>2, <2>1, ThenCarried, WhatKinds
  <2>3. /\ ~Due(n, m)' /\ ~Due(m, n)' /\ ~Failure(n, m)' /\ ~Failure(m, n)'
        /\ ~Noticed(n, m)' /\ ~Noticed(m, n)' /\ ~ToVerify(n, m)'
        /\ ToVerify(m, n)' <=> op = "CONNECT_NODE"
        /\ Clears(m, n)' <=> op = "CONNECT_NODE"
    <3>1. CASE op # "CONNECT_NODE"
      BY <1>2, <2>2, <3>1, Afterwards DEF QuietMeans
    <3>2. CASE op = "CONNECT_NODE"
      BY <1>2, <2>2, <3>2, Afterwards, WhatKinds DEF CarriedMeans
    <3> QED
      BY <3>1, <3>2
  <2>4. /\ Linked(n, m)' <=> Linked(n, m)
        /\ Linked(m, n)' <=> Linked(m, n)
        /\ Mutual(n, m)' /\ Mutual(m, n)'
    BY <1>2, <2>1 DEF Linked, Mutual, Side, Open
  <2>5. Counted(n, m)'
    <3>1. count'[n] + 0 <= inRow'
      BY <1>0, <1>2, <2>1
    <3> QED
      BY <2>3, <3>1 DEF Counted
  <2>6. Counted(m, n)'
    <3>1. CASE op = "CONNECT_NODE"
      BY <2>3, <3>1 DEF Counted
    <3>2. CASE op # "CONNECT_NODE"
      <4>1. Linked(m, n) => count[m] + (IF Due(m, n) THEN 1 ELSE 0) <= inRow
        BY <1>2, <1>4, <3>2 DEF Side, Counted
      <4>2. Linked(m, n)' => count'[m] + 0 <= inRow'
        <5>1. count'[m] = count[m] /\ inRow' = inRow
          BY <1>0, <1>2, <2>1
        <5> QED
          BY <1>0, <2>4, <4>1, <5>1
      <4> QED
        BY <2>3, <4>2 DEF Counted
    <3> QED
      BY <3>1, <3>2
  <2>7. Side(n, m)' /\ Side(m, n)'
    <3>1. Verifiable(n, m)' /\ Verifiable(m, n)'
      BY <1>2, <1>4, <2>3, <2>4 DEF Verifiable, Side
    <3> QED
      BY <2>3, <2>4, <2>5, <2>6, <3>1 DEF Side, Separate
  <2>8. ~Over'
    <3>1. Message(n, m, "verify").what = "verify"
      BY DEF Message
    <3>2. \A r \in Messages : r.what = "FINAL" => relays'[r] = relays[r]
      BY <1>0, <2>1, <3>1 DEF With
    <3> QED
      BY <1>2, <2>1, <3>2 DEF Over
  <2> QED
    BY <1>2, <1>5, <2>2, <2>7, <2>8, BothSides DEF WhenOver
<1> QED
  BY <1>6, <1>7

\* What comes of a report of m at n, on a first link: with room for a second report
\* the number of nodes that are reported never closes a client.
LEMMA OutcomeFirst ==
  ASSUME ProtocolInv, MaxUniqueReports >= 2,
         NEW n \in Nodes, NEW m \in Nodes, n # m, OfPair({n, m}),
         NEW code \in Codes \union {"FINAL"}, Open(n), reportNode(n, m, code)
  PROVE  LET out == Outcome(n, m, code)
         IN /\ out = "inactive" <=> m \notin states[n]
            /\ out \in {"inactive", "too many", "counted", "reported"}
            /\ out = "too many" => /\ count[n] + 1 >= MaxReports
                                   /\ closed' = [closed EXCEPT ![n] = "reports"]
            /\ out # "too many" => /\ UNCHANGED closed
                                   /\ m \in states[n] => count[n] + 1 < MaxReports
            /\ out = "reported" => code # "FINAL"
            /\ UNCHANGED states
            /\ \A k \in Nodes : k # n => count'[k] = count[k]
            /\ count'[n] = IF m \in states[n] THEN count[n] + 1 ELSE count[n]
<1> DEFINE out == Outcome(n, m, code)
<1>1. /\ count \in [Nodes -> Nat] /\ count[n] \in Nat /\ MaxReports \in Nat
      /\ MaxUniqueReports \in Nat
  BY FirstTypes, ProtocolAssumption DEF ProtocolInv
<1>2. Cardinality({k \in Nodes : reports[n][k] # None}) <= 1
  <2>1. {k \in Nodes : reports[n][k] # None} \subseteq {m}
    BY PairFacts DEF ProtocolInv, ReportsAreOfLinks
  <2>2. IsFiniteSet({m}) /\ Cardinality({m}) = 1
    BY FS_Singleton
  <2> QED
    BY <2>1, <2>2, FS_Subset
<1>3. Cardinality({k \in Nodes : reports[n][k] # None}) \in Nat
  <2>1. {k \in Nodes : reports[n][k] # None} \subseteq {m}
    BY PairFacts DEF ProtocolInv, ReportsAreOfLinks
  <2>2. IsFiniteSet({m})
    BY FS_Singleton
  <2> QED
    BY <2>1, <2>2, FS_Subset, FS_CardinalityType
<1>4. ~(Cardinality({k \in Nodes : reports[n][k] # None}) >= MaxUniqueReports)
  BY <1>1, <1>2, <1>3
<1>5. /\ out = "inactive" <=> m \notin states[n]
      /\ out \in {"inactive", "too many", "counted", "reported"}
      /\ out = "too many" => count[n] + 1 >= MaxReports
      /\ out # "too many" /\ m \in states[n] => count[n] + 1 < MaxReports
      /\ out = "reported" => code # "FINAL"
  BY <1>1, <1>4 DEF Outcome
<1>6. /\ count' = IF out = "inactive" THEN count ELSE [count EXCEPT ![n] = @ + 1]
      /\ closed' = IF out \in {"too many", "too wide"} THEN [closed EXCEPT ![n] = "reports"]
                   ELSE closed
      /\ UNCHANGED states
  BY DEF reportNode
<1> HIDE DEF out
<1>7. /\ \A k \in Nodes : k # n => count'[k] = count[k]
      /\ count'[n] = IF m \in states[n] THEN count[n] + 1 ELSE count[n]
  BY <1>1, <1>5, <1>6
<1>8. /\ out = "too many" => closed' = [closed EXCEPT ![n] = "reports"]
      /\ out # "too many" => UNCHANGED closed
  BY <1>5, <1>6
<1> QED
  BY <1>5, <1>6, <1>7, <1>8 DEF out

\* A manager counts a failure that it owes: both sides stay right, whatever is
\* told of it then.
LEMMA CountsSides ==
  ASSUME ProtocolInv, NEW n \in Nodes, NEW m \in Nodes, n # m,
         OfPair({n, m}), Side(n, m), Side(m, n), Open(n),
         Linked(n, m)' => count[n] + 1 <= inRow,
         ~Clears(m, n),
         UNCHANGED <<states, joined, inRow>>,
         count'[m] = count[m],
         count'[n] = IF m \in states[n] THEN count[n] + 1 ELSE count[n],
         \A k \in Nodes : closed'[k] = closed[k] \/ closed'[k] = "reports",
         joined = {},
         ~Due(n, m)', ~ToVerify(n, m)', ~ToVerify(m, n)',
         Due(m, n)' => Due(m, n)
  PROVE  Side(n, m)' /\ Side(m, n)'
<1>0. inRow \in Nat /\ count[n] \in Nat /\ count[m] \in Nat
  BY FirstTypes DEF ProtocolInv
<1>1. /\ Linked(n, m)' => Linked(n, m)
      /\ Linked(m, n)' => Linked(m, n)
      /\ Open(n)' => Open(n)
      /\ Open(m)' => Open(m)
  BY DEF Linked, Open
<1>2. Counted(n, m)'
  <2>1. Linked(n, m)' => count'[n] + 0 <= inRow'
    BY <1>0, <1>1 DEF Linked
  <2> QED
    BY <2>1 DEF Counted
<1>3. Counted(m, n)'
  <2> SUFFICES ASSUME Linked(m, n)'
               PROVE  count'[m] + (IF Due(m, n)' THEN 1 ELSE 0) <= inRow'
    BY DEF Counted
  <2>1. count[m] + (IF Due(m, n) THEN 1 ELSE 0) <= inRow
    BY <1>1 DEF Side, Counted
  <2> QED
    BY <1>0, <2>1
<1>4. Mutual(n, m)' /\ Mutual(m, n)'
  BY <1>1 DEF Side, Mutual
<1>5. Verifiable(n, m)' /\ Verifiable(m, n)' /\ Separate(n, m)' /\ Separate(m, n)'
  BY DEF Verifiable, Separate
<1> QED
  BY <1>2, <1>3, <1>4, <1>5 DEF Side

\* A manager handles a failure that its client told it of.
LEMMA FailedFirst ==
  ASSUME ProtocolInv, MaxUniqueReports >= 2,
         NEW i \in Nodes, NEW j \in Nodes, i # j, FirstLink({i, j}),
         NEW n \in Nodes, NEW m \in Nodes, NodeNotConnected(n, m) \/ NodeReported(n, m)
  PROVE  FirstLink({i, j})'
<1>0. /\ TypeOK /\ inRow \in Nat /\ MaxReports \in Nat /\ (\A k \in Nodes : count[k] \in Nat)
      /\ relays \in [Messages -> Nat] /\ closed \in [Nodes -> {"no", "reports", "client"}]
  BY FirstTypes DEF ProtocolInv
<1>1. \E op, ok, code :
        /\ Takes(n, op, m, ok) /\ code \in Codes /\ clientReportNode(n, m, code)
        /\ Failing([op |-> op, node |-> m, ok |-> ok], m)
  <2>1. CASE NodeReported(n, m)
    <3>1. Failing([op |-> "REPORT_NODE", node |-> m, ok |-> TRUE], m)
      BY DEF Failing
    <3> QED
      BY <2>1, <3>1 DEF NodeReported, Codes
  <2>2. CASE NodeNotConnected(n, m)
    <3>1. PICK op \in {"CONNECT_NODE", "VERIFY_NODE_CONNECTED"} : Takes(n, op, m, FALSE)
      BY <2>2 DEF NodeNotConnected
    <3>2. Failing([op |-> op, node |-> m, ok |-> FALSE], m)
      BY DEF Failing
    <3> QED
      BY <2>2, <3>1, <3>2 DEF NodeNotConnected, Codes
  <2> QED
    BY <2>1, <2>2
<1>2. PICK op, ok, code :
        /\ Takes(n, op, m, ok) /\ code \in Codes /\ clientReportNode(n, m, code)
        /\ Failing([op |-> op, node |-> m, ok |-> ok], m)
  BY <1>1
<1> DEFINE e == [op |-> op, node |-> m, ok |-> ok]
           out == Outcome(n, m, code)
<1>3. /\ {i, j} = {n, m} /\ n # m /\ Open(n) /\ OnlySent(n, e)
      /\ NoneCarried /\ NoneSent' /\ NoneAsked'
      /\ joined' = joined /\ inRow' = inRow /\ made' = made
      /\ OfPair({n, m}) /\ Side(n, m) /\ Side(m, n) /\ ~Over
      /\ Linked(m, n) => m \in states[n]
  BY <1>2, TakenFirst
<1>4. Failing(e, m) /\ e.node = m
  BY <1>2 DEF Failing
<1> HIDE DEF e
<1>5. ~Connected(e, m) /\ ~Verified(e, m) /\ ~Connected(e, n) /\ ~Verified(e, n)
  BY <1>3, <1>4 DEF Failing, Connected, Verified
<1>6. ~Clears(n, m) /\ ~Clears(m, n) /\ Due(n, m) /\ Due(m, n) /\ Failure(n, m)
  BY <1>3, <1>4, <1>5, WhenSent DEF SentMeans
<1>7. joined = {}
  <2>1. {n, m} \notin joined
    BY <1>3, <1>6 DEF Side, Separate
  <2>2. joined = {} \/ joined = {{n, m}}
    BY <1>3, PairFacts
  <2> QED
    BY <2>1, <2>2
<1>8. Linked(n, m) => count[n] + 1 <= inRow
  BY <1>0, <1>3, <1>6 DEF Side, Counted
<1>9. /\ reportNode(n, m, code)
      /\ relays' = IF out = "reported" THEN With(relays, Message(n, m, code))
                   ELSE ToldFinally(n, m, code, relays)
  BY <1>2 DEF clientReportNode
<1>10. /\ out = "inactive" <=> m \notin states[n]
       /\ out \in {"inactive", "too many", "counted", "reported"}
       /\ out = "too many" => /\ count[n] + 1 >= MaxReports
                              /\ closed' = [closed EXCEPT ![n] = "reports"]
       /\ out # "too many" => UNCHANGED closed
       /\ UNCHANGED states
       /\ \A k \in Nodes : k # n => count'[k] = count[k]
       /\ count'[n] = IF m \in states[n] THEN count[n] + 1 ELSE count[n]
  BY <1>2, <1>3, <1>9, OutcomeFirst
<1>11. /\ out = "reported" => relays' = With(relays, Message(n, m, code))
       /\ out = "too many" => relays' = With(relays, Message(n, m, "FINAL"))
       /\ out \in {"inactive", "counted"} => UNCHANGED relays
  <2>1. code # "FINAL"
    BY <1>2 DEF Codes
  <2> QED
    BY <1>9, <2>1 DEF ToldFinally
<1> HIDE DEF out
<1>12. /\ OneThing({n, m})'
       /\ out = "reported" => OnlyCarried(Message(n, m, code))'
       /\ out # "reported" => Quiet'
  <2>1. code \in Whats
    BY <1>2, WhatKinds
  <2> QED
    BY <1>0, <1>3, <1>10, <1>11, <2>1, ThenCarried
<1>13. ~Due(n, m)' /\ ~ToVerify(n, m)' /\ ~ToVerify(m, n)'
  <2>1. CASE out = "reported"
    BY <1>2, <1>3, <1>12, <2>1, Afterwards, WhatKinds DEF CarriedMeans
  <2>2. CASE out # "reported"
    BY <1>3, <1>12, <2>2, Afterwards DEF QuietMeans
  <2> QED
    BY <2>1, <2>2
<1>14. Side(n, m)' /\ Side(m, n)'
  <2>1. \A k \in Nodes : closed'[k] = closed[k] \/ closed'[k] = "reports"
    BY <1>0, <1>10
  <2>2. Linked(n, m)' => Linked(n, m)
    BY <1>10, <2>1 DEF Linked, Open
  <2> QED
    BY <1>3, <1>6, <1>7, <1>8, <1>10, <1>13, <2>1, <2>2, CountsSides
<1>15. WhenOver'
  <2>1. CASE out = "too many"
    <3>1. inRow >= MaxReports
      <4>1. m \in states[n] /\ count[n] + 1 >= MaxReports
        BY <1>10, <2>1
      <4>2. count[n] + 1 <= inRow
        BY <1>3, <1>8, <4>1 DEF Linked
      <4> QED
        BY <1>0, <4>1, <4>2
    <3> QED
      BY <1>3, <1>7, <1>12, <2>1, <3>1 DEF WhenOver
  <2>2. CASE out # "too many"
    <3>1. Message(n, m, code).what = code /\ code # "FINAL"
      BY <1>2 DEF Message, Codes
    <3>2. \A r \in Messages : r.what = "FINAL" => relays'[r] = relays[r]
      BY <1>0, <1>10, <1>11, <2>2, <3>1 DEF With
    <3> QED
      BY <1>3, <1>10, <2>2, <3>2 DEF WhenOver, Over
  <2> QED
    BY <2>1, <2>2
<1>16. OfPair({n, m})'
  BY <1>3, <1>10 DEF OfPair
<1> QED
  BY <1>3, <1>12, <1>14, <1>15, <1>16, BothSides

\* A relay that finds no link is dropped.
LEMMA DropFirst ==
  ASSUME ProtocolInv, NEW i \in Nodes, NEW j \in Nodes, i # j, FirstLink({i, j}),
         NEW r \in Messages, Drop(r)
  PROVE  FirstLink({i, j})'
<1>0. /\ TypeOK /\ inRow \in Nat /\ (\A k \in Nodes : count[k] \in Nat)
      /\ relays \in [Messages -> Nat]
  BY FirstTypes DEF ProtocolInv
<1>1. /\ Reaches(r) /\ relays' = Without(r)
      /\ ~Open(r.to) \/ r.from \notin states[r.to]
      /\ UNCHANGED <<states, reports, count, closed, asked, sent, joined, inRow, made, losses>>
  BY DEF Drop, Reaches, managerVars
<1>2. OfPair({i, j}) /\ OneThing({i, j}) /\ WhenOver /\ Side(i, j) /\ Side(j, i)
  BY BothSides
<1>3. OfPair({i, j})'
  BY <1>1, <1>2 DEF OfPair
<1>4. \A q \in Messages : relays'[q] = IF q = r THEN relays[q] - 1 ELSE relays[q]
  BY <1>0, <1>1 DEF Without
<1>5. CASE r.what = "FINAL"
  <2>1. \A q \in Messages : q.what # "FINAL" => relays'[q] = relays[q]
    BY <1>4, <1>5
  <2>2. relays' \in [Messages -> Int]
    BY <1>0, <1>1 DEF Without
  <2>3. /\ NoneAsked' <=> NoneAsked
        /\ NoneSent' <=> NoneSent
        /\ NoneCarried' <=> NoneCarried
    BY <1>1, <2>1 DEF NoneAsked, NoneSent, NoneCarried
  <2>4. /\ \A n, m, op : OnlyAsked(n, m, op)' <=> OnlyAsked(n, m, op)
        /\ \A n, e : OnlySent(n, e)' <=> OnlySent(n, e)
        /\ \A t : OnlyCarried(t)' <=> OnlyCarried(t)
    BY <1>1, <2>1, <2>3 DEF OnlyAsked, OnlySent, OnlyCarried
  <2>5. OneThing({i, j})' /\ (Quiet' <=> Quiet)
    BY <1>2, <2>3, <2>4 DEF OneThing, Quiet
  <2>6. Over' => Over
    <3>1. \A q \in Messages : relays'[q] > 0 => relays[q] > 0
      BY <1>0, <1>4
    <3> QED
      BY <1>1, <3>1 DEF Over
  <2>7. ASSUME NEW n \in {i, j}, NEW m \in {i, j}, n # m, Side(n, m)
        PROVE  Side(n, m)'
    <3>1. \A w \in Whats : /\ relays'[Message(n, m, w)] = relays[Message(n, m, w)]
                           /\ relays'[Message(m, n, w)] = relays[Message(m, n, w)]
      BY <2>1, <2>7, MessageOf, WhatKinds
    <3>2. /\ Noticed(n, m)' <=> Noticed(n, m)
          /\ Noticed(m, n)' <=> Noticed(m, n)
          /\ ToVerify(n, m)' <=> ToVerify(n, m)
      BY <1>1, <3>1, WhatKinds DEF Noticed, ToVerify
    <3>3. /\ Failure(n, m)' <=> Failure(n, m)
          /\ Failure(m, n)' <=> Failure(m, n)
          /\ Linked(n, m)' <=> Linked(n, m)
          /\ Open(m)' <=> Open(m)
      BY <1>1 DEF Failure, Linked, Open
    <3>4. /\ Due(n, m)' <=> Due(n, m)
          /\ Clears(n, m)' <=> Clears(n, m)
      BY <1>1, <3>2, <3>3 DEF Due, Clears
    <3> QED
      BY <1>0, <1>1, <2>7, <3>2, <3>3, <3>4, FewerSide
  <2> QED
    BY <1>1, <1>2, <1>3, <2>5, <2>6, <2>7, BothSides DEF WhenOver
<1>6. CASE r.what # "FINAL"
  <2> DEFINE n == r.to
             m == r.from
  <2>1. /\ m \in {i, j} /\ n \in {i, j} /\ m # n /\ r.what \in Whats
        /\ OnlyCarried(Message(m, n, r.what)) /\ NoneSent' /\ NoneAsked /\ OnlyCarried(r)
        /\ \A q \in Messages : q.what # "FINAL" => Without(r)[q] = 0
    <3>1. {i, j} \subseteq Nodes
      OBVIOUS
    <3> QED
      BY <1>0, <1>1, <1>2, <1>6, <3>1, ReachesAlone
  <2> HIDE DEF n, m
  <2>2. {i, j} = {n, m}
    BY <2>1, SamePair
  <2>3. Quiet' /\ OneThing({i, j})'
    BY <1>1, <2>1 DEF Quiet, NoneAsked, NoneCarried, OneThing
  <2>4. ~Over
    BY <1>2, <1>6, <2>1, NotQuiet
  <2>5. ~Over'
    BY <1>1, <1>4, <1>6, <2>4 DEF Over
  <2>6. ~Clears(m, n)
    BY <2>1, <2>2, WhenCarried DEF CarriedMeans
  <2>7. /\ ~Linked(n, m)'
    BY <1>1 DEF Linked, Open, n, m
  <2>8. /\ ~Failure(n, m)' /\ ~Noticed(n, m)' /\ ~ToVerify(n, m)' /\ ~Due(n, m)'
        /\ ~Failure(m, n)' /\ ~Noticed(m, n)' /\ ~ToVerify(m, n)' /\ ~Due(m, n)'
    BY <2>1, <2>2, <2>3, Afterwards DEF QuietMeans
  <2>9. Side(n, m) /\ Side(m, n)
    BY <1>2, <2>1, <2>2
  <2>10. Side(m, n)'
    BY <1>0, <1>1, <2>1, <2>6, <2>8, <2>9, CalmSide
  <2>11. Side(n, m)'
    BY <2>7, <2>8 DEF Side, Counted, Verifiable, Mutual, Separate
  <2> QED
    BY <1>2, <1>3, <2>1, <2>2, <2>3, <2>5, <2>10, <2>11, BothSides DEF WhenOver
<1> QED
  BY <1>5, <1>6

\* A request is the one thing under way when nothing else is.
LEMMA ThenAsked ==
  ASSUME TypeOK, NEW P, P \subseteq Nodes, NoneAsked, NoneSent', NoneCarried',
         NEW n \in P, NEW m \in P, n # m, NEW op \in Answers,
         asked' = [asked EXCEPT ![n][<<m, op>>] = @ + 1]
  PROVE  OnlyAsked(n, m, op)' /\ OneThing(P)'
<1>1. asked \in [Nodes -> [Nodes \X Answers -> Nat]] /\ <<m, op>> \in Nodes \X Answers
  BY FirstTypes
<1>2. \A k \in Nodes : \A q \in Nodes \X Answers : asked[k][q] = 0
  BY DEF NoneAsked
<1>3. \A k \in Nodes : \A q \in Nodes \X Answers :
        asked'[k][q] = IF k = n /\ q = <<m, op>> THEN 1 ELSE 0
  BY <1>1, <1>2
<1>4. OnlyAsked(n, m, op)'
  BY <1>3 DEF OnlyAsked
<1> QED
  BY <1>4 DEF OneThing

\* Of the requests only a verification clears a count.
LEMMA ExpectedAnswer ==
  ASSUME NEW w \in {"offer", "answer", "verify"}
  PROVE  /\ Expected(w) \in Answers
         /\ Expected(w) = "VERIFY_NODE_CONNECTED" <=> w = "verify"
         /\ w \notin Codes /\ w # "FINAL"
BY DEF Expected, Answers, Codes

\* A client is asked.
LEMMA AskFirst ==
  ASSUME ProtocolInv, NEW i \in Nodes, NEW j \in Nodes, i # j, FirstLink({i, j}),
         NEW r \in Messages, Ask(r)
  PROVE  FirstLink({i, j})'
<1> DEFINE n == r.to
           m == r.from
           w == r.what
           op == Expected(w)
<1>0. /\ TypeOK /\ inRow \in Nat /\ (\A k \in Nodes : count[k] \in Nat)
      /\ relays \in [Messages -> Nat]
  BY FirstTypes DEF ProtocolInv
<1>1. /\ w \in {"offer", "answer", "verify"} /\ Reaches(r) /\ relays' = Without(r)
      /\ Open(n) /\ m \in states[n]
      /\ asked' = [asked EXCEPT ![n][<<m, op>>] = @ + 1]
      /\ UNCHANGED <<states, reports, count, closed, sent, joined, inRow, made, losses>>
  BY DEF Ask, Reaches, managerVars
<1>2. OfPair({i, j}) /\ OneThing({i, j}) /\ WhenOver /\ Side(i, j) /\ Side(j, i)
  BY BothSides
<1>3. /\ m \in {i, j} /\ n \in {i, j} /\ m # n /\ w \in Whats
      /\ OnlyCarried(Message(m, n, w)) /\ NoneSent' /\ NoneAsked /\ OnlyCarried(r)
      /\ \A q \in Messages : q.what # "FINAL" => Without(r)[q] = 0
  <2>1. {i, j} \subseteq Nodes /\ w # "FINAL"
    BY <1>1
  <2> QED
    BY <1>0, <1>1, <1>2, <2>1, ReachesAlone
<1>4. \A q \in Messages : q.what = "FINAL" => relays'[q] = relays[q]
  <2>1. w # "FINAL"
    BY <1>1
  <2> QED
    BY <1>0, <1>1, <2>1 DEF Without
<1>5. ~Over
  <2>1. r.what # "FINAL"
    BY <1>1
  <2> QED
    BY <1>2, <1>3, <2>1, NotQuiet
<1>6. /\ op \in Answers /\ w \notin Codes /\ w # "FINAL"
      /\ op = "VERIFY_NODE_CONNECTED" <=> w = "verify"
  BY <1>1, ExpectedAnswer
<1> HIDE DEF n, m, w, op
<1>7. {i, j} = {n, m}
  BY <1>3, SamePair
<1>8. OnlyAsked(n, m, op)' /\ OneThing({i, j})'
  <2>1. NoneCarried'
    BY <1>1, <1>3 DEF NoneCarried
  <2> QED
    BY <1>0, <1>1, <1>3, <1>6, <2>1, ThenAsked
<1>9. ~Over'
  BY <1>1, <1>4, <1>5 DEF Over
<1>10. /\ ~Clears(m, n) /\ ~ToVerify(m, n)
       /\ Clears(n, m) <=> w = "verify"
       /\ ToVerify(n, m) <=> w = "verify"
  BY <1>3, <1>7, WhenCarried DEF CarriedMeans
<1>11. /\ ~ToVerify(m, n)' /\ ~Due(n, m)' /\ ~Due(m, n)' /\ ~Failure(n, m)' /\ ~Failure(m, n)'
       /\ ~Noticed(n, m)' /\ ~Noticed(m, n)'
       /\ Clears(n, m)' <=> w = "verify"
       /\ ToVerify(n, m)' <=> w = "verify"
  BY <1>3, <1>6, <1>7, <1>8, Afterwards DEF AskedMeans
<1>12. Side(n, m) /\ Side(m, n)
  BY <1>2, <1>3, <1>7
<1>13. Side(m, n)'
  BY <1>0, <1>1, <1>3, <1>10, <1>11, <1>12, CalmSide
<1>14. Side(n, m)'
  <2>1. /\ Linked(n, m)' <=> Linked(n, m)
        /\ Open(m)' <=> Open(m)
    BY <1>1 DEF Linked, Open
  <2> QED
    BY <1>0, <1>1, <1>3, <1>10, <1>11, <1>12, <2>1, FewerSide
<1>15. OfPair({i, j})'
  BY <1>1, <1>2 DEF OfPair
<1> QED
  BY <1>3, <1>7, <1>8, <1>9, <1>13, <1>14, <1>15, BothSides DEF WhenOver

\* A manager hears that the other's client was closed: nothing comes of it.
LEMMA FinalFirst ==
  ASSUME ProtocolInv, MaxUniqueReports >= 2,
         NEW i \in Nodes, NEW j \in Nodes, i # j, FirstLink({i, j}),
         NEW r \in Messages, r.what = "FINAL", Notified(r)
  PROVE  FirstLink({i, j})'
<1> DEFINE n == r.to
           m == r.from
           out == Outcome(n, m, "FINAL")
<1>0. /\ TypeOK /\ inRow \in Nat /\ MaxReports \in Nat /\ (\A k \in Nodes : count[k] \in Nat)
      /\ relays \in [Messages -> Nat] /\ closed \in [Nodes -> {"no", "reports", "client"}]
  BY FirstTypes DEF ProtocolInv
<1>1. /\ Open(n) /\ m \in states[n] /\ relays[r] > 0
      /\ reportNode(n, m, "FINAL")
      /\ relays' = Without(r)
      /\ asked' = IF out = "reported" THEN [asked EXCEPT ![n][<<m, "SEND_OFFER">>] = @ + 1]
                  ELSE asked
      /\ UNCHANGED <<sent, joined, inRow, made, losses>>
  BY DEF Notified, Reaches, ToldFinally
<1>2. n \in Nodes /\ m \in Nodes /\ n # m
  BY DEF Messages
<1>3. OfPair({i, j}) /\ WhenOver /\ Side(i, j) /\ Side(j, i)
  BY BothSides
<1> HIDE DEF n, m, out
<1>4. {i, j} = {n, m}
  <2>1. n \in {i, j} /\ m \in {i, j}
    BY <1>1, <1>2, <1>3 DEF OfPair
  <2> QED
    BY <1>2, <2>1, SamePair
<1>5. inRow >= MaxReports /\ Quiet /\ joined = {}
  <2>1. Over
    BY <1>1 DEF Over
  <2> QED
    BY <1>3, <2>1 DEF WhenOver
<1>6. OfPair({n, m}) /\ Side(n, m) /\ Side(m, n)
  BY <1>2, <1>3, <1>4, BothSides
<1>7. /\ out = "inactive" <=> m \notin states[n]
      /\ out \in {"inactive", "too many", "counted", "reported"}
      /\ out = "too many" => closed' = [closed EXCEPT ![n] = "reports"]
      /\ out # "too many" => /\ UNCHANGED closed
                             /\ m \in states[n] => count[n] + 1 < MaxReports
      /\ out # "reported"
      /\ UNCHANGED states
      /\ \A k \in Nodes : k # n => count'[k] = count[k]
      /\ count'[n] = IF m \in states[n] THEN count[n] + 1 ELSE count[n]
  BY <1>1, <1>2, <1>6, OutcomeFirst DEF out
<1>8. Quiet' /\ OneThing({n, m})'
  <2>1. \A q \in Messages : q.what # "FINAL" => relays'[q] = relays[q]
    BY <1>0, <1>1 DEF Without
  <2> QED
    BY <1>1, <1>5, <1>7, <2>1 DEF Quiet, NoneAsked, NoneSent, NoneCarried, OneThing
<1>9. /\ ~Due(n, m)' /\ ~ToVerify(n, m)' /\ ~ToVerify(m, n)' /\ ~Due(m, n)'
      /\ ~Clears(m, n)
  BY <1>2, <1>5, <1>8, Afterwards, WhenQuiet DEF QuietMeans
<1>10. Linked(n, m)' => count[n] + 1 <= inRow
  <2>1. CASE out = "too many"
    <3>1. closed'[n] = "reports"
      BY <1>0, <1>2, <1>7, <2>1
    <3> QED
      BY <3>1 DEF Linked, Open
  <2>2. CASE out # "too many"
    <3>1. count[n] + 1 < MaxReports
      BY <1>1, <1>7, <2>2
    <3> QED
      BY <1>0, <1>2, <1>5, <3>1
  <2> QED
    BY <2>1, <2>2
<1>11. Side(n, m)' /\ Side(m, n)'
  <2>1. \A k \in Nodes : closed'[k] = closed[k] \/ closed'[k] = "reports"
    BY <1>0, <1>7
  <2>2. /\ UNCHANGED <<states, joined, inRow>> /\ count'[m] = count[m]
        /\ count'[n] = IF m \in states[n] THEN count[n] + 1 ELSE count[n]
    BY <1>1, <1>2, <1>7
  <2>3. Open(n) /\ joined = {}
    BY <1>1, <1>5
  <2>4. /\ OfPair({n, m}) /\ Side(n, m) /\ Side(m, n)
        /\ ~Clears(m, n) /\ ~Due(n, m)' /\ ~ToVerify(n, m)' /\ ~ToVerify(m, n)'
        /\ Due(m, n)' => Due(m, n)
    BY <1>6, <1>9
  <2>5. UNCHANGED <<states, joined, inRow>>
    BY <2>2
  <2>6. n # m /\ n \in Nodes /\ m \in Nodes
    BY <1>2
  <2>7. CASE Linked(n, m)'
    <3>1. count[n] + 1 <= inRow
      BY <1>10, <2>7
    <3> QED
      BY <2>1, <2>2, <2>3, <2>4, <2>5, <2>6, <3>1, CountsSides
  <2>8. CASE ~Linked(n, m)'
    BY <2>1, <2>2, <2>3, <2>4, <2>5, <2>6, <2>8, CountsSides
  <2> QED
    BY <2>7, <2>8
<1>12. WhenOver'
  BY <1>1, <1>5, <1>8 DEF WhenOver
<1>13. OfPair({n, m})'
  BY <1>1, <1>6, <1>7 DEF OfPair
<1> QED
  BY <1>2, <1>4, <1>8, <1>11, <1>12, <1>13, BothSides

\* A manager hears of a failure, counts it and connects anew.
LEMMA NotifiedFirst ==
  ASSUME ProtocolInv, MaxUniqueReports >= 2,
         NEW i \in Nodes, NEW j \in Nodes, i # j, FirstLink({i, j}),
         NEW r \in Messages, r.what # "FINAL", Notified(r)
  PROVE  FirstLink({i, j})'
<1> DEFINE n == r.to
           m == r.from
           w == r.what
           out == Outcome(n, m, w)
<1>0. /\ TypeOK /\ inRow \in Nat /\ MaxReports \in Nat /\ (\A k \in Nodes : count[k] \in Nat)
      /\ relays \in [Messages -> Nat] /\ closed \in [Nodes -> {"no", "reports", "client"}]
  BY FirstTypes DEF ProtocolInv
<1>1. /\ Open(n) /\ m \in states[n] /\ Reaches(r) /\ w \in Codes
      /\ reportNode(n, m, w)
      /\ relays' = IF out = "too many" THEN With(Without(r), Message(n, m, "FINAL"))
                   ELSE Without(r)
      /\ asked' = IF out = "reported" THEN [asked EXCEPT ![n][<<m, "SEND_OFFER">>] = @ + 1]
                  ELSE asked
      /\ UNCHANGED <<sent, joined, inRow, made, losses>>
  BY DEF Notified, Reaches, ToldFinally
<1>2. OfPair({i, j}) /\ OneThing({i, j}) /\ WhenOver /\ Side(i, j) /\ Side(j, i)
  BY BothSides
<1>3. /\ m \in {i, j} /\ n \in {i, j} /\ m # n /\ w \in Whats
      /\ OnlyCarried(Message(m, n, w)) /\ NoneSent' /\ NoneAsked /\ OnlyCarried(r)
      /\ \A q \in Messages : q.what # "FINAL" => Without(r)[q] = 0
  <2>1. {i, j} \subseteq Nodes
    OBVIOUS
  <2> QED
    BY <1>0, <1>1, <1>2, <2>1, ReachesAlone
<1>4. ~Over
  BY <1>2, <1>3, NotQuiet
<1>5. \A q \in Messages : q.what = "FINAL" => Without(r)[q] = relays[q]
  BY <1>0 DEF Without
<1> HIDE DEF n, m, w, out
<1>6. {i, j} = {n, m} /\ n \in Nodes /\ m \in Nodes
  BY <1>3, SamePair
<1>7. OfPair({n, m}) /\ Side(n, m) /\ Side(m, n)
  BY <1>2, <1>3, <1>6, BothSides
<1>8. ~Clears(n, m) /\ ~Clears(m, n) /\ Due(n, m) /\ ~Due(m, n) /\ Noticed(m, n)
  <2>1. w \in Codes /\ w # "verify"
    BY <1>1, WhatKinds
  <2>2. ~Clears(n, m) /\ Due(n, m)
    BY <1>3, <1>6, <2>1, WhenCarried DEF CarriedMeans
  <2>3. ~Clears(m, n) /\ ~Due(m, n) /\ Noticed(m, n)
    BY <1>3, <1>6, <2>1, WhenCarried DEF CarriedMeans
  <2> QED
    BY <2>2, <2>3
<1>9. joined = {}
  <2>1. {m, n} \notin joined /\ {m, n} = {n, m}
    BY <1>7, <1>8 DEF Side, Separate
  <2>2. joined = {} \/ joined = {{n, m}}
    BY <1>3, <1>6, <1>7, PairFacts
  <2> QED
    BY <2>1, <2>2
<1>10. count[n] + 1 <= inRow
  BY <1>1, <1>7, <1>8 DEF Side, Counted, Linked
<1>11. /\ out \in {"inactive", "too many", "counted", "reported"}
       /\ out = "too many" => /\ count[n] + 1 >= MaxReports
                              /\ closed' = [closed EXCEPT ![n] = "reports"]
       /\ out # "too many" => UNCHANGED closed
       /\ UNCHANGED states
       /\ \A k \in Nodes : k # n => count'[k] = count[k]
       /\ count'[n] = IF m \in states[n] THEN count[n] + 1 ELSE count[n]
  BY <1>1, <1>3, <1>6, <1>7, OutcomeFirst DEF out
<1>12. NoneCarried'
  <2>1. \A q \in Messages : q.what # "FINAL" => relays'[q] = Without(r)[q]
    <3>1. Message(n, m, "FINAL").what = "FINAL"
      BY DEF Message
    <3>2. Without(r) \in [Messages -> Int]
      BY <1>0 DEF Without
    <3>3. \A q \in Messages : q.what # "FINAL" =>
            With(Without(r), Message(n, m, "FINAL"))[q] = Without(r)[q]
      BY <3>1, <3>2 DEF With
    <3> QED
      BY <1>1, <3>3
  <2> QED
    BY <1>3, <2>1 DEF NoneCarried
<1>13. /\ OneThing({n, m})'
       /\ out = "reported" => OnlyAsked(n, m, "SEND_OFFER")'
       /\ out # "reported" => Quiet'
  <2>1. CASE out = "reported"
    <3>1. "SEND_OFFER" \in Answers
      BY DEF Answers
    <3> QED
      BY <1>0, <1>1, <1>3, <1>6, <1>12, <2>1, <3>1, ThenAsked
  <2>2. CASE out # "reported"
    BY <1>1, <1>3, <1>12, <2>2 DEF Quiet, NoneAsked, OneThing
  <2> QED
    BY <2>1, <2>2
<1>14. ~Due(n, m)' /\ ~ToVerify(n, m)' /\ ~ToVerify(m, n)' /\ ~Due(m, n)'
  <2>1. CASE out = "reported"
    BY <1>3, <1>6, <1>13, <2>1, Afterwards DEF AskedMeans
  <2>2. CASE out # "reported"
    BY <1>3, <1>6, <1>13, <2>2, Afterwards DEF QuietMeans
  <2> QED
    BY <2>1, <2>2
<1>15. Side(n, m)' /\ Side(m, n)'
  <2>1. \A k \in Nodes : closed'[k] = closed[k] \/ closed'[k] = "reports"
    BY <1>0, <1>11
  <2> QED
    BY <1>1, <1>3, <1>6, <1>7, <1>8, <1>9, <1>10, <1>11, <1>14, <2>1, CountsSides
<1>16. WhenOver'
  <2>1. CASE out = "too many"
    <3>1. inRow >= MaxReports
      <4>1. count[n] + 1 >= MaxReports
        BY <1>11, <2>1
      <4> QED
        BY <1>0, <1>6, <1>10, <4>1
    <3> QED
      BY <1>1, <1>9, <1>13, <2>1, <3>1 DEF WhenOver
  <2>2. CASE out # "too many"
    BY <1>1, <1>4, <1>5, <1>11, <2>2 DEF WhenOver, Over
  <2> QED
    BY <2>1, <2>2
<1>17. OfPair({n, m})'
  BY <1>1, <1>7, <1>11 DEF OfPair
<1> QED
  BY <1>3, <1>6, <1>13, <1>15, <1>16, <1>17, BothSides

\* The first link is made.
LEMMA LinkFirst ==
  ASSUME ProtocolInv, NoLinkYet, NEW i \in Nodes, NEW j \in Nodes, Link(i, j)
  PROVE  i # j /\ FirstLink({i, j})'
<1>0. /\ TypeOK /\ inRow \in Nat /\ states \in [Nodes -> SUBSET Nodes]
  BY FirstTypes DEF ProtocolInv
<1>1. /\ i # j
      /\ states' = [n \in Nodes |->
                      CASE n = i /\ Open(i) -> states[i] \union {j}
                        [] n = j /\ Open(j) -> states[j] \union {i}
                        [] OTHER -> states[n]]
      /\ asked' = IF Open(i) THEN [asked EXCEPT ![i][<<j, "SEND_OFFER">>] = @ + 1] ELSE asked
      /\ UNCHANGED <<reports, count, closed, sent, relays, joined, inRow, losses>>
  BY DEF Link
<1>2. /\ Quiet /\ ~Over /\ joined = {}
      /\ \A n \in Nodes : states[n] = {} /\ count[n] = 0
  BY DEF NoLinkYet
<1>3. /\ states'[i] = IF Open(i) THEN {j} ELSE {}
      /\ states'[j] = IF Open(j) THEN {i} ELSE {}
      /\ \A n \in Nodes \ {i, j} : states'[n] = {}
  BY <1>1, <1>2
<1>4. OfPair({i, j})'
  BY <1>1, <1>2, <1>3 DEF OfPair
<1>5. ~Over'
  BY <1>1, <1>2 DEF Over
<1>6. NoneAsked /\ NoneSent' /\ NoneCarried'
  BY <1>1, <1>2 DEF Quiet, NoneAsked, NoneSent, NoneCarried
<1>7. OneThing({i, j})' /\ (Quiet' \/ OnlyAsked(i, j, "SEND_OFFER")')
  <2>1. CASE Open(i)
    <3>1. "SEND_OFFER" \in Answers
      BY DEF Answers
    <3> QED
      BY <1>0, <1>1, <1>6, <2>1, <3>1, ThenAsked
  <2>2. CASE ~Open(i)
    BY <1>1, <1>6, <2>2 DEF Quiet, NoneAsked, OneThing
  <2> QED
    BY <2>1, <2>2
<1>8. ASSUME NEW n \in {i, j}, NEW m \in {i, j}, n # m
      PROVE  Side(n, m)'
  <2>1. ~Due(n, m)' /\ ~ToVerify(n, m)'
    <3>1. CASE Quiet'
      BY <1>8, <3>1, Afterwards DEF QuietMeans
    <3>2. CASE OnlyAsked(i, j, "SEND_OFFER")'
      BY <1>8, <3>2, Afterwards DEF AskedMeans
    <3> QED
      BY <1>7, <3>1, <3>2
  <2>2. Counted(n, m)'
    <3>1. count'[n] + 0 <= inRow'
      BY <1>0, <1>1, <1>2, <1>8
    <3> QED
      BY <2>1, <3>1 DEF Counted
  <2>3. Mutual(n, m)'
    BY <1>1, <1>3, <1>8 DEF Mutual, Linked, Open
  <2> QED
    BY <1>1, <1>2, <2>1, <2>2, <2>3 DEF Side, Verifiable, Separate
<1> QED
  BY <1>1, <1>4, <1>5, <1>7, <1>8, BothSides DEF WhenOver

\* Before the first link only nodes come and go, and clients are closed.
LEMMA BeforeFirst ==
  ASSUME ProtocolInv, NoLinkYet, Next, \A i, j \in Nodes : ~Link(i, j)
  PROVE  NoLinkYet' /\ made' = made
<1>0. /\ asked \in [Nodes -> [Nodes \X Answers -> Nat]] /\ sent \in [Nodes -> Seq(Sent)]
      /\ closed \in [Nodes -> {"no", "reports", "client"}]
      /\ count \in [Nodes -> Nat]
  BY FirstTypes DEF ProtocolInv
<1>1. /\ \A n \in Nodes : \A q \in Nodes \X Answers : asked[n][q] = 0
      /\ \A n \in Nodes : sent[n] = <<>>
      /\ \A r \in Messages : ~(relays[r] > 0)
      /\ \A n \in Nodes : states[n] = {} /\ count[n] = 0 /\ closed[n] # "reports"
      /\ joined = {}
  BY DEF NoLinkYet, Quiet, NoneAsked, NoneSent, NoneCarried, Over
<1>2. ASSUME NEW i \in Nodes, NEW j \in Nodes PROVE ~Unlink(i, j)
  BY <1>1 DEF Unlink
<1>3. ASSUME NEW i \in Nodes, NEW j \in Nodes, NEW op \in Answers PROVE ~ClientStep(i, j, op)
  <2>1. \A o \in Answers : \A ok : ~Answer(i, j, o, ok)
    BY <1>1 DEF Answer
  <2> QED
    BY <2>1 DEF ClientStep, AnswerOffer, Connects, FailsToConnect, Verifies
<1>4. ASSUME NEW i \in Nodes, NEW j \in Nodes, NEW s PROVE ~Lose(i, j, s)
  BY <1>1 DEF Lose
<1>5. ASSUME NEW n \in Nodes PROVE ~Handle(n)
  BY <1>1 DEF Handle, SendOffer, SendAnswer, NodeConnected, NodeVerified, NodeNotConnected,
              NodeReported, Takes
<1>6. ASSUME NEW r \in Messages PROVE ~Delivery(r)
  BY <1>1 DEF Delivery, Drop, Ask, Notified, Reaches
<1>7. \E n \in Nodes : Leave(n) \/ NotCompliant(n)
  BY <1>2, <1>3, <1>4, <1>5, <1>6 DEF Next
<1>8. PICK x \in Nodes : Leave(x) \/ NotCompliant(x)
  BY <1>7
<1>9. CASE Leave(x)
  <2>1. /\ closed' = [closed EXCEPT ![x] = "no"]
        /\ asked' = [asked EXCEPT ![x] = [q \in Nodes \X Answers |-> 0]]
        /\ sent' = [sent EXCEPT ![x] = <<>>]
        /\ joined' = {p \in joined : x \notin p}
        /\ UNCHANGED <<relays, inRow, made, losses>>
        /\ \A n \in Nodes : states'[n] \subseteq states[n]
        /\ \A n \in Nodes : count'[n] = count[n] \/ count'[n] = 0
    BY <1>9 DEF Leave, DisconnectNode
  <2>2. \A n \in Nodes : n # x => sent'[n] = sent[n] /\ asked'[n] = asked[n] /\ closed'[n] = closed[n]
    BY <1>0, <2>1
  <2>3. sent'[x] = <<>> /\ asked'[x] = [q \in Nodes \X Answers |-> 0] /\ closed'[x] = "no"
    BY <1>0, <2>1
  <2>4. NoneAsked' /\ NoneSent'
    BY <1>1, <2>2, <2>3 DEF NoneAsked, NoneSent
  <2>5. NoneCarried'
    BY <2>1 DEF NoLinkYet, Quiet, NoneCarried
  <2>6. ~Over'
    BY <1>1, <2>1, <2>2, <2>3 DEF Over
  <2>7. joined' = {} /\ \A n \in Nodes : states'[n] = {} /\ count'[n] = 0
    BY <1>1, <2>1
  <2> QED
    BY <2>1, <2>4, <2>5, <2>6, <2>7 DEF NoLinkYet, Quiet
<1>10. CASE NotCompliant(x)
  <2>1. /\ closed' = [closed EXCEPT ![x] = "client"]
        /\ UNCHANGED <<states, reports, count, asked, sent, joined, inRow, relays, made, losses>>
    BY <1>10 DEF NotCompliant, clientVars
  <2>2. ~Over'
    BY <1>0, <1>1, <2>1 DEF Over
  <2> QED
    BY <2>1, <2>2 DEF NoLinkYet, Quiet, NoneAsked, NoneSent, NoneCarried
<1> QED
  BY <1>8, <1>9, <1>10

\* Only Link makes a link.
LEMMA MadeByLink ==
  ASSUME Next, \A i, j \in Nodes : ~Link(i, j)
  PROVE  made' = made
<1>1. ASSUME NEW i \in Nodes, NEW j \in Nodes, Unlink(i, j) PROVE made' = made
  BY <1>1 DEF Unlink
<1>2. ASSUME NEW i \in Nodes, NEW j \in Nodes, NEW op \in Answers, ClientStep(i, j, op)
      PROVE  made' = made
  BY <1>2 DEF ClientStep, AnswerOffer, Connects, FailsToConnect, Verifies, Answer
<1>3. ASSUME NEW i \in Nodes, NEW j \in Nodes, NEW s, Lose(i, j, s) PROVE made' = made
  BY <1>3 DEF Lose
<1>4. ASSUME NEW n \in Nodes, Leave(n) PROVE made' = made
  BY <1>4 DEF Leave
<1>5. ASSUME NEW n \in Nodes, Handle(n) PROVE made' = made
  BY <1>5 DEF Handle, SendOffer, SendAnswer, NodeConnected, NodeVerified, NodeNotConnected,
              NodeReported, Takes
<1>6. ASSUME NEW n \in Nodes, NotCompliant(n) PROVE made' = made
  BY <1>6 DEF NotCompliant
<1>7. ASSUME NEW r \in Messages, Delivery(r) PROVE made' = made
  BY <1>7 DEF Delivery, Drop, Ask, Notified, Reaches
<1> QED
  BY <1>1, <1>2, <1>3, <1>4, <1>5, <1>6, <1>7 DEF Next

\* A step on the first link.
LEMMA OnFirst ==
  ASSUME ProtocolInv, Calm, MaxUniqueReports >= 2,
         NEW i \in Nodes, NEW j \in Nodes, i # j, FirstLink({i, j}),
         Next, \A x, y \in Nodes : ~Link(x, y)
  PROVE  FirstLink({i, j})'
<1>1. ASSUME NEW x \in Nodes, NEW y \in Nodes, Unlink(x, y) PROVE FirstLink({i, j})'
  BY <1>1, UnlinkFirst
<1>2. ASSUME NEW x \in Nodes, NEW y \in Nodes, NEW op \in Answers, ClientStep(x, y, op)
      PROVE  FirstLink({i, j})'
  BY <1>2, ClientFirst
<1>3. ASSUME NEW x \in Nodes, NEW y \in Nodes, NEW s, Lose(x, y, s) PROVE FirstLink({i, j})'
  BY <1>3, LoseFirst
<1>4. ASSUME NEW x \in Nodes, Leave(x) PROVE FirstLink({i, j})'
  BY <1>4, LeaveFirst
<1>5. ASSUME NEW n \in Nodes, Handle(n) PROVE FirstLink({i, j})'
  <2>1. PICK m \in Nodes :
          \/ SendOffer(n, m) \/ SendAnswer(n, m) \/ NodeConnected(n, m)
          \/ NodeVerified(n, m) \/ NodeNotConnected(n, m) \/ NodeReported(n, m)
    BY <1>5 DEF Handle
  <2>2. CASE SendOffer(n, m)
    <3>1. Takes(n, "SEND_OFFER", m, TRUE) /\ Passes(n, m, "offer")
      BY <2>2 DEF SendOffer
    <3> QED
      BY <3>1, PassFirst
  <2>3. CASE SendAnswer(n, m)
    <3>1. Takes(n, "ANSWER_OFFER", m, TRUE) /\ Passes(n, m, "answer")
      BY <2>3 DEF SendAnswer
    <3> QED
      BY <3>1, PassFirst
  <2>4. CASE NodeConnected(n, m) \/ NodeVerified(n, m)
    BY <2>4, ConnectedFirst
  <2>5. CASE NodeNotConnected(n, m) \/ NodeReported(n, m)
    BY <2>5, FailedFirst
  <2> QED
    BY <2>1, <2>2, <2>3, <2>4, <2>5
<1>6. ASSUME NEW x \in Nodes, NotCompliant(x) PROVE FirstLink({i, j})'
  BY <1>6, CloseFirst
<1>7. ASSUME NEW r \in Messages, Delivery(r) PROVE FirstLink({i, j})'
  <2>1. CASE Drop(r)
    BY <2>1, DropFirst
  <2>2. CASE Ask(r)
    BY <2>2, AskFirst
  <2>3. CASE Notified(r) /\ r.what = "FINAL"
    BY <2>3, FinalFirst
  <2>4. CASE Notified(r) /\ r.what # "FINAL"
    BY <2>4, NotifiedFirst
  <2> QED
    BY <1>7, <2>1, <2>2, <2>3, <2>4 DEF Delivery
<1> QED
  BY <1>1, <1>2, <1>3, <1>4, <1>5, <1>6, <1>7 DEF Next

\* The invariant holds at the start, while nothing happens, and after every step.
LEMMA FirstInit ==
  ASSUME Init
  PROVE  FirstInv
<1>1. Quiet /\ ~Over /\ joined = {} /\ \A n \in Nodes : states[n] = {} /\ count[n] = 0
  BY DEF Init, Quiet, NoneAsked, NoneSent, NoneCarried, Over
<1>2. made = 0
  BY DEF Init
<1> QED
  BY <1>1, <1>2 DEF FirstInv, NoLinkYet

LEMMA FirstUnchanged ==
  ASSUME FirstInv, UNCHANGED vars
  PROVE  FirstInv'
<1>1. UNCHANGED <<states, reports, count, closed, asked, sent, joined, inRow, relays, made, losses>>
  BY DEF vars, managerVars, clientVars
<1>2. /\ Quiet' <=> Quiet
      /\ Over' <=> Over
      /\ \A n, m, op : OnlyAsked(n, m, op)' <=> OnlyAsked(n, m, op)
      /\ \A n, e : OnlySent(n, e)' <=> OnlySent(n, e)
      /\ \A t : OnlyCarried(t)' <=> OnlyCarried(t)
  BY <1>1 DEF Quiet, Over, NoneAsked, NoneSent, NoneCarried, OnlyAsked, OnlySent, OnlyCarried
<1>3. \A P : (OneThing(P)' <=> OneThing(P)) /\ (OfPair(P)' <=> OfPair(P))
  BY <1>1, <1>2 DEF OneThing, OfPair
<1>4. \A n, m : Side(n, m)' <=> Side(n, m)
  BY <1>1 DEF Side, Counted, Verifiable, Mutual, Separate, Linked, Clears, Due, ToVerify,
              Failure, Noticed, Open
<1>5. \A P : FirstLink(P) => FirstLink(P)'
  BY <1>1, <1>2, <1>3, <1>4 DEF FirstLink, WhenOver
<1> QED
  BY <1>1, <1>2, <1>5 DEF FirstInv, NoLinkYet

LEMMA FirstStep ==
  ASSUME ProtocolInv, FirstInv, Calm, MaxUniqueReports >= 2, Next
  PROVE  FirstInv'
<1>1. made \in Nat
  BY DEF ProtocolInv, TypeOK
<1>2. ASSUME NEW x \in Nodes, NEW y \in Nodes, Link(x, y) PROVE FirstInv'
  <2>1. made' = made + 1
    BY <1>2 DEF Link
  <2>2. CASE made = 0
    <3>1. x # y /\ FirstLink({x, y})'
      BY <1>2, <2>2, LinkFirst DEF FirstInv
    <3>2. made' # 0
      BY <2>1, <2>2
    <3>3. (\E i, j \in Nodes : i # j /\ FirstLink({i, j}))'
      BY <3>1
    <3> QED
      BY <3>2, <3>3, Zenon DEF FirstInv
  <2>3. CASE made # 0
    BY <1>1, <2>1, <2>3 DEF FirstInv
  <2> QED
    BY <2>2, <2>3
<1>3. ASSUME \A x, y \in Nodes : ~Link(x, y) PROVE FirstInv'
  <2>1. made' = made
    BY <1>3, MadeByLink
  <2>2. CASE made = 0
    <3>1. NoLinkYet'
      BY <1>3, <2>2, BeforeFirst DEF FirstInv
    <3> QED
      BY <2>1, <2>2, <3>1 DEF FirstInv
  <2>3. CASE made = 1
    <3>1. PICK i \in Nodes, j \in Nodes : i # j /\ FirstLink({i, j})
      BY <2>3 DEF FirstInv
    <3>2. FirstLink({i, j})'
      BY <1>3, <3>1, OnFirst
    <3>3. made' # 0
      BY <2>1, <2>3
    <3>4. (\E k, l \in Nodes : k # l /\ FirstLink({k, l}))'
      BY <3>1, <3>2
    <3> QED
      BY <3>3, <3>4, Zenon DEF FirstInv
  <2>4. CASE made # 0 /\ made # 1
    BY <2>1, <2>4 DEF FirstInv
  <2> QED
    BY <2>2, <2>3, <2>4
<1> QED
  BY <1>2, <1>3

\* On a first link at most one thing is under way for its two ends, a request, a
\* client's message or a relay, and neither manager has counted more failures than
\* there were in a row: a report is counted at the other end, and answered with a
\* new attempt, before there can be another (nodeReported to notifyReportNode).
THEOREM FirstLinkInvariant ==
  ASSUME Calm, MaxUniqueReports >= 2
  PROVE  Spec => []FirstInv
<1>1. Init => FirstInv
  BY FirstInit
<1>2. ProtocolInv /\ FirstInv /\ [Next]_vars => FirstInv'
  BY FirstStep, FirstUnchanged
<1>3. Spec => []ProtocolInv
  BY ProtocolInvariant
<1> QED
  BY <1>1, <1>2, <1>3, PTL DEF Spec

\* On a first link no client is closed for its reports (reportNode) before the two
\* failed MAX_REPORTS times in a row, whatever MAX_REPORTS is.
THEOREM ClosedOnlyAfterFailures ==
  ASSUME Calm, MaxUniqueReports >= 2
  PROVE  Spec => []ClosedAfterFailures
<1>1. FirstInv => ClosedAfterFailures
  BY DEF FirstInv, ClosedAfterFailures, FirstLink, WhenOver, Over
<1> QED
  BY <1>1, FirstLinkInvariant, PTL
==============================================================================
