----------------------- MODULE NodeProtocolLinkProofs -----------------------
(***************************************************************************)
(* No link is forgotten, and nothing is held against it once all has been  *)
(* said: proofs for any set of nodes, any MAX_REPORTS and                  *)
(* MAX_UNIQUE_REPORTS and any number of links and losses, when connections *)
(* are lost in the calm way (see Lose).  The messages overtake each other, *)
(* links end and nodes leave and come again at any moment.                 *)
(*                                                                         *)
(* The invariant is about the two ends of a link.  It says which message   *)
(* under way will have them connected or their reports cleared, and that a *)
(* client's report travels alone: what could clear it was handled before.  *)
(***************************************************************************)
EXTENDS NodeProtocolProofs, FiniteSetTheorems

Connecting == {"SEND_OFFER", "ANSWER_OFFER", "CONNECT_NODE"}

(* What a client's messages s say about m. *)
Says(s, m, op) == \E k \in DOMAIN s : s[k].node = m /\ s[k].op = op
Confirming(e, m) == e.node = m /\ e.op = "VERIFY_NODE_CONNECTED" /\ e.ok = TRUE
Denying(e, m) == e.node = m /\ e.op = "VERIFY_NODE_CONNECTED" /\ e.ok = FALSE
Confirms(s, m) == \E k \in DOMAIN s : Confirming(s[k], m)
Denies(s, m) == \E k \in DOMAIN s : Denying(s[k], m)

\* Nothing about m comes before a report of m.
ReportFirst(s, m) ==
  \A k, l \in DOMAIN s :
    s[k].node = m /\ s[k].op = "REPORT_NODE" /\ l < k => s[l].node # m

Carried(n, m, what) == relays[Message(n, m, what)] > 0
Asked(n, m, op) == asked[n][<<m, op>>] > 0

\* n's end has the two connect, or the verification failed and will be reported.
Tries(n, m) ==
  \/ \E op \in Connecting : Asked(n, m, op) \/ Says(sent[n], m, op)
  \/ Denies(sent[n], m)
  \/ \E what \in {"offer", "answer", "NOT_CONNECTING"} : Carried(n, m, what)

Trying(n, m) == Tries(n, m) \/ Tries(m, n)

\* m is connected to n and asks n to verify it.
Verifying(n, m) == Carried(m, n, "verify") \/ Asked(n, m, "VERIFY_NODE_CONNECTED")

\* m's report of n will have n connect again.
Heard(n, m) == Carried(m, n, "DISCONNECT") /\ reports[n][m] = None

\* n's client reports m, to two managers that know nothing yet.
Told(n, m) ==
  Says(sent[n], m, "REPORT_NODE") /\ reports[n][m] = None /\ reports[m][n] = None

\* While a client's report waits nothing is under way that would take it for
\* an old one, or clear it.
ReportAlone(n, m) ==
  Says(sent[n], m, "REPORT_NODE") =>
    /\ ~Says(sent[m], n, "REPORT_NODE") /\ ~Says(sent[m], n, "VERIFY_NODE_CONNECTED")
    /\ ~Carried(n, m, "DISCONNECT") /\ ~Carried(m, n, "DISCONNECT")
    /\ ~Verifying(m, n)

\* A report that n has of m will be cleared.
WillClear(n, m) ==
  LinkKept(n, m) /\ reports[n][m] # None =>
    Trying(n, m) \/ Verifying(n, m) \/ Confirms(sent[n], m) \/ Heard(m, n)

\* Clients that are not connected will be.
WillConnect(n, m) ==
  LinkKept(n, m) /\ {n, m} \notin joined =>
    \/ Trying(n, m) \/ Verifying(n, m) \/ Verifying(m, n)
    \/ Told(n, m) \/ Told(m, n) \/ Heard(n, m) \/ Heard(m, n)

Ends(n, m) == ReportFirst(sent[n], m) /\ ReportAlone(n, m) /\ WillClear(n, m)
Pair(n, m) == Ends(n, m) /\ Ends(m, n) /\ WillConnect(n, m)

LinkInv ==
  \A n \in Nodes : n \notin states[n] /\ \A m \in Nodes : n # m => Pair(n, m)

----------------------------------------------------------------------------
(* Messages of a client *)

\* Only a verification confirms or denies.
LEMMA ConfirmingFacts ==
  ASSUME NEW e, NEW m, e.node # m \/ e.op # "VERIFY_NODE_CONNECTED"
  PROVE  ~Confirming(e, m) /\ ~Denying(e, m)
BY DEF Confirming, Denying

\* A message that is appended says what it says, and comes last.
LEMMA AppendSays ==
  ASSUME NEW s \in Seq(Sent), NEW e \in Sent, NEW m
  PROVE  /\ \A op : Says(Append(s, e), m, op) <=> Says(s, m, op) \/ (e.node = m /\ e.op = op)
         /\ Confirms(Append(s, e), m) <=> Confirms(s, m) \/ Confirming(e, m)
         /\ Denies(Append(s, e), m) <=> Denies(s, m) \/ Denying(e, m)
         /\ ReportFirst(s, m) /\ (e.node = m /\ e.op = "REPORT_NODE" => \A op : ~Says(s, m, op))
              => ReportFirst(Append(s, e), m)
<1>1. /\ DOMAIN s = 1..Len(s) /\ Len(s) \in Nat
      /\ DOMAIN Append(s, e) = 1..(Len(s) + 1)
      /\ \A k \in 1..Len(s) : Append(s, e)[k] = s[k]
      /\ Append(s, e)[Len(s) + 1] = e
  OBVIOUS
<1> DEFINE t == Append(s, e)
<1> HIDE DEF t
<1>2. /\ DOMAIN t = 1..(Len(s) + 1) /\ t[Len(s) + 1] = e
      /\ \A k \in DOMAIN s : k \in DOMAIN t /\ t[k] = s[k]
      /\ \A k \in DOMAIN t : k \in DOMAIN s \/ k = Len(s) + 1
      /\ Len(s) + 1 \in DOMAIN t
  BY <1>1 DEF t
<1>3. \A op : Says(t, m, op) <=> Says(s, m, op) \/ (e.node = m /\ e.op = op)
  BY <1>2 DEF Says
<1>4. /\ Confirms(t, m) <=> Confirms(s, m) \/ Confirming(e, m)
      /\ Denies(t, m) <=> Denies(s, m) \/ Denying(e, m)
  BY <1>2 DEF Confirms, Denies
<1>5. ASSUME ReportFirst(s, m), e.node = m /\ e.op = "REPORT_NODE" => \A op : ~Says(s, m, op)
      PROVE  ReportFirst(t, m)
  <2> SUFFICES ASSUME NEW k \in DOMAIN t, NEW l \in DOMAIN t,
                      t[k].node = m, t[k].op = "REPORT_NODE", l < k
               PROVE  t[l].node # m
    BY DEF ReportFirst
  <2>1. l \in DOMAIN s
    BY <1>1, <1>2
  <2>2. CASE k \in DOMAIN s
    BY <1>2, <1>5, <2>1, <2>2 DEF ReportFirst
  <2>3. CASE k = Len(s) + 1
    BY <1>2, <1>5, <2>1, <2>3 DEF Says
  <2> QED
    BY <1>2, <2>2, <2>3
<1> QED
  BY <1>3, <1>4, <1>5 DEF t

\* When the first message is taken the others stay; a report has nothing about
\* its node before it.
LEMMA TailSays ==
  ASSUME NEW s \in Seq(Sent), s # <<>>, NEW m
  PROVE  /\ \A op : Says(Tail(s), m, op) => Says(s, m, op)
         /\ \A op : Says(s, m, op) =>
                      Says(Tail(s), m, op) \/ (Head(s).node = m /\ Head(s).op = op)
         /\ Confirms(Tail(s), m) => Confirms(s, m)
         /\ Denies(Tail(s), m) => Denies(s, m)
         /\ Confirms(s, m) => Confirms(Tail(s), m) \/ Confirming(Head(s), m)
         /\ Denies(s, m) => Denies(Tail(s), m) \/ Denying(Head(s), m)
         /\ Says(s, Head(s).node, Head(s).op)
         /\ ReportFirst(s, m) => ReportFirst(Tail(s), m)
         /\ ReportFirst(s, m) /\ Head(s).node = m => ~Says(Tail(s), m, "REPORT_NODE")
<1>1. /\ DOMAIN s = 1..Len(s) /\ Len(s) \in Nat \ {0}
      /\ DOMAIN Tail(s) = 1..(Len(s) - 1)
      /\ \A k \in 1..(Len(s) - 1) : Tail(s)[k] = s[k + 1]
      /\ Head(s) = s[1]
  OBVIOUS
<1> DEFINE t == Tail(s)
<1> HIDE DEF t
<1>2. /\ \A k \in DOMAIN t : k + 1 \in DOMAIN s /\ t[k] = s[k + 1] /\ k \in Nat /\ 1 < k + 1
      /\ \A k \in DOMAIN s : k = 1 \/ (k - 1 \in DOMAIN t /\ t[k - 1] = s[k])
      /\ 1 \in DOMAIN s /\ Head(s) = s[1]
  BY <1>1 DEF t
<1>3. /\ \A op : Says(t, m, op) => Says(s, m, op)
      /\ (Confirms(t, m) => Confirms(s, m)) /\ (Denies(t, m) => Denies(s, m))
  BY <1>2 DEF Says, Confirms, Denies
<1>4. \A op : Says(s, m, op) => Says(t, m, op) \/ (Head(s).node = m /\ Head(s).op = op)
  BY <1>2 DEF Says
<1>5. /\ Confirms(s, m) => Confirms(t, m) \/ Confirming(Head(s), m)
      /\ Denies(s, m) => Denies(t, m) \/ Denying(Head(s), m)
  BY <1>2 DEF Confirms, Denies
<1>6. Says(s, Head(s).node, Head(s).op)
  BY <1>2 DEF Says
<1>7. ReportFirst(s, m) => ReportFirst(t, m)
  <2> SUFFICES ASSUME ReportFirst(s, m), NEW k \in DOMAIN t, NEW l \in DOMAIN t,
                      t[k].node = m, t[k].op = "REPORT_NODE", l < k
               PROVE  t[l].node # m
    BY DEF ReportFirst
  <2>1. l + 1 < k + 1
    BY <1>2
  <2> QED
    BY <1>2, <2>1 DEF ReportFirst
<1>8. ReportFirst(s, m) /\ Head(s).node = m => ~Says(t, m, "REPORT_NODE")
  BY <1>2 DEF ReportFirst, Says
<1> QED
  BY <1>3, <1>4, <1>5, <1>6, <1>7, <1>8 DEF t

----------------------------------------------------------------------------
(* Two ends of a link *)

Whats == {"offer", "answer", "verify", "FINAL"} \union Codes

\* The state in types, as the proofs use it.
LEMMA Types ==
  ASSUME TypeOK
  PROVE  /\ states \in [Nodes -> SUBSET Nodes]
         /\ reports \in [Nodes -> [Nodes -> Codes \union {None}]]
         /\ closed \in [Nodes -> {"no", "reports", "client"}]
         /\ asked \in [Nodes -> [Nodes \X Answers -> Nat]]
         /\ sent \in [Nodes -> Seq(Sent)]
         /\ relays \in [Messages -> Nat]
BY DEF TypeOK, Sent

\* What is under way between different nodes.
LEMMA MessageFacts ==
  ASSUME NEW n \in Nodes, NEW m \in Nodes, n # m, NEW what \in Whats
  PROVE  /\ Message(n, m, what) \in Messages
         /\ Message(n, m, what).from = n /\ Message(n, m, what).to = m
         /\ Message(n, m, what).what = what
BY DEF Message, Messages, Whats

\* Two messages are the same when they go the same way and say the same.
LEMMA MessageIs ==
  ASSUME NEW r \in Messages
  PROVE  r = Message(r.from, r.to, r.what) /\ r.from \in Nodes /\ r.to \in Nodes
         /\ r.from # r.to /\ r.what \in Whats
BY DEF Message, Messages, Whats

\* A step does not touch what n's end of the link to m has, but that n may be closed.
Untouched(n, m) ==
  /\ m \in states'[n] => m \in states[n]
  /\ closed'[n] = "no" => closed[n] = "no"
  /\ reports'[n][m] = reports[n][m]
  /\ \A op \in Answers : asked'[n][<<m, op>>] = asked[n][<<m, op>>]
  /\ \A what \in Whats : relays'[Message(n, m, what)] = relays[Message(n, m, what)]
  /\ \A op : Says(sent'[n], m, op) <=> Says(sent[n], m, op)
  /\ Confirms(sent'[n], m) <=> Confirms(sent[n], m)
  /\ Denies(sent'[n], m) <=> Denies(sent[n], m)
  /\ ReportFirst(sent[n], m) => ReportFirst(sent'[n], m)

\* An end of a link that a step does not touch, at either side, stays as it is.
LEMMA UntouchedEnds ==
  ASSUME NEW n \in Nodes, NEW m \in Nodes, Ends(n, m), Untouched(n, m), Untouched(m, n)
  PROVE  /\ Ends(n, m)'
         /\ LinkKept(n, m)' => LinkKept(n, m)
         /\ Trying(n, m)' <=> Trying(n, m)
         /\ Verifying(n, m)' <=> Verifying(n, m)
         /\ Told(n, m)' <=> Told(n, m)
         /\ Heard(n, m)' <=> Heard(n, m)
<1>1. LinkKept(n, m)' => LinkKept(n, m)
  BY DEF LinkKept, Open, Untouched
<1>2. (Tries(n, m)' <=> Tries(n, m)) /\ (Tries(m, n)' <=> Tries(m, n))
  BY DEF Untouched, Tries, Asked, Carried, Connecting, Answers, Whats, Codes
<1>3. (Carried(n, m, "DISCONNECT")' <=> Carried(n, m, "DISCONNECT"))
      /\ (Carried(m, n, "DISCONNECT")' <=> Carried(m, n, "DISCONNECT"))
  BY DEF Untouched, Carried, Whats, Codes
<1>4. (Verifying(n, m)' <=> Verifying(n, m)) /\ (Verifying(m, n)' <=> Verifying(m, n))
  BY DEF Untouched, Verifying, Asked, Carried, Whats, Answers
<1>5. (Told(n, m)' <=> Told(n, m)) /\ (Heard(n, m)' <=> Heard(n, m))
      /\ (Heard(m, n)' <=> Heard(m, n))
  BY <1>3 DEF Untouched, Told, Heard
<1>6. (Trying(n, m)' <=> Trying(n, m))
  BY <1>2 DEF Trying
<1>7. ReportFirst(sent[n], m)'
  BY DEF Untouched, Ends
<1>8. ReportAlone(n, m)'
  BY <1>3, <1>4 DEF Untouched, Ends, ReportAlone
<1>9. WillClear(n, m)'
  BY <1>1, <1>4, <1>5, <1>6 DEF Untouched, Ends, WillClear
<1> QED
  BY <1>1, <1>4, <1>5, <1>6, <1>7, <1>8, <1>9 DEF Ends

\* So does the pair, and its connection.
LEMMA UntouchedPair ==
  ASSUME NEW n \in Nodes, NEW m \in Nodes, Pair(n, m), Untouched(n, m), Untouched(m, n),
         {n, m} \in joined' <=> {n, m} \in joined
  PROVE  Pair(n, m)'
<1>1. Ends(n, m) /\ Ends(m, n) /\ WillConnect(n, m)
  BY DEF Pair
<1>2. Trying(n, m)' <=> Trying(n, m)
  BY <1>1, UntouchedEnds
<1>3. WillConnect(n, m)'
  BY <1>1, <1>2, UntouchedEnds DEF WillConnect
<1> QED
  BY <1>1, <1>3, UntouchedEnds DEF Pair

\* A pair may be looked at from either end.
LEMMA PairBackNext ==
  ASSUME NEW n, NEW m, Pair(n, m)'
  PROVE  Pair(m, n)'
<1>1. {n, m} = {m, n} /\ (LinkKept(n, m)' <=> LinkKept(m, n)')
      /\ (Trying(n, m)' <=> Trying(m, n)')
  BY DEF LinkKept, Trying
<1> QED
  BY <1>1 DEF Pair, WillConnect

\* A step about the link of i and j leaves the others alone.
LEMMA OnePair ==
  ASSUME LinkInv, NEW i \in Nodes, NEW j \in Nodes,
         \A n, m \in Nodes :
           n # m /\ {n, m} # {i, j} =>
             Untouched(n, m) /\ ({n, m} \in joined' <=> {n, m} \in joined),
         \A n \in Nodes : n \notin states'[n],
         i # j => Pair(i, j)'
  PROVE  LinkInv'
<1> SUFFICES ASSUME NEW n \in Nodes, NEW m \in Nodes, n # m PROVE Pair(n, m)'
  BY DEF LinkInv
<1>1. CASE {n, m} # {i, j}
  <2>1. {n, m} = {m, n}
    OBVIOUS
  <2> QED
    BY <1>1, <2>1, UntouchedPair DEF LinkInv
<1>2. CASE {n, m} = {i, j}
  <2>1. (n = i /\ m = j) \/ (n = j /\ m = i)
    BY <1>2
  <2> QED
    BY <2>1, PairBackNext
<1> QED
  BY <1>1, <1>2

----------------------------------------------------------------------------
(* What the steps change *)

\* A request about y that x's client has to answer, more or less.
OneMore(x, y, op) == asked' = [asked EXCEPT ![x][<<y, op>>] = @ + 1]
OneLess(x, y, op) == asked' = [asked EXCEPT ![x][<<y, op>>] = @ - 1]

\* One request more, or one less, leaves the others alone.
LEMMA AskedChange ==
  ASSUME TypeOK, NEW x \in Nodes, NEW y \in Nodes, NEW op \in Answers,
         OneMore(x, y, op) \/ OneLess(x, y, op)
  PROVE  /\ \A n, m \in Nodes : \A q \in Answers :
              n # x \/ m # y \/ q # op => asked'[n][<<m, q>>] = asked[n][<<m, q>>]
         /\ OneMore(x, y, op) => Asked(x, y, op)'
<1>1. asked \in [Nodes -> [Nodes \X Answers -> Nat]] /\ <<y, op>> \in Nodes \X Answers
  BY Types
<1>2. PICK v : /\ asked' = [asked EXCEPT ![x][<<y, op>>] = v]
               /\ OneMore(x, y, op) => v = asked[x][<<y, op>>] + 1
  <2>1. CASE OneMore(x, y, op)
    BY <2>1 DEF OneMore
  <2>2. CASE ~OneMore(x, y, op)
    BY <2>2 DEF OneLess
  <2> QED
    BY <2>1, <2>2
<1>3. asked'[x] = [asked[x] EXCEPT ![<<y, op>>] = v] /\ asked[x] \in [Nodes \X Answers -> Nat]
  BY <1>1, <1>2
<1>4. OneMore(x, y, op) => Asked(x, y, op)'
  BY <1>1, <1>2, <1>3 DEF Asked
<1>5. ASSUME NEW n \in Nodes, NEW m \in Nodes, NEW q \in Answers, n # x \/ m # y \/ q # op
      PROVE  asked'[n][<<m, q>>] = asked[n][<<m, q>>]
  <2>1. CASE n # x
    BY <1>1, <1>2, <2>1
  <2>2. CASE n = x
    <3>1. <<m, q>> # <<y, op>> /\ <<m, q>> \in Nodes \X Answers
      BY <1>5, <2>2
    <3> QED
      BY <1>3, <2>2, <3>1
  <2> QED
    BY <2>1, <2>2
<1> QED
  BY <1>4, <1>5

\* One more goroutine for a message.
LEMMA WithChange ==
  ASSUME NEW msgs \in [Messages -> Nat], NEW x \in Nodes, NEW y \in Nodes, x # y, NEW v \in Whats
  PROVE  /\ \A n, m \in Nodes : \A w \in Whats :
              n # m /\ (n # x \/ m # y \/ w # v) =>
                With(msgs, Message(x, y, v))[Message(n, m, w)] = msgs[Message(n, m, w)]
         /\ With(msgs, Message(x, y, v))[Message(x, y, v)] = msgs[Message(x, y, v)] + 1
         /\ With(msgs, Message(x, y, v))[Message(x, y, v)] > 0
<1>1. Message(x, y, v) \in Messages /\ msgs[Message(x, y, v)] \in Nat
  BY MessageFacts
<1>2. With(msgs, Message(x, y, v))[Message(x, y, v)] = msgs[Message(x, y, v)] + 1
  BY <1>1 DEF With
<1>3. ASSUME NEW n \in Nodes, NEW m \in Nodes, NEW w \in Whats, n # m, n # x \/ m # y \/ w # v
      PROVE  With(msgs, Message(x, y, v))[Message(n, m, w)] = msgs[Message(n, m, w)]
  <2>1. Message(n, m, w) # Message(x, y, v) /\ Message(n, m, w) \in Messages
    BY <1>3, MessageFacts DEF Message
  <2> QED
    BY <2>1 DEF With
<1> QED
  BY <1>1, <1>2, <1>3

\* A goroutine less for the message r.
LEMMA WithoutChange ==
  ASSUME TypeOK, NEW r \in Messages, relays[r] > 0
  PROVE  /\ Without(r) \in [Messages -> Nat]
         /\ \A n, m \in Nodes : \A w \in Whats :
              n # m => /\ Without(r)[Message(n, m, w)] > 0 => relays[Message(n, m, w)] > 0
                       /\ n # r.from \/ m # r.to \/ w # r.what =>
                            Without(r)[Message(n, m, w)] = relays[Message(n, m, w)]
<1>1. relays \in [Messages -> Nat] /\ Without(r) \in [Messages -> Nat]
  BY Types, WithoutType
<1>2. ASSUME NEW n \in Nodes, NEW m \in Nodes, NEW w \in Whats, n # m
      PROVE  /\ Without(r)[Message(n, m, w)] > 0 => relays[Message(n, m, w)] > 0
             /\ n # r.from \/ m # r.to \/ w # r.what =>
                  Without(r)[Message(n, m, w)] = relays[Message(n, m, w)]
  <2>1. Message(n, m, w) \in Messages
    BY <1>2, MessageFacts
  <2>2. n # r.from \/ m # r.to \/ w # r.what => Message(n, m, w) # r
    BY <1>2, MessageFacts
  <2> QED
    BY <1>1, <2>1, <2>2 DEF Without
<1> QED
  BY <1>1, <1>2

\* A client's message about y changes what it says about y only.
LEMMA SentAppend ==
  ASSUME TypeOK, NEW x \in Nodes, NEW e \in Sent, sent' = [sent EXCEPT ![x] = Append(@, e)]
  PROVE  /\ \A n, m \in Nodes : n # x \/ m # e.node =>
              /\ \A op : Says(sent'[n], m, op) <=> Says(sent[n], m, op)
              /\ Confirms(sent'[n], m) <=> Confirms(sent[n], m)
              /\ Denies(sent'[n], m) <=> Denies(sent[n], m)
              /\ ReportFirst(sent[n], m) => ReportFirst(sent'[n], m)
         /\ sent'[x] = Append(sent[x], e) /\ sent[x] \in Seq(Sent)
<1>1. sent \in [Nodes -> Seq(Sent)]
  BY Types
<1>2. sent'[x] = Append(sent[x], e) /\ sent[x] \in Seq(Sent)
      /\ \A n \in Nodes : n # x => sent'[n] = sent[n]
  BY <1>1
<1>3. ASSUME NEW n \in Nodes, NEW m \in Nodes, n # x \/ m # e.node
      PROVE  /\ \A op : Says(sent'[n], m, op) <=> Says(sent[n], m, op)
             /\ Confirms(sent'[n], m) <=> Confirms(sent[n], m)
             /\ Denies(sent'[n], m) <=> Denies(sent[n], m)
             /\ ReportFirst(sent[n], m) => ReportFirst(sent'[n], m)
  BY <1>2, <1>3, AppendSays, ConfirmingFacts
<1> QED
  BY <1>2, <1>3

\* When x's manager takes a message about y, what is said of others stays.
LEMMA SentTail ==
  ASSUME TypeOK, NEW x \in Nodes, NEW op, NEW y, NEW ok, Takes(x, op, y, ok)
  PROVE  /\ \A n, m \in Nodes : n # x \/ m # y =>
              /\ \A q : Says(sent'[n], m, q) <=> Says(sent[n], m, q)
              /\ Confirms(sent'[n], m) <=> Confirms(sent[n], m)
              /\ Denies(sent'[n], m) <=> Denies(sent[n], m)
              /\ ReportFirst(sent[n], m) => ReportFirst(sent'[n], m)
         /\ \A q : Says(sent'[x], y, q) => Says(sent[x], y, q)
         /\ \A q : Says(sent[x], y, q) => Says(sent'[x], y, q) \/ q = op
         /\ (Confirms(sent'[x], y) => Confirms(sent[x], y))
         /\ (Denies(sent'[x], y) => Denies(sent[x], y))
         /\ Confirms(sent[x], y) => Confirms(sent'[x], y) \/ op = "VERIFY_NODE_CONNECTED"
         /\ Denies(sent[x], y) =>
              Denies(sent'[x], y) \/ Denying([op |-> op, node |-> y, ok |-> ok], y)
         /\ Says(sent[x], y, op)
         /\ ReportFirst(sent[x], y) => ReportFirst(sent'[x], y)
         /\ ReportFirst(sent[x], y) => ~Says(sent'[x], y, "REPORT_NODE")
<1>1. sent \in [Nodes -> Seq(Sent)]
  BY Types
<1> DEFINE s == sent[x]
<1>2. /\ sent[x] # <<>> /\ sent[x] \in Seq(Sent) /\ sent'[x] = Tail(sent[x])
      /\ Head(sent[x]) = [op |-> op, node |-> y, ok |-> ok]
      /\ Head(sent[x]).node = y /\ Head(sent[x]).op = op
      /\ \A n \in Nodes : n # x => sent'[n] = sent[n]
  BY <1>1 DEF Takes
<1>3. ASSUME NEW n \in Nodes, NEW m \in Nodes, n # x \/ m # y
      PROVE  /\ \A q : Says(sent'[n], m, q) <=> Says(sent[n], m, q)
             /\ Confirms(sent'[n], m) <=> Confirms(sent[n], m)
             /\ Denies(sent'[n], m) <=> Denies(sent[n], m)
             /\ ReportFirst(sent[n], m) => ReportFirst(sent'[n], m)
  <2>1. CASE n # x
    BY <1>2, <2>1
  <2>2. CASE n = x
    <3>1. m # Head(s).node
      BY <1>2, <1>3, <2>2
    <3>2. s \in Seq(Sent) /\ s # <<>> /\ sent'[n] = Tail(s) /\ sent[n] = s
      BY <1>2, <2>2
    <3> HIDE DEF s
    <3>3. \A q : Says(Tail(s), m, q) <=> Says(s, m, q)
      BY <3>1, <3>2, TailSays
    <3>4. (Confirms(Tail(s), m) <=> Confirms(s, m)) /\ (Denies(Tail(s), m) <=> Denies(s, m))
      BY <3>1, <3>2, TailSays, ConfirmingFacts
    <3>5. ReportFirst(s, m) => ReportFirst(Tail(s), m)
      BY <3>2, TailSays
    <3> QED
      BY <3>2, <3>3, <3>4, <3>5
  <2> QED
    BY <2>1, <2>2
<1>4. /\ \A q : Says(sent'[x], y, q) => Says(sent[x], y, q)
      /\ \A q : Says(sent[x], y, q) => Says(sent'[x], y, q) \/ q = op
      /\ (Confirms(sent'[x], y) => Confirms(sent[x], y))
      /\ (Denies(sent'[x], y) => Denies(sent[x], y))
      /\ Confirms(sent[x], y) => Confirms(sent'[x], y) \/ op = "VERIFY_NODE_CONNECTED"
      /\ Denies(sent[x], y) =>
           Denies(sent'[x], y) \/ Denying([op |-> op, node |-> y, ok |-> ok], y)
      /\ Says(sent[x], y, op)
      /\ ReportFirst(sent[x], y) => ReportFirst(sent'[x], y)
      /\ ReportFirst(sent[x], y) => ~Says(sent'[x], y, "REPORT_NODE")
  <2>1. s \in Seq(Sent) /\ s # <<>> /\ sent'[x] = Tail(s)
    BY <1>2
  <2>2. Head(s).node = y /\ Head(s).op = op
    BY <1>2
  <2> HIDE DEF s
  <2>3. ASSUME NEW q
        PROVE  /\ Says(Tail(s), y, q) => Says(s, y, q)
               /\ Says(s, y, q) => Says(Tail(s), y, q) \/ Head(s).op = q
    BY <2>1, TailSays
  <2>3a. Says(s, y, op)
    BY <2>1, <2>2, TailSays
  <2>4. /\ (Confirms(Tail(s), y) => Confirms(s, y)) /\ (Denies(Tail(s), y) => Denies(s, y))
        /\ Confirms(s, y) => Confirms(Tail(s), y) \/ op = "VERIFY_NODE_CONNECTED"
        /\ Denies(s, y) => Denies(Tail(s), y) \/ Denying(Head(s), y)
    BY <2>1, <2>2, TailSays, ConfirmingFacts
  <2>5. /\ ReportFirst(s, y) => ReportFirst(Tail(s), y)
        /\ ReportFirst(s, y) => ~Says(Tail(s), y, "REPORT_NODE")
    BY <2>1, <2>2, TailSays
  <2> QED
    BY <1>2, <2>1, <2>2, <2>3, <2>3a, <2>4, <2>5 DEF s
<1> QED
  BY <1>3, <1>4

\* A step adds nothing at n's end that a report of the other end could meet.
Quieter(n, m) ==
  /\ \A op \in {"REPORT_NODE", "VERIFY_NODE_CONNECTED"} :
       Says(sent'[n], m, op) => Says(sent[n], m, op)
  /\ ReportFirst(sent[n], m) => ReportFirst(sent'[n], m)
  /\ Asked(n, m, "VERIFY_NODE_CONNECTED")' => Asked(n, m, "VERIFY_NODE_CONNECTED")
  /\ \A what \in {"DISCONNECT", "verify"} : Carried(n, m, what)' => Carried(n, m, what)

\* Reports that travel alone go on alone.
LEMMA QuieterEnds ==
  ASSUME NEW n \in Nodes, NEW m \in Nodes, Pair(n, m), Quieter(n, m), Quieter(m, n)
  PROVE  /\ ReportFirst(sent'[n], m) /\ ReportFirst(sent'[m], n)
         /\ ReportAlone(n, m)' /\ ReportAlone(m, n)'
<1>1. /\ ReportFirst(sent'[n], m) /\ ReportFirst(sent'[m], n)
  BY DEF Pair, Ends, Quieter
<1>2. ReportAlone(n, m) /\ ReportAlone(m, n)
  BY DEF Pair, Ends
<1>3. /\ Verifying(n, m)' => Verifying(n, m)
      /\ Verifying(m, n)' => Verifying(m, n)
  BY DEF Quieter, Verifying
<1> QED
  BY <1>1, <1>2, <1>3 DEF ReportAlone, Quieter

\* A step after which the link is cut, or one of the ends has the two connect.
LEMMA SettledPair ==
  ASSUME NEW n \in Nodes, NEW m \in Nodes, Pair(n, m), Quieter(n, m), Quieter(m, n),
         LinkKept(n, m)' => Trying(n, m)'
  PROVE  Pair(n, m)'
<1>1. /\ LinkKept(m, n)' => LinkKept(n, m)'
      /\ Trying(n, m)' => Trying(m, n)'
  BY DEF LinkKept, Trying
<1>2. WillClear(n, m)' /\ WillClear(m, n)' /\ WillConnect(n, m)'
  BY <1>1 DEF WillClear, WillConnect
<1> QED
  BY <1>2, QuieterEnds DEF Pair, Ends

\* An end that is not touched adds nothing.
LEMMA UntouchedQuieter ==
  ASSUME NEW n \in Nodes, NEW m \in Nodes, Untouched(n, m)
  PROVE  Quieter(n, m)
BY DEF Untouched, Quieter, Asked, Carried, Answers, Whats, Codes

----------------------------------------------------------------------------
(* The pool *)

\* A new link: the clients are asked to connect.
LEMMA LinkStep ==
  ASSUME TypeOK, LinkInv, NEW i \in Nodes, NEW j \in Nodes, Link(i, j)
  PROVE  LinkInv'
<1>1. /\ i # j
      /\ states' = [n \in Nodes |->
                      CASE n = i /\ Open(i) -> states[i] \union {j}
                        [] n = j /\ Open(j) -> states[j] \union {i}
                        [] OTHER -> states[n]]
      /\ asked' = IF Open(i) THEN [asked EXCEPT ![i][<<j, "SEND_OFFER">>] = @ + 1] ELSE asked
      /\ UNCHANGED <<reports, closed, sent, relays, joined>>
  BY DEF Link
<1>2. "SEND_OFFER" \in Answers
  BY DEF Answers
<1>3. /\ \A n, m \in Nodes : \A q \in Answers :
           n # i \/ m # j \/ q # "SEND_OFFER" => asked'[n][<<m, q>>] = asked[n][<<m, q>>]
      /\ Open(i) => Asked(i, j, "SEND_OFFER")'
  <2>1. CASE Open(i)
    <3>1. OneMore(i, j, "SEND_OFFER")
      BY <1>1, <2>1 DEF OneMore
    <3> QED
      BY <1>2, <3>1, AskedChange
  <2>2. CASE ~Open(i)
    BY <1>1, <2>2
  <2> QED
    BY <2>1, <2>2
<1>4. \A n, m \in Nodes : n # m /\ {n, m} # {i, j} => Untouched(n, m)
  <2> SUFFICES ASSUME NEW n \in Nodes, NEW m \in Nodes, {n, m} # {i, j} PROVE Untouched(n, m)
    OBVIOUS
  <2>1. m \in states'[n] => m \in states[n]
    BY <1>1
  <2>2. \A q \in Answers : asked'[n][<<m, q>>] = asked[n][<<m, q>>]
    BY <1>3
  <2> QED
    BY <1>1, <2>1, <2>2 DEF Untouched
<1>5. \A n \in Nodes : n \notin states'[n]
  BY <1>1 DEF LinkInv
<1>6. Pair(i, j)'
  <2>1. Quieter(i, j) /\ Quieter(j, i)
    BY <1>1, <1>3 DEF Quieter, Asked, Carried, Answers
  <2>2. LinkKept(i, j)' => Trying(i, j)'
    <3>1. LinkKept(i, j)' => Open(i)
      BY <1>1 DEF LinkKept, Open
    <3> QED
      BY <1>3, <3>1 DEF Trying, Tries, Connecting
  <2> QED
    BY <1>1, <2>1, <2>2, SettledPair DEF LinkInv
<1> QED
  BY <1>1, <1>4, <1>5, <1>6, OnePair

\* The end of a link: neither end keeps it.
LEMMA UnlinkStep ==
  ASSUME TypeOK, LinkInv, NEW i \in Nodes, NEW j \in Nodes, Unlink(i, j)
  PROVE  LinkInv'
<1> DEFINE gone == [n \in Nodes |->
             CASE n = i /\ Open(i) -> {j} [] n = j /\ Open(j) -> {i} [] OTHER -> {}]
<1>1. /\ states' = [n \in Nodes |-> states[n] \ gone[n]]
      /\ reports' = [n \in Nodes |->
                       [m \in Nodes |-> IF m \in gone[n] THEN None ELSE reports[n][m]]]
      /\ joined' = joined \ {{i, j}}
      /\ UNCHANGED <<closed, asked, sent, relays>>
  BY DEF Unlink, DisconnectNode
<1>2. \A n \in Nodes : n \notin states'[n]
  BY <1>1 DEF LinkInv
<1>3. \A n, m \in Nodes : n # m /\ {n, m} # {i, j} =>
        Untouched(n, m) /\ ({n, m} \in joined' <=> {n, m} \in joined)
  <2> SUFFICES ASSUME NEW n \in Nodes, NEW m \in Nodes, n # m, {n, m} # {i, j}
               PROVE  Untouched(n, m) /\ ({n, m} \in joined' <=> {n, m} \in joined)
    OBVIOUS
  <2>1. m \notin gone[n]
    OBVIOUS
  <2> HIDE DEF gone
  <2> QED
    BY <1>1, <2>1 DEF Untouched
<1>4. ASSUME i # j PROVE Pair(i, j)'
  <2>1. Quieter(i, j) /\ Quieter(j, i)
    BY <1>1 DEF Quieter, Asked, Carried
  <2>2. Open(i) => j \in gone[i]
    OBVIOUS
  <2> HIDE DEF gone
  <2>3. ~LinkKept(i, j)'
    BY <1>1, <2>2 DEF LinkKept, Open
  <2> QED
    BY <1>4, <2>1, <2>3, SettledPair DEF LinkInv
<1> QED
  BY <1>2, <1>3, <1>4, OnePair

\* A node that leaves has no link; what it was told or said is gone with it.
LEMMA LeaveStep ==
  ASSUME TypeOK, LinkInv, NEW x \in Nodes, Leave(x)
  PROVE  LinkInv'
<1> DEFINE gone == [m \in Nodes |->
             IF m = x THEN Nodes ELSE IF Open(m) THEN states[m] \intersect {x} ELSE {}]
<1>1. /\ states' = [n \in Nodes |-> states[n] \ gone[n]]
      /\ reports' = [n \in Nodes |->
                       [m \in Nodes |-> IF m \in gone[n] THEN None ELSE reports[n][m]]]
      /\ closed' = [closed EXCEPT ![x] = "no"]
      /\ asked' = [asked EXCEPT ![x] = [q \in Nodes \X Answers |-> 0]]
      /\ sent' = [sent EXCEPT ![x] = <<>>]
      /\ joined' = {p \in joined : x \notin p}
      /\ UNCHANGED relays
  BY DEF Leave, DisconnectNode
<1>2. /\ states \in [Nodes -> SUBSET Nodes] /\ closed \in [Nodes -> {"no", "reports", "client"}]
      /\ asked \in [Nodes -> [Nodes \X Answers -> Nat]] /\ sent \in [Nodes -> Seq(Sent)]
  BY Types
<1>3. \A n \in Nodes : n \notin states'[n]
  BY <1>1 DEF LinkInv
<1>4. ASSUME NEW n \in Nodes, NEW m \in Nodes, n # x, m # x PROVE Untouched(n, m)
  <2>1. m \notin gone[n]
    BY <1>4
  <2> HIDE DEF gone
  <2> QED
    BY <1>1, <1>2, <1>4, <2>1 DEF Untouched
<1>5. ASSUME NEW m \in Nodes, m # x PROVE Pair(x, m)'
  <2>1. Quieter(x, m)
    <3>1. sent'[x] = <<>> /\ asked'[x] = [q \in Nodes \X Answers |-> 0]
      BY <1>1, <1>2
    <3>2. <<m, "VERIFY_NODE_CONNECTED">> \in Nodes \X Answers
      BY DEF Answers
    <3>3. asked'[x][<<m, "VERIFY_NODE_CONNECTED">>] = 0
      BY <3>1, <3>2
    <3>4. DOMAIN sent'[x] = {}
      BY <3>1
    <3> QED
      BY <1>1, <3>3, <3>4 DEF Quieter, Says, ReportFirst, Asked, Carried
  <2>2. Quieter(m, x)
    BY <1>1, <1>2, <1>5 DEF Quieter, Asked, Carried
  <2>3. ~LinkKept(x, m)'
    BY <1>1 DEF LinkKept
  <2> QED
    BY <1>5, <2>1, <2>2, <2>3, SettledPair DEF LinkInv
<1> SUFFICES ASSUME NEW n \in Nodes, NEW m \in Nodes, n # m PROVE Pair(n, m)'
  BY <1>3 DEF LinkInv
<1>6. CASE n = x
  BY <1>5, <1>6
<1>7. CASE m = x
  BY <1>5, <1>7, PairBackNext
<1>8. CASE n # x /\ m # x
  <2>1. {n, m} \in joined' <=> {n, m} \in joined
    BY <1>1, <1>8
  <2> QED
    BY <1>4, <1>8, <2>1, UntouchedPair DEF LinkInv
<1> QED
  BY <1>6, <1>7, <1>8

\* A client that is closed keeps no link any more.
LEMMA CloseStep ==
  ASSUME TypeOK, LinkInv, NEW x \in Nodes, NotCompliant(x)
  PROVE  LinkInv'
<1>1. /\ closed' = [closed EXCEPT ![x] = "client"]
      /\ UNCHANGED <<states, reports, asked, sent, relays, joined>>
  BY DEF NotCompliant, clientVars
<1>2. \A n, m \in Nodes : Untouched(n, m)
  BY <1>1, Types DEF Untouched
<1> QED
  BY <1>1, <1>2, UntouchedPair DEF LinkInv

----------------------------------------------------------------------------
(* The clients *)

\* An answer of n's client about m: what it says, and what else it leaves alone.
LEMMA AnswerFacts ==
  ASSUME TypeOK, NEW n \in Nodes, NEW m \in Nodes, NEW op \in Answers, NEW ok \in BOOLEAN,
         Answer(n, m, op, ok)
  PROVE  /\ UNCHANGED <<states, reports, closed, relays>>
         /\ \A x, y \in Nodes : x # n \/ y # m => Untouched(x, y)
         /\ Asked(n, m, op)
         /\ \A q \in Answers : Asked(n, m, q)' => Asked(n, m, q)
         /\ \A q \in Answers : q # op => (Asked(n, m, q)' <=> Asked(n, m, q))
         /\ \A q : Says(sent'[n], m, q) <=> Says(sent[n], m, q) \/ q = op
         /\ (Confirms(sent[n], m) => Confirms(sent'[n], m))
         /\ (Denies(sent[n], m) => Denies(sent'[n], m))
         /\ ReportFirst(sent[n], m) => ReportFirst(sent'[n], m)
<1> DEFINE e == [op |-> op, node |-> m, ok |-> ok]
<1>1. /\ UNCHANGED <<states, reports, closed, relays>>
      /\ asked[n][<<m, op>>] > 0 /\ OneLess(n, m, op)
      /\ sent' = [sent EXCEPT ![n] = Append(@, e)]
  BY DEF Answer, Send, managerVars, OneLess
<1>2. e \in Sent /\ e.node = m /\ e.op = op /\ op # "REPORT_NODE"
  BY DEF Sent, Answers
<1> HIDE DEF e
<1>3. /\ \A x, y \in Nodes : x # n \/ y # m =>
           /\ \A q : Says(sent'[x], y, q) <=> Says(sent[x], y, q)
           /\ Confirms(sent'[x], y) <=> Confirms(sent[x], y)
           /\ Denies(sent'[x], y) <=> Denies(sent[x], y)
           /\ ReportFirst(sent[x], y) => ReportFirst(sent'[x], y)
      /\ sent'[n] = Append(sent[n], e) /\ sent[n] \in Seq(Sent)
  BY <1>1, <1>2, SentAppend
<1>4. \A x, y \in Nodes : \A q \in Answers :
        x # n \/ y # m \/ q # op => asked'[x][<<y, q>>] = asked[x][<<y, q>>]
  BY <1>1, AskedChange
<1>5. \A x, y \in Nodes : x # n \/ y # m => Untouched(x, y)
  BY <1>1, <1>3, <1>4 DEF Untouched
<1>6. /\ Asked(n, m, op) /\ \A q \in Answers : Asked(n, m, q)' => Asked(n, m, q)
      /\ \A q \in Answers : q # op => (Asked(n, m, q)' <=> Asked(n, m, q))
  BY <1>1, <1>4 DEF Asked
<1>7. /\ \A q : Says(sent'[n], m, q) <=> Says(sent[n], m, q) \/ (e.node = m /\ e.op = q)
      /\ /\ ReportFirst(sent[n], m)
         /\ e.node = m /\ e.op = "REPORT_NODE" => \A q : ~Says(sent[n], m, q)
         => ReportFirst(sent'[n], m)
  BY <1>2, <1>3, AppendSays
<1>8. \A q : Says(sent'[n], m, q) <=> Says(sent[n], m, q) \/ q = op
  BY <1>2, <1>7
<1>9. /\ (Confirms(sent[n], m) => Confirms(sent'[n], m))
      /\ (Denies(sent[n], m) => Denies(sent'[n], m))
  BY <1>2, <1>3, AppendSays
<1>10. ReportFirst(sent[n], m) => ReportFirst(sent'[n], m)
  BY <1>2, <1>7
<1> QED
  BY <1>1, <1>5, <1>6, <1>8, <1>9, <1>10

\* An answer that has the two connect, or says whether they are.
LEMMA ConnectingStep ==
  ASSUME TypeOK, LinkInv, NEW n \in Nodes, NEW m \in Nodes, NEW op \in Connecting,
         NEW ok \in BOOLEAN, Answer(n, m, op, ok),
         \A x, y \in Nodes : {x, y} # {n, m} => ({x, y} \in joined' <=> {x, y} \in joined)
  PROVE  LinkInv'
<1>0. op \in Answers /\ op \notin {"REPORT_NODE", "VERIFY_NODE_CONNECTED"}
  BY DEF Connecting, Answers
<1>1. /\ UNCHANGED <<states, reports, closed, relays>>
      /\ \A x, y \in Nodes : x # n \/ y # m => Untouched(x, y)
      /\ \A q \in Answers : Asked(n, m, q)' => Asked(n, m, q)
      /\ \A q : Says(sent'[n], m, q) <=> Says(sent[n], m, q) \/ q = op
      /\ ReportFirst(sent[n], m) => ReportFirst(sent'[n], m)
  BY <1>0, AnswerFacts
<1>2. ASSUME n # m PROVE Pair(n, m)'
  <2>1. Quieter(n, m)
    BY <1>0, <1>1 DEF Quieter, Carried, Answers
  <2>2. Quieter(m, n)
    BY <1>1, <1>2, UntouchedQuieter
  <2>3. Trying(n, m)'
    BY <1>1 DEF Trying, Tries
  <2> QED
    BY <1>2, <2>1, <2>2, <2>3, SettledPair DEF LinkInv
<1>3. \A x, y \in Nodes : x # y /\ {x, y} # {n, m} =>
        Untouched(x, y) /\ ({x, y} \in joined' <=> {x, y} \in joined)
  <2> SUFFICES ASSUME NEW x \in Nodes, NEW y \in Nodes, {x, y} # {n, m}
               PROVE  Untouched(x, y) /\ ({x, y} \in joined' <=> {x, y} \in joined)
    OBVIOUS
  <2>1. x # n \/ y # m
    OBVIOUS
  <2> QED
    BY <1>1, <2>1
<1>4. \A x \in Nodes : x \notin states'[x]
  BY <1>1 DEF LinkInv
<1> QED
  BY <1>2, <1>3, <1>4, OnePair

\* An answer about a connection: it confirms one that there is, or says that there
\* is none, which will be reported.
LEMMA VerifyStep ==
  ASSUME TypeOK, LinkInv, NEW n \in Nodes, NEW m \in Nodes, Verifies(n, m)
  PROVE  LinkInv'
<1> DEFINE ok == {n, m} \in joined
        op == "VERIFY_NODE_CONNECTED"
<1>0. Answer(n, m, op, ok) /\ joined' = joined /\ op \in Answers /\ ok \in BOOLEAN
  BY DEF Verifies, Answers
<1>a. (ok <=> {n, m} \in joined) /\ op = "VERIFY_NODE_CONNECTED"
  OBVIOUS
<1> HIDE DEF ok, op
<1>1. /\ UNCHANGED <<states, reports, closed, relays>>
      /\ \A x, y \in Nodes : x # n \/ y # m => Untouched(x, y)
      /\ Asked(n, m, op)
      /\ \A q \in Answers : q # op => (Asked(n, m, q)' <=> Asked(n, m, q))
      /\ \A q : Says(sent'[n], m, q) <=> Says(sent[n], m, q) \/ q = op
  BY <1>0, AnswerFacts
<1>1a. /\ Confirms(sent[n], m) => Confirms(sent'[n], m)
       /\ Denies(sent[n], m) => Denies(sent'[n], m)
       /\ ReportFirst(sent[n], m) => ReportFirst(sent'[n], m)
  BY <1>0, AnswerFacts
<1>1b. /\ {n, m} \in joined => Confirms(sent'[n], m)
       /\ {n, m} \notin joined => Denies(sent'[n], m)
  <2> DEFINE e == [op |-> op, node |-> m, ok |-> ok]
  <2>1. sent' = [sent EXCEPT ![n] = Append(@, e)]
    BY <1>0 DEF Answer, Send
  <2>2. e \in Sent
    BY <1>0 DEF Sent
  <2>3. /\ {n, m} \in joined => Confirming(e, m)
        /\ {n, m} \notin joined => Denying(e, m)
    BY <1>0, <1>a DEF Confirming, Denying
  <2> HIDE DEF e
  <2>4. sent'[n] = Append(sent[n], e) /\ sent[n] \in Seq(Sent)
    BY <2>1, <2>2, SentAppend
  <2> QED
    BY <2>2, <2>3, <2>4, AppendSays
<1>2. ASSUME n # m PROVE Pair(n, m)'
  <2>1. Untouched(m, n) /\ Ends(n, m) /\ Ends(m, n)
    BY <1>1, <1>2 DEF LinkInv, Pair
  <2>2. \A what : (Carried(n, m, what)' <=> Carried(n, m, what))
                  /\ (Carried(m, n, what)' <=> Carried(m, n, what))
    BY <1>1 DEF Carried
  <2>3. \A q \in Answers : Asked(m, n, q)' <=> Asked(m, n, q)
    BY <2>1 DEF Untouched, Asked
  <2>4. Verifying(m, n)' <=> Verifying(m, n)
    BY <1>0, <1>a, <2>2, <2>3 DEF Verifying
  <2>5. Trying(n, m) => Trying(n, m)'
    <3>1. \A q \in Connecting : q \in Answers /\ q # op
      BY <1>a DEF Connecting, Answers
    <3>2. Tries(n, m) => Tries(n, m)'
      BY <1>1, <1>1a, <2>2, <3>1 DEF Tries
    <3>3. Tries(m, n) => Tries(m, n)'
      BY <2>1, <2>2, <2>3, <3>1 DEF Tries, Untouched
    <3> QED
      BY <3>2, <3>3 DEF Trying
  <2>6. {n, m} \notin joined => Trying(n, m)'
    BY <1>1b DEF Trying, Tries
  <2>7. ReportFirst(sent'[n], m) /\ ReportFirst(sent'[m], n)
    BY <1>1a, <2>1 DEF Ends, Untouched
  <2>8. ReportAlone(n, m)'
    BY <1>1, <1>a, <2>1, <2>2, <2>4 DEF Ends, ReportAlone, Untouched
  <2>9. ReportAlone(m, n)'
    BY <1>1, <1>a, <2>1 DEF Ends, ReportAlone, Untouched, Verifying
  <2>10. WillClear(n, m)'
    BY <1>1b, <2>6 DEF WillClear
  <2>11. WillClear(m, n)'
    <3>1. LinkKept(m, n)' => LinkKept(m, n)
      BY <1>1 DEF LinkKept, Open
    <3>2. Heard(n, m) => Heard(n, m)'
      BY <1>1, <2>2 DEF Heard
    <3>3. Confirms(sent[m], n) => Confirms(sent'[m], n)
      BY <2>1 DEF Untouched
    <3>4. Trying(m, n) => Trying(m, n)'
      BY <2>5 DEF Trying
    <3> QED
      BY <1>1, <2>1, <2>4, <3>1, <3>2, <3>3, <3>4 DEF Ends, WillClear
  <2>12. WillConnect(n, m)'
    BY <1>0, <2>6 DEF WillConnect
  <2> QED
    BY <2>7, <2>8, <2>9, <2>10, <2>11, <2>12 DEF Pair, Ends
<1>3. \A x, y \in Nodes : x # y /\ {x, y} # {n, m} =>
        Untouched(x, y) /\ ({x, y} \in joined' <=> {x, y} \in joined)
  <2> SUFFICES ASSUME NEW x \in Nodes, NEW y \in Nodes, {x, y} # {n, m}
               PROVE  Untouched(x, y)
    BY <1>0
  <2>1. x # n \/ y # m
    OBVIOUS
  <2> QED
    BY <1>1, <2>1
<1>4. \A x \in Nodes : x \notin states'[x]
  BY <1>1 DEF LinkInv
<1> QED
  BY <1>2, <1>3, <1>4, OnePair

\* Nothing about the link to m is under way at n, or from n to m.
LEMMA NotInHand ==
  ASSUME NEW n \in Nodes, NEW m \in Nodes, n # m, ~InHand(n, m)
  PROVE  /\ \A op \in Answers : ~Asked(n, m, op)
         /\ \A op : ~Says(sent[n], m, op)
         /\ ~Confirms(sent[n], m) /\ ~Denies(sent[n], m)
         /\ \A what \in Whats \ {"FINAL"} : ~Carried(n, m, what)
<1>1. \A op \in Answers : ~Asked(n, m, op)
  BY DEF InHand, Asked
<1>2. \A op : ~Says(sent[n], m, op)
  BY DEF InHand, Says
<1>3. ~Confirms(sent[n], m) /\ ~Denies(sent[n], m)
  BY DEF InHand, Confirms, Denies, Confirming, Denying
<1>4. \A what \in Whats \ {"FINAL"} : ~Carried(n, m, what)
  BY MessageFacts DEF InHand, Carried
<1> QED
  BY <1>1, <1>2, <1>3, <1>4

\* When nothing about a link is under way its clients are connected, and neither
\* manager has a report of the other.
LEMMA AtRest ==
  ASSUME NEW n \in Nodes, NEW m \in Nodes, n # m, Pair(n, m), LinkKept(n, m),
         ~InHand(n, m), ~InHand(m, n)
  PROVE  {n, m} \in joined /\ reports[n][m] = None /\ reports[m][n] = None
<1>1. ~Trying(n, m) /\ ~Trying(m, n)
  <2>1. ~Tries(n, m)
    BY NotInHand DEF Tries, Connecting, Answers, Whats, Codes
  <2>2. ~Tries(m, n)
    BY NotInHand DEF Tries, Connecting, Answers, Whats, Codes
  <2> QED
    BY <2>1, <2>2 DEF Trying
<1>2. ~Carried(n, m, "DISCONNECT") /\ ~Carried(n, m, "verify")
      /\ ~Carried(m, n, "DISCONNECT") /\ ~Carried(m, n, "verify")
  BY NotInHand DEF Whats, Codes
<1>3. ~Verifying(n, m) /\ ~Verifying(m, n) /\ ~Heard(n, m) /\ ~Heard(m, n)
  BY <1>2, NotInHand DEF Verifying, Heard, Answers
<1>4. ~Told(n, m) /\ ~Told(m, n) /\ ~Confirms(sent[n], m) /\ ~Confirms(sent[m], n)
  BY NotInHand DEF Told
<1>5. LinkKept(m, n)
  BY DEF LinkKept
<1> QED
  BY <1>1, <1>3, <1>4, <1>5 DEF Pair, Ends, WillClear, WillConnect

\* A loss that one client finds out, when nothing is under way: it reports to two
\* managers that know of nothing.
LEMMA LoseStep ==
  ASSUME Calm, TypeOK, LinkInv, NEW i \in Nodes, NEW j \in Nodes, NEW noticing,
         Lose(i, j, noticing)
  PROVE  LinkInv'
<1> DEFINE e(n) == [op |-> "REPORT_NODE", ok |-> TRUE, node |-> IF n = i THEN j ELSE i]
<1>1. /\ UNCHANGED <<states, reports, closed, asked, relays>> /\ joined' = joined \ {{i, j}}
      /\ sent' = [n \in Nodes |-> IF n \in noticing /\ Open(n) THEN Append(sent[n], e(n))
                                  ELSE sent[n]]
      /\ noticing \in SUBSET {i, j} /\ Cardinality(noticing) = 1
      /\ ~InHand(i, j) /\ ~InHand(j, i)
  BY DEF Lose, managerVars
<1>2. \A n \in Nodes : /\ e(n) \in Sent /\ e(n).op = "REPORT_NODE"
                       /\ e(n).node = IF n = i THEN j ELSE i
  BY DEF Sent
<1> HIDE DEF e
<1>3. sent \in [Nodes -> Seq(Sent)]
  BY Types
<1>4. \A n, m \in Nodes : n # m /\ {n, m} # {i, j} =>
        Untouched(n, m) /\ ({n, m} \in joined' <=> {n, m} \in joined)
  <2> SUFFICES ASSUME NEW n \in Nodes, NEW m \in Nodes, n # m, {n, m} # {i, j}
               PROVE  Untouched(n, m) /\ ({n, m} \in joined' <=> {n, m} \in joined)
    OBVIOUS
  <2>1. CASE n \in noticing /\ Open(n)
    <3>1. e(n) \in Sent /\ e(n).node # m /\ e(n).op = "REPORT_NODE" /\ sent[n] \in Seq(Sent)
          /\ sent'[n] = Append(sent[n], e(n))
      BY <1>1, <1>2, <1>3, <2>1
    <3>2. /\ \A op : Says(sent'[n], m, op) <=> Says(sent[n], m, op)
          /\ Confirms(sent'[n], m) <=> Confirms(sent[n], m)
          /\ Denies(sent'[n], m) <=> Denies(sent[n], m)
          /\ ReportFirst(sent[n], m) => ReportFirst(sent'[n], m)
      BY <3>1, AppendSays, ConfirmingFacts
    <3> QED
      BY <1>1, <3>2 DEF Untouched
  <2>2. CASE ~(n \in noticing /\ Open(n))
    BY <1>1, <2>2 DEF Untouched
  <2> QED
    BY <2>1, <2>2
<1>5. ASSUME i # j PROVE Pair(i, j)'
  <2>1. PICK x \in {i, j} : noticing = {x}
    <3>1. noticing # {i, j}
      <4>1. {i, j} = {i} \union {j} /\ j \notin {i}
        BY <1>5
      <4>2. IsFiniteSet({i}) /\ Cardinality({i}) = 1
        BY FS_Singleton
      <4>3. Cardinality({i, j}) = 2
        BY <4>1, <4>2, FS_AddElement
      <4>4. Cardinality(noticing) # Cardinality({i, j})
        BY <1>1, <4>3
      <4> QED
        BY <4>4, Zenon
    <3>2. noticing # {}
      <4>1. Cardinality({}) = 0
        BY FS_EmptySet
      <4>2. Cardinality(noticing) # Cardinality({})
        BY <1>1, <4>1
      <4> QED
        BY <4>2, Zenon
    <3> QED
      BY <1>1, <3>1, <3>2
  <2>2. PICK y \in {i, j} : y # x
    BY <1>5
  <2>3. /\ x \in Nodes /\ y \in Nodes /\ x # y
        /\ Pair(x, y) /\ ~InHand(x, y) /\ ~InHand(y, x)
    BY <1>1, <1>5, <2>1, <2>2 DEF LinkInv
  <2>4. /\ sent'[y] = sent[y]
        /\ sent'[x] = IF Open(x) THEN Append(sent[x], e(x)) ELSE sent[x]
        /\ e(x) \in Sent /\ e(x).node = y /\ e(x).op = "REPORT_NODE" /\ sent[x] \in Seq(Sent)
    BY <1>1, <1>2, <1>3, <2>1, <2>2, <2>3
  <2>5. /\ \A op : ~Says(sent[x], y, op) /\ ~Says(sent[y], x, op)
        /\ ~Carried(x, y, "DISCONNECT") /\ ~Carried(y, x, "DISCONNECT")
        /\ ~Carried(x, y, "verify") /\ ~Asked(y, x, "VERIFY_NODE_CONNECTED")
    BY <2>3, NotInHand DEF Whats, Codes, Answers
  <2>6. LinkKept(x, y)' => Open(x) /\ reports'[x][y] = None /\ reports'[y][x] = None
    <3>1. LinkKept(x, y)' => LinkKept(x, y)
      BY <1>1 DEF LinkKept, Open
    <3> QED
      BY <1>1, <2>3, <3>1, AtRest DEF LinkKept
  <2>7. ReportFirst(sent'[x], y) /\ ReportFirst(sent'[y], x)
    <3>1. ReportFirst(sent[x], y) /\ ReportFirst(sent[y], x)
      BY <2>3 DEF Pair, Ends
    <3> QED
      BY <2>4, <2>5, <3>1, AppendSays
  <2>8. ReportAlone(x, y)' /\ ReportAlone(y, x)'
    BY <1>1, <2>4, <2>5 DEF ReportAlone, Verifying, Carried, Asked
  <2>9. WillClear(x, y)' /\ WillClear(y, x)'
    <3>1. LinkKept(y, x)' => LinkKept(x, y)'
      BY DEF LinkKept
    <3> QED
      BY <2>6, <3>1 DEF WillClear
  <2>10. WillConnect(x, y)'
    <3>1. Open(x) => Says(sent'[x], y, "REPORT_NODE")
      <4> SUFFICES ASSUME Open(x) PROVE Says(sent'[x], y, "REPORT_NODE")
        OBVIOUS
      <4>1. sent'[x] = Append(sent[x], e(x))
        BY <2>4
      <4>2. Says(Append(sent[x], e(x)), y, e(x).op)
        BY <2>4, AppendSays
      <4> QED
        BY <2>4, <4>1, <4>2
    <3> QED
      BY <2>6, <3>1 DEF WillConnect, Told
  <2>11. Pair(x, y)'
    BY <2>7, <2>8, <2>9, <2>10 DEF Pair, Ends
  <2> QED
    BY <2>1, <2>2, <2>11, PairBackNext
<1>6. \A n \in Nodes : n \notin states'[n]
  BY <1>1 DEF LinkInv
<1> QED
  BY <1>4, <1>5, <1>6, OnePair

----------------------------------------------------------------------------
(* The managers *)

\* The managers and the relays change at n's end of the link to m only.
OnlyAt(n, m) ==
  /\ states' = states
  /\ \A x \in Nodes : closed'[x] = "no" => closed[x] = "no"
  /\ \A x, y \in Nodes : x # n \/ y # m => reports'[x][y] = reports[x][y]
  /\ \A x, y \in Nodes : \A w \in Whats : x # y /\ (x # n \/ y # m) =>
       relays'[Message(x, y, w)] = relays[Message(x, y, w)]

\* n's manager takes a message about m: the other ends, m's too, are not touched.
LEMMA TakenFacts ==
  ASSUME TypeOK, LinkInv, NEW n \in Nodes, NEW m \in Nodes, NEW op, NEW ok, Takes(n, op, m, ok),
         OnlyAt(n, m)
  PROVE  /\ \A x, y \in Nodes : x # y /\ (x # n \/ y # m) => Untouched(x, y)
         /\ asked' = asked /\ joined' = joined
         /\ n # m /\ Pair(n, m)' => LinkInv'
         /\ n = m => LinkInv'
<1>1. asked' = asked /\ joined' = joined
  BY DEF Takes
<1>2. ASSUME NEW x \in Nodes, NEW y \in Nodes, x # y, x # n \/ y # m PROVE Untouched(x, y)
  <2>1. /\ \A q : Says(sent'[x], y, q) <=> Says(sent[x], y, q)
        /\ Confirms(sent'[x], y) <=> Confirms(sent[x], y)
        /\ Denies(sent'[x], y) <=> Denies(sent[x], y)
        /\ ReportFirst(sent[x], y) => ReportFirst(sent'[x], y)
    BY <1>2, SentTail
  <2> QED
    BY <1>1, <1>2, <2>1 DEF Untouched, OnlyAt
<1>3. \A x, y \in Nodes : x # y /\ {x, y} # {n, m} =>
        Untouched(x, y) /\ ({x, y} \in joined' <=> {x, y} \in joined)
  <2> SUFFICES ASSUME NEW x \in Nodes, NEW y \in Nodes, x # y, {x, y} # {n, m}
               PROVE  Untouched(x, y)
    BY <1>1
  <2>1. x # n \/ y # m
    OBVIOUS
  <2> QED
    BY <1>2, <2>1
<1>4. \A x \in Nodes : x \notin states'[x]
  BY DEF LinkInv, OnlyAt
<1>5. (n # m => Pair(n, m)') => LinkInv'
  BY <1>3, <1>4, OnePair
<1> QED
  BY <1>1, <1>2, <1>5

\* Taking a message adds nothing, when no relay of the two kinds is added.
LEMMA TakenQuieter ==
  ASSUME TypeOK, NEW n \in Nodes, NEW m \in Nodes, NEW op, NEW ok, Takes(n, op, m, ok),
         \A w \in {"DISCONNECT", "verify"} : Carried(n, m, w)' => Carried(n, m, w)
  PROVE  Quieter(n, m)
<1>1. asked' = asked
  BY DEF Takes
<1>2. /\ \A q : Says(sent'[n], m, q) => Says(sent[n], m, q)
      /\ ReportFirst(sent[n], m) => ReportFirst(sent'[n], m)
  BY SentTail
<1> QED
  BY <1>1, <1>2 DEF Quieter, Asked

\* An offer or an answer goes to the other manager, if there is a link.
LEMMA PassStep ==
  ASSUME TypeOK, LinkInv, NEW n \in Nodes, NEW m \in Nodes, NEW op,
         NEW what \in {"offer", "answer"}, Takes(n, op, m, TRUE), Passes(n, m, what)
  PROVE  LinkInv'
<1>1. UNCHANGED <<states, reports, closed>>
  BY DEF Passes, Inactive, managerVars
<1>2. relays \in [Messages -> Nat]
  BY Types
<1>3. CASE Inactive(n, m)
  <2>1. relays' = relays /\ m \notin states[n]
    BY <1>3 DEF Inactive
  <2>2. OnlyAt(n, m)
    BY <1>1, <2>1 DEF OnlyAt
  <2>2a. n # m => Untouched(m, n)
    BY <2>2, TakenFacts
  <2>3. Quieter(n, m)
    BY <2>1, TakenQuieter DEF Carried
  <2>4. ~LinkKept(n, m)'
    BY <1>1, <2>1 DEF LinkKept
  <2>5. n # m => Pair(n, m)'
    BY <2>2a, <2>3, <2>4, UntouchedQuieter, SettledPair DEF LinkInv
  <2> QED
    BY <2>2, <2>5, TakenFacts
<1>4. CASE m \in states[n] /\ relays' = With(relays, Message(n, m, what))
  <2>1. n # m /\ what \in Whats
    BY <1>4 DEF LinkInv, Whats
  <2>2. /\ \A x, y \in Nodes : \A w \in Whats : x # y /\ (x # n \/ y # m \/ w # what) =>
             relays'[Message(x, y, w)] = relays[Message(x, y, w)]
        /\ Carried(n, m, what)'
    BY <1>2, <1>4, <2>1, WithChange DEF Carried
  <2>2a. OnlyAt(n, m)
    BY <1>1, <2>2 DEF OnlyAt
  <2>3. Untouched(m, n)
    BY <2>1, <2>2a, TakenFacts
  <2>4. Quieter(n, m)
    BY <2>1, <2>2, TakenQuieter DEF Carried, Whats, Codes
  <2>5. Trying(n, m)'
    BY <2>2 DEF Trying, Tries
  <2>6. Pair(n, m)'
    BY <2>1, <2>3, <2>4, <2>5, UntouchedQuieter, SettledPair DEF LinkInv
  <2> QED
    BY <2>1, <2>2a, <2>6, TakenFacts
<1> QED
  BY <1>3, <1>4 DEF Passes

\* A report changes what its manager has of that node, and may close its client.
LEMMA ReportElsewhere ==
  ASSUME TypeOK, NEW n \in Nodes, NEW m \in Nodes, NEW code, reportNode(n, m, code)
  PROVE  /\ states' = states
         /\ \A x \in Nodes : closed'[x] = "no" => closed[x] = "no"
         /\ \A x, y \in Nodes : x # n \/ y # m => reports'[x][y] = reports[x][y]
<1> DEFINE out == Outcome(n, m, code)
<1>1. /\ reports \in [Nodes -> [Nodes -> Codes \union {None}]]
      /\ closed \in [Nodes -> {"no", "reports", "client"}]
  BY Types
<1>2. /\ reports' = IF out = "reported" THEN [reports EXCEPT ![n][m] = code] ELSE reports
      /\ closed' = IF out \in {"too many", "too wide"} THEN [closed EXCEPT ![n] = "reports"]
                   ELSE closed
      /\ states' = states
  BY DEF reportNode
<1> HIDE DEF out
<1> QED
  BY <1>1, <1>2

\* What comes of a report, case by case.
LEMMA ReportFacts ==
  ASSUME TypeOK, NEW n \in Nodes, NEW m \in Nodes, NEW code, reportNode(n, m, code)
  PROVE  /\ Outcome(n, m, code) \in {"inactive", "too many", "too wide", "counted", "reported"}
         /\ Outcome(n, m, code) = "inactive" <=> m \notin states[n]
         /\ Outcome(n, m, code) \in {"too many", "too wide"} => closed'[n] # "no"
         /\ Outcome(n, m, code) # "reported" => reports' = reports
         /\ Outcome(n, m, code) = "reported" => reports'[n][m] = code
         /\ Outcome(n, m, code) = "counted" =>
              code = "FINAL" \/ (code = "DISCONNECT" /\ reports[n][m] # None)
         /\ Outcome(n, m, code) = "reported" =>
              code # "FINAL" /\ (code = "DISCONNECT" => reports[n][m] = None)
<1> DEFINE out == Outcome(n, m, code)
<1>1. /\ reports \in [Nodes -> [Nodes -> Codes \union {None}]]
      /\ closed \in [Nodes -> {"no", "reports", "client"}]
  BY Types
<1>2. /\ out \in {"inactive", "too many", "too wide", "counted", "reported"}
      /\ out = "inactive" <=> m \notin states[n]
      /\ out = "counted" => code = "FINAL" \/ (code = "DISCONNECT" /\ reports[n][m] # None)
      /\ out = "reported" => code # "FINAL" /\ (code = "DISCONNECT" => reports[n][m] = None)
  BY DEF Outcome
<1>3. /\ reports' = IF out = "reported" THEN [reports EXCEPT ![n][m] = code] ELSE reports
      /\ closed' = IF out \in {"too many", "too wide"} THEN [closed EXCEPT ![n] = "reports"]
                   ELSE closed
  BY DEF reportNode
<1> HIDE DEF out
<1>4. /\ out \in {"too many", "too wide"} => closed'[n] # "no"
      /\ out # "reported" => reports' = reports
      /\ out = "reported" => reports'[n][m] = code
  BY <1>1, <1>3
<1> QED
  BY <1>2, <1>4 DEF out

\* A message that is no report has no report with it.
LEMMA NoReportWaits ==
  ASSUME TypeOK, NEW n \in Nodes, NEW m \in Nodes, NEW op, NEW ok, Takes(n, op, m, ok),
         op # "REPORT_NODE", ReportFirst(sent[n], m)
  PROVE  ~Says(sent[n], m, "REPORT_NODE") /\ ~Says(sent'[n], m, "REPORT_NODE")
<1>1. ReportFirst(sent[n], m) => ~Says(sent'[n], m, "REPORT_NODE")
  BY SentTail
<1>2. \A q : Says(sent[n], m, q) => Says(sent'[n], m, q) \/ q = op
  BY SentTail
<1> QED
  BY <1>1, <1>2

\* The clients are connected: n's report is cleared, m is asked to verify.
LEMMA ConnectedStep ==
  ASSUME TypeOK, LinkInv, NEW n \in Nodes, NEW m \in Nodes, NodeConnected(n, m)
  PROVE  LinkInv'
<1>1. Takes(n, "CONNECT_NODE", m, TRUE)
  BY DEF NodeConnected
<1>2. CASE Inactive(n, m)
  <2>1. Passes(n, m, "offer")
    BY <1>2 DEF Passes
  <2> QED
    BY <1>1, <2>1, PassStep
<1>3. CASE m \in states[n] /\ clearReport(n, m) /\ relays' = With(relays, Message(n, m, "verify"))
  <2>1. n # m /\ "verify" \in Whats /\ relays \in [Messages -> Nat]
        /\ reports \in [Nodes -> [Nodes -> Codes \union {None}]]
    BY <1>3, Types DEF LinkInv, Whats
  <2>2. /\ \A x, y \in Nodes : \A w \in Whats : x # y /\ (x # n \/ y # m \/ w # "verify") =>
             relays'[Message(x, y, w)] = relays[Message(x, y, w)]
        /\ Carried(n, m, "verify")'
    BY <1>3, <2>1, WithChange DEF Carried
  <2>3. /\ \A x, y \in Nodes : x # n \/ y # m => reports'[x][y] = reports[x][y]
        /\ reports'[n][m] = None /\ states' = states /\ closed' = closed
    BY <1>3, <2>1 DEF clearReport
  <2>4. OnlyAt(n, m)
    BY <2>2, <2>3 DEF OnlyAt
  <2>5. Untouched(m, n) /\ asked' = asked
    BY <1>1, <2>1, <2>4, TakenFacts
  <2>6. Ends(n, m) /\ Ends(m, n)
    BY <2>1 DEF LinkInv, Pair
  <2>7. /\ ~Says(sent'[n], m, "REPORT_NODE") /\ ReportFirst(sent'[n], m)
        /\ \A q : Says(sent'[n], m, q) => Says(sent[n], m, q)
    BY <1>1, <2>6, NoReportWaits, SentTail DEF Ends
  <2>8. ReportFirst(sent'[m], n) /\ ReportAlone(n, m)'
    BY <2>5, <2>6, <2>7 DEF Ends, Untouched, ReportAlone
  <2>9. ReportAlone(m, n)'
    <3>1. /\ Carried(n, m, "DISCONNECT")' <=> Carried(n, m, "DISCONNECT")
          /\ Carried(m, n, "DISCONNECT")' <=> Carried(m, n, "DISCONNECT")
          /\ Carried(m, n, "verify")' <=> Carried(m, n, "verify")
      BY <2>1, <2>2 DEF Carried, Whats, Codes
    <3>2. Verifying(n, m)' <=> Verifying(n, m)
      BY <2>5, <3>1 DEF Verifying, Asked
    <3> QED
      BY <2>5, <2>6, <2>7, <3>1, <3>2 DEF Ends, ReportAlone, Untouched
  <2>10. WillClear(n, m)'
    BY <2>3 DEF WillClear
  <2>11. Verifying(m, n)'
    BY <2>2 DEF Verifying
  <2>12. Pair(n, m)'
    BY <2>7, <2>8, <2>9, <2>10, <2>11 DEF Pair, Ends, WillClear, WillConnect
  <2> QED
    BY <1>1, <2>1, <2>4, <2>12, TakenFacts
<1> QED
  BY <1>2, <1>3 DEF NodeConnected

\* What n's end of a pair does when its manager takes an answer op that leaves the
\* requests and the relays alone.
LEMMA TakenTries ==
  ASSUME TypeOK, NEW n \in Nodes, NEW m \in Nodes, n # m, NEW op, NEW ok, Takes(n, op, m, ok),
         op \notin Connecting, ~Denying([op |-> op, node |-> m, ok |-> ok], m),
         \A what \in Whats : Carried(n, m, what) => Carried(n, m, what)',
         Untouched(m, n), Trying(n, m)
  PROVE  Trying(n, m)'
<1>1. asked' = asked
  BY DEF Takes
<1>2. \A q : Says(sent[n], m, q) => Says(sent'[n], m, q) \/ q = op
  BY SentTail
<1>3. Denies(sent[n], m) => Denies(sent'[n], m)
  BY SentTail
<1>4. Tries(n, m) => Tries(n, m)'
  BY <1>1, <1>2, <1>3 DEF Tries, Asked, Whats, Codes
<1>5. Tries(m, n) => Tries(m, n)'
  BY DEF Untouched, Tries, Asked, Carried, Connecting, Answers, Whats, Codes
<1> QED
  BY <1>4, <1>5 DEF Trying

\* The other client confirms the connection: m's report, if there is one, will be
\* cleared by what would have cleared it before.
LEMMA VerifiedStep ==
  ASSUME TypeOK, LinkInv, NEW n \in Nodes, NEW m \in Nodes, NodeVerified(n, m)
  PROVE  LinkInv'
<1> DEFINE op == "VERIFY_NODE_CONNECTED"
<1>1. Takes(n, op, m, TRUE)
  BY DEF NodeVerified
<1>2. CASE Inactive(n, m)
  <2>1. Passes(n, m, "offer")
    BY <1>2 DEF Passes
  <2> QED
    BY <1>1, <2>1, PassStep
<1>3. CASE m \in states[n] /\ clearReport(n, m) /\ UNCHANGED relays
  <2>1. n # m /\ reports \in [Nodes -> [Nodes -> Codes \union {None}]]
    BY <1>3, Types DEF LinkInv
  <2>2. /\ \A x, y \in Nodes : x # n \/ y # m => reports'[x][y] = reports[x][y]
        /\ reports'[n][m] = None /\ states' = states /\ closed' = closed /\ relays' = relays
    BY <1>3, <2>1 DEF clearReport
  <2>3. OnlyAt(n, m)
    BY <2>2 DEF OnlyAt
  <2>4. Untouched(m, n) /\ asked' = asked /\ joined' = joined
    BY <1>1, <2>1, <2>3, TakenFacts
  <2>5. Pair(n, m) /\ Ends(n, m) /\ Ends(m, n)
    BY <2>1 DEF LinkInv, Pair
  <2>6. Quieter(n, m) /\ Quieter(m, n)
    BY <1>1, <2>2, <2>4, TakenQuieter, UntouchedQuieter DEF Carried
  <2>7. ~Says(sent[n], m, "REPORT_NODE") /\ ~Says(sent[m], n, "REPORT_NODE")
    <3>1. ~Says(sent[n], m, "REPORT_NODE")
      BY <1>1, <2>5, NoReportWaits DEF Ends
    <3>2. Says(sent[n], m, op)
      BY <1>1, SentTail
    <3> QED
      BY <2>5, <3>1, <3>2 DEF Ends, ReportAlone
  <2>8. Trying(n, m) => Trying(n, m)'
    <3>1. op \notin Connecting /\ ~Denying([op |-> op, node |-> m, ok |-> TRUE], m)
      BY DEF Connecting, Denying
    <3>2. \A what \in Whats : Carried(n, m, what) => Carried(n, m, what)'
      BY <2>2 DEF Carried
    <3> HIDE DEF op
    <3> QED
      BY <1>1, <2>1, <2>4, <3>1, <3>2, TakenTries
  <2>9. /\ Verifying(n, m)' <=> Verifying(n, m)
        /\ Verifying(m, n)' <=> Verifying(m, n)
        /\ Heard(n, m) => Heard(n, m)'
        /\ Heard(m, n) => Heard(m, n)'
        /\ Confirms(sent[m], n) => Confirms(sent'[m], n)
    BY <2>1, <2>2, <2>4 DEF Verifying, Heard, Carried, Asked, Untouched
  <2>10. (LinkKept(n, m)' => LinkKept(n, m)) /\ (LinkKept(m, n)' => LinkKept(m, n))
    BY <2>2 DEF LinkKept, Open
  <2>11. WillClear(n, m)'
    BY <2>2 DEF WillClear
  <2>12. WillClear(m, n)'
    <3>1. (Trying(m, n) => Trying(n, m)) /\ (Trying(n, m)' => Trying(m, n)')
      BY DEF Trying
    <3>2. reports'[m][n] = reports[m][n]
      BY <2>1, <2>2
    <3> QED
      BY <2>5, <2>8, <2>9, <2>10, <3>1, <3>2 DEF Ends, WillClear
  <2>13. WillConnect(n, m)'
    BY <2>4, <2>5, <2>7, <2>8, <2>9, <2>10 DEF Pair, WillConnect, Told
  <2>14. Pair(n, m)'
    BY <2>5, <2>6, <2>11, <2>12, <2>13, QuieterEnds DEF Pair, Ends
  <2> QED
    BY <1>1, <2>1, <2>3, <2>14, TakenFacts
<1> QED
  BY <1>2, <1>3 DEF NodeVerified

\* A client's report changes its manager's end only.
LEMMA ReportOnlyAt ==
  ASSUME TypeOK, LinkInv, NEW n \in Nodes, NEW m \in Nodes, NEW code \in Codes,
         clientReportNode(n, m, code)
  PROVE  /\ OnlyAt(n, m)
         /\ n # m =>
              /\ \A w \in Whats \ {"FINAL", code} : Carried(n, m, w)' <=> Carried(n, m, w)
              /\ \A w \in Whats : Carried(n, m, w) => Carried(n, m, w)'
              /\ Outcome(n, m, code) # "reported" =>
                   \A w \in Whats \ {"FINAL"} : Carried(n, m, w)' <=> Carried(n, m, w)
              /\ Outcome(n, m, code) = "reported" => Carried(n, m, code)'
<1> DEFINE out == Outcome(n, m, code)
<1>1. /\ reportNode(n, m, code) /\ relays \in [Messages -> Nat]
      /\ code \in Whats /\ "FINAL" \in Whats
      /\ relays' = IF out = "reported" THEN With(relays, Message(n, m, code))
                   ELSE ToldFinally(n, m, code, relays)
  BY Types DEF clientReportNode, Whats
<1>2. /\ states' = states
      /\ \A x \in Nodes : closed'[x] = "no" => closed[x] = "no"
      /\ \A x, y \in Nodes : x # n \/ y # m => reports'[x][y] = reports[x][y]
      /\ out = "inactive" <=> m \notin states[n]
  <2>1. reportNode(n, m, code)
    BY <1>1
  <2>2. out = "inactive" <=> m \notin states[n]
    BY <2>1, ReportFacts
  <2> QED
    BY <2>1, <2>2, ReportElsewhere
<1>3. CASE n = m
  <2>1. out = "inactive"
    BY <1>2, <1>3 DEF LinkInv
  <2>2. relays' = relays
    BY <1>1, <2>1 DEF ToldFinally
  <2> QED
    BY <1>2, <1>3, <2>2 DEF OnlyAt
<1>4. CASE n # m
  <2>1. \/ relays' = relays /\ out # "reported"
        \/ relays' = With(relays, Message(n, m, "FINAL")) /\ out # "reported"
        \/ relays' = With(relays, Message(n, m, code)) /\ out = "reported"
    BY <1>1 DEF ToldFinally
  <2> HIDE DEF out
  <2>2. \A w \in Whats : relays[Message(n, m, w)] \in Nat
    BY <1>1, <1>4, MessageFacts
  <2>3. CASE relays' = relays /\ out # "reported"
    BY <1>2, <2>3 DEF OnlyAt, Carried, out
  <2>4. CASE relays' = With(relays, Message(n, m, "FINAL")) /\ out # "reported"
    <3>1. /\ \A x, y \in Nodes : \A w \in Whats : x # y /\ (x # n \/ y # m \/ w # "FINAL") =>
               relays'[Message(x, y, w)] = relays[Message(x, y, w)]
          /\ Carried(n, m, "FINAL")'
      BY <1>1, <1>4, <2>4, WithChange DEF Carried
    <3> QED
      BY <1>2, <2>4, <3>1 DEF OnlyAt, Carried, out
  <2>5. CASE relays' = With(relays, Message(n, m, code)) /\ out = "reported"
    <3>1. /\ \A x, y \in Nodes : \A w \in Whats : x # y /\ (x # n \/ y # m \/ w # code) =>
               relays'[Message(x, y, w)] = relays[Message(x, y, w)]
          /\ Carried(n, m, code)'
      BY <1>1, <1>4, <2>5, WithChange DEF Carried
    <3> QED
      BY <1>2, <2>5, <3>1 DEF OnlyAt, Carried, out
  <2> QED
    BY <2>1, <2>3, <2>4, <2>5
<1> QED
  BY <1>3, <1>4

\* The clients did not get connected: the other end is told to begin again.
LEMMA NotConnectedStep ==
  ASSUME TypeOK, LinkInv, NEW n \in Nodes, NEW m \in Nodes, NodeNotConnected(n, m)
  PROVE  LinkInv'
<1> DEFINE code == "NOT_CONNECTING"
<1>1. PICK op \in {"CONNECT_NODE", "VERIFY_NODE_CONNECTED"} : Takes(n, op, m, FALSE)
  BY DEF NodeNotConnected
<1>2. clientReportNode(n, m, code) /\ reportNode(n, m, code) /\ code \in Codes
  BY DEF NodeNotConnected, clientReportNode, Codes
<1>3. OnlyAt(n, m)
  BY <1>2, ReportOnlyAt
<1>4. ASSUME n # m PROVE Pair(n, m)'
  <2>1. Quieter(n, m)
    <3>1. \A w \in {"DISCONNECT", "verify"} : w \in Whats \ {"FINAL", code}
      BY DEF Whats, Codes
    <3>2. \A w \in {"DISCONNECT", "verify"} : Carried(n, m, w)' => Carried(n, m, w)
      BY <1>2, <1>4, <3>1, ReportOnlyAt
    <3> QED
      BY <1>1, <3>2, TakenQuieter
  <2>2. Quieter(m, n)
    BY <1>1, <1>3, <1>4, TakenFacts, UntouchedQuieter
  <2>3. LinkKept(n, m)' => Outcome(n, m, code) = "reported"
    <3>1. states' = states /\ reportNode(n, m, code)
      BY <1>2, <1>3 DEF OnlyAt
    <3>2. /\ Outcome(n, m, code) = "inactive" => m \notin states[n]
          /\ Outcome(n, m, code) \in {"too many", "too wide"} => closed'[n] # "no"
      BY <3>1, ReportFacts
    <3>3. Outcome(n, m, code) \in {"inactive", "too many", "too wide", "counted", "reported"}
          /\ Outcome(n, m, code) # "counted"
      BY <3>1, ReportFacts
    <3> QED
      BY <3>1, <3>2, <3>3 DEF LinkKept, Open
  <2>4. Outcome(n, m, code) = "reported" => Trying(n, m)'
    BY <1>2, <1>4, ReportOnlyAt DEF Trying, Tries
  <2> QED
    BY <1>4, <2>1, <2>2, <2>3, <2>4, SettledPair DEF LinkInv
<1> QED
  BY <1>1, <1>3, <1>4, TakenFacts

\* A client's report: the other manager will connect again, unless one of the two
\* has a report already, and then the two are about to connect.
LEMMA ReportedStep ==
  ASSUME TypeOK, LinkInv, NEW n \in Nodes, NEW m \in Nodes, NodeReported(n, m)
  PROVE  LinkInv'
<1> DEFINE code == "DISCONNECT"
<1>1. Takes(n, "REPORT_NODE", m, TRUE)
  BY DEF NodeReported
<1>2. clientReportNode(n, m, code) /\ reportNode(n, m, code) /\ code \in Codes
  BY DEF NodeReported, clientReportNode, Codes
<1>3. OnlyAt(n, m)
  BY <1>2, ReportOnlyAt
<1>4. ASSUME n # m PROVE Pair(n, m)'
  <2>1. Untouched(m, n) /\ asked' = asked /\ joined' = joined
    BY <1>1, <1>3, <1>4, TakenFacts
  <2>2. Ends(n, m) /\ Ends(m, n) /\ WillConnect(n, m)
    BY <1>4 DEF LinkInv, Pair
  <2>3. /\ ~Says(sent[m], n, "REPORT_NODE") /\ ~Says(sent[m], n, "VERIFY_NODE_CONNECTED")
        /\ ~Carried(n, m, "DISCONNECT") /\ ~Carried(m, n, "DISCONNECT")
        /\ ~Verifying(m, n)
    <3>1. Says(sent[n], m, "REPORT_NODE")
      BY <1>1, SentTail
    <3> QED
      BY <2>2, <3>1 DEF Ends, ReportAlone
  <2>4. /\ ReportFirst(sent'[n], m) /\ ~Says(sent'[n], m, "REPORT_NODE")
        /\ ReportFirst(sent'[m], n) /\ ~Says(sent'[m], n, "REPORT_NODE")
    BY <1>1, <2>1, <2>2, <2>3, SentTail DEF Ends, Untouched
  <2>5. ReportAlone(n, m)' /\ ReportAlone(m, n)'
    BY <2>4 DEF ReportAlone
  <2>6. CASE ~LinkKept(n, m)'
    <3>1. ~LinkKept(m, n)'
      BY <2>6 DEF LinkKept
    <3> QED
      BY <2>4, <2>5, <2>6, <3>1 DEF Pair, Ends, WillClear, WillConnect
  <2>7. CASE LinkKept(n, m)'
    <3>1. states' = states /\ (\A x \in Nodes : closed'[x] = "no" => closed[x] = "no")
          /\ reports'[m][n] = reports[m][n]
      BY <1>3, <1>4 DEF OnlyAt
    <3>2. LinkKept(n, m) /\ LinkKept(m, n) /\ closed'[n] = "no"
      BY <2>7, <3>1 DEF LinkKept, Open
    <3>3. \/ Outcome(n, m, code) = "counted" /\ reports[n][m] # None /\ reports' = reports
          \/ Outcome(n, m, code) = "reported" /\ reports[n][m] = None
      <4>1. /\ Outcome(n, m, code) \in {"inactive", "too many", "too wide", "counted", "reported"}
            /\ Outcome(n, m, code) = "inactive" <=> m \notin states[n]
            /\ Outcome(n, m, code) \in {"too many", "too wide"} => closed'[n] # "no"
        BY <1>2, ReportFacts
      <4>2. /\ Outcome(n, m, code) = "counted" => reports[n][m] # None /\ reports' = reports
            /\ Outcome(n, m, code) = "reported" => reports[n][m] = None
        BY <1>2, ReportFacts
      <4> QED
        BY <3>2, <4>1, <4>2 DEF LinkKept
    <3>4. Trying(n, m) => Trying(n, m)'
      <4>1. /\ "REPORT_NODE" \notin Connecting
            /\ ~Denying([op |-> "REPORT_NODE", node |-> m, ok |-> TRUE], m)
        BY DEF Connecting, Denying
      <4>2. \A what \in Whats : Carried(n, m, what) => Carried(n, m, what)'
        BY <1>2, <1>4, ReportOnlyAt
      <4> QED
        BY <1>1, <1>4, <2>1, <4>1, <4>2, TakenTries
    <3>5. /\ Verifying(n, m) => Verifying(n, m)'
          /\ Confirms(sent[n], m) => Confirms(sent'[n], m)
      <4>1. Confirms(sent[n], m) => Confirms(sent'[n], m)
        <5>1. \A op : Takes(n, op, m, TRUE) /\ Confirms(sent[n], m) =>
                Confirms(sent'[n], m) \/ op = "VERIFY_NODE_CONNECTED"
          BY SentTail
        <5> QED
          BY <1>1, <5>1
      <4>2. Carried(m, n, "verify")' <=> Carried(m, n, "verify")
        BY <2>1 DEF Untouched, Carried, Whats
      <4> QED
        BY <2>1, <4>1, <4>2 DEF Verifying, Asked
    <3>6. ~Confirms(sent[m], n) /\ ~Heard(n, m) /\ ~Heard(m, n)
      BY <2>3 DEF Confirms, Confirming, Says, Heard
    <3>7. reports[m][n] # None => Trying(n, m)'
      <4>1. reports[m][n] # None => Trying(m, n)
        BY <2>2, <2>3, <3>2, <3>6 DEF Ends, WillClear
      <4>2. Trying(m, n) => Trying(n, m)
        BY DEF Trying
      <4> QED
        BY <3>4, <4>1, <4>2
    <3>8. WillClear(m, n)'
      <4>1. Trying(n, m)' => Trying(m, n)'
        BY DEF Trying
      <4> QED
        BY <3>1, <3>7, <4>1 DEF WillClear
    <3>9. CASE Outcome(n, m, code) = "counted" /\ reports[n][m] # None /\ reports' = reports
      <4>1. Trying(n, m)' \/ Verifying(n, m)' \/ Confirms(sent'[n], m)
        BY <2>2, <3>2, <3>4, <3>5, <3>6, <3>9 DEF Ends, WillClear
      <4>2. WillClear(n, m)'
        BY <4>1 DEF WillClear
      <4>3. ~Told(n, m) /\ ~Told(m, n)
        BY <3>9 DEF Told
      <4>4. WillConnect(n, m)'
        BY <2>1, <2>2, <2>3, <3>2, <3>4, <3>5, <3>6, <4>3 DEF WillConnect
      <4> QED
        BY <2>4, <2>5, <3>8, <4>2, <4>4 DEF Pair, Ends
    <3>10. CASE Outcome(n, m, code) = "reported" /\ reports[n][m] = None
      <4>1. Carried(n, m, "DISCONNECT")'
        BY <1>2, <1>4, <3>10, ReportOnlyAt
      <4>2. Trying(n, m)' \/ Heard(m, n)'
        BY <3>1, <3>7, <4>1 DEF Heard
      <4>3. WillClear(n, m)' /\ WillConnect(n, m)'
        BY <4>2 DEF WillClear, WillConnect
      <4> QED
        BY <2>4, <2>5, <3>8, <4>3 DEF Pair, Ends
    <3> QED
      BY <3>3, <3>9, <3>10
  <2> QED
    BY <2>6, <2>7
<1> QED
  BY <1>1, <1>3, <1>4, TakenFacts

----------------------------------------------------------------------------
(* The relays *)

\* A message that reaches a manager: the other links are not touched.
LEMMA ReachedFacts ==
  ASSUME TypeOK, LinkInv, NEW r \in Messages, Reaches(r),
         states' = states,
         \A x \in Nodes : closed'[x] = "no" => closed[x] = "no",
         \A x, y \in Nodes : x # r.to \/ y # r.from => reports'[x][y] = reports[x][y],
         \A x, y \in Nodes : \A q \in Answers :
           x # r.to \/ y # r.from => asked'[x][<<y, q>>] = asked[x][<<y, q>>],
         \A x, y \in Nodes : \A w \in Whats : x # y /\ {x, y} # {r.from, r.to} =>
           relays'[Message(x, y, w)] = relays[Message(x, y, w)]
  PROVE  Pair(r.from, r.to)' => LinkInv'
<1>1. r.from \in Nodes /\ r.to \in Nodes /\ sent' = sent /\ joined' = joined
  BY MessageIs DEF Reaches
<1>2. ASSUME NEW x \in Nodes, NEW y \in Nodes, x # y, {x, y} # {r.from, r.to}
      PROVE  Untouched(x, y)
  <2>1. x # r.to \/ y # r.from
    BY <1>2
  <2> QED
    BY <1>1, <1>2, <2>1 DEF Untouched
<1>3. \A x \in Nodes : x \notin states'[x]
  BY DEF LinkInv
<1>4. \A x, y \in Nodes : x # y /\ {x, y} # {r.from, r.to} =>
        Untouched(x, y) /\ ({x, y} \in joined' <=> {x, y} \in joined)
  BY <1>1, <1>2
<1> QED
  BY <1>1, <1>3, <1>4, OnePair

\* A message that nobody takes: there is no link at that end.
LEMMA DropStep ==
  ASSUME TypeOK, LinkInv, NEW r \in Messages, Drop(r)
  PROVE  LinkInv'
<1> DEFINE x == r.from
        y == r.to
<1>1. /\ x \in Nodes /\ y \in Nodes /\ x # y /\ relays[r] > 0
      /\ relays' = Without(r) /\ UNCHANGED <<states, reports, closed, asked, sent, joined>>
      /\ ~Open(y) \/ x \notin states[y]
  BY MessageIs DEF Drop, Reaches, managerVars
<1>2. /\ \A n, m \in Nodes : \A w \in Whats :
           n # m => /\ relays'[Message(n, m, w)] > 0 => relays[Message(n, m, w)] > 0
                    /\ n # x \/ m # y \/ w # r.what =>
                         relays'[Message(n, m, w)] = relays[Message(n, m, w)]
  BY <1>1, WithoutChange
<1>3. Quieter(x, y) /\ Quieter(y, x)
  BY <1>1, <1>2 DEF Quieter, Asked, Carried, Whats, Codes
<1>4. ~LinkKept(x, y)'
  BY <1>1 DEF LinkKept, Open
<1>5. Pair(x, y)'
  BY <1>1, <1>3, <1>4, SettledPair DEF LinkInv
<1>6. \A n, m \in Nodes : \A w \in Whats : n # m /\ {n, m} # {x, y} =>
        relays'[Message(n, m, w)] = relays[Message(n, m, w)]
  BY <1>1, <1>2
<1>7. Reaches(r)
  BY DEF Drop
<1> QED
  BY <1>1, <1>5, <1>6, <1>7, ReachedFacts

\* A client is asked to go on with connecting, or to verify a connection.
LEMMA AskStep ==
  ASSUME TypeOK, LinkInv, NEW r \in Messages, Ask(r)
  PROVE  LinkInv'
<1> DEFINE x == r.from
        y == r.to
        op == Expected(r.what)
<1>1. /\ x \in Nodes /\ y \in Nodes /\ x # y /\ relays[r] > 0 /\ r = Message(x, y, r.what)
      /\ relays' = Without(r) /\ UNCHANGED <<states, reports, closed, sent, joined>>
      /\ OneMore(y, x, op) /\ Reaches(r)
      /\ r.what \in {"offer", "answer", "verify"}
  BY MessageIs DEF Ask, Reaches, managerVars, OneMore
<1>2. /\ \A n, m \in Nodes : \A w \in Whats :
           n # m => /\ relays'[Message(n, m, w)] > 0 => relays[Message(n, m, w)] > 0
                    /\ n # x \/ m # y \/ w # r.what =>
                         relays'[Message(n, m, w)] = relays[Message(n, m, w)]
  BY <1>1, WithoutChange
<1>3. /\ \A n, m \in Nodes : \A q \in Answers :
           n # y \/ m # x \/ q # op => asked'[n][<<m, q>>] = asked[n][<<m, q>>]
      /\ Asked(y, x, op)'
  <2>1. op \in Answers
    BY <1>1 DEF Expected, Answers
  <2> HIDE DEF op
  <2> QED
    BY <1>1, <2>1, AskedChange
<1>4. ASSUME r.what \in {"offer", "answer"} PROVE Pair(x, y)'
  <2>1. op \in Connecting
    BY <1>4 DEF Expected, Connecting
  <2> HIDE DEF op
  <2>2. Quieter(x, y) /\ Quieter(y, x)
    BY <1>1, <1>2, <1>3, <2>1 DEF Quieter, Asked, Carried, Whats, Codes, Connecting, Answers
  <2>3. Trying(x, y)'
    BY <1>3, <2>1 DEF Trying, Tries
  <2> QED
    BY <1>1, <2>2, <2>3, SettledPair DEF LinkInv
<1>5. ASSUME r.what = "verify" PROVE Pair(x, y)'
  <2>1. op = "VERIFY_NODE_CONNECTED"
    BY <1>5 DEF Expected
  <2> HIDE DEF op
  <2>2. Ends(x, y) /\ Ends(y, x) /\ WillConnect(x, y)
    BY <1>1 DEF LinkInv, Pair
  <2>3. Verifying(y, x) /\ Verifying(y, x)'
    BY <1>1, <1>3, <1>5, <2>1 DEF Verifying, Carried
  <2>4. \A w \in Whats \ {"verify"} :
          (Carried(x, y, w)' <=> Carried(x, y, w)) /\ (Carried(y, x, w)' <=> Carried(y, x, w))
    BY <1>1, <1>2, <1>5 DEF Carried
  <2>5. Verifying(x, y)' <=> Verifying(x, y)
    BY <1>1, <1>2, <1>3 DEF Verifying, Carried, Asked, Whats, Answers
  <2>6. \A q \in Connecting :
          (Asked(x, y, q)' <=> Asked(x, y, q)) /\ (Asked(y, x, q)' <=> Asked(y, x, q))
    <3>1. \A q \in Connecting : q \in Answers /\ q # op
      BY <2>1 DEF Connecting, Answers
    <3>2. \A q \in Connecting : asked'[x][<<y, q>>] = asked[x][<<y, q>>]
      BY <1>1, <1>3, <3>1
    <3>3. \A q \in Connecting : asked'[y][<<x, q>>] = asked[y][<<x, q>>]
      BY <1>1, <1>3, <3>1
    <3> QED
      BY <3>2, <3>3 DEF Asked
  <2>7. Trying(x, y)' <=> Trying(x, y)
    BY <1>1, <2>4, <2>6 DEF Trying, Tries, Whats, Codes
  <2>8. ReportAlone(x, y)' /\ ReportAlone(y, x)'
    <3>1. ~Says(sent'[x], y, "REPORT_NODE")
      BY <1>1, <2>2, <2>3 DEF Ends, ReportAlone
    <3>2. /\ Carried(x, y, "DISCONNECT")' <=> Carried(x, y, "DISCONNECT")
          /\ Carried(y, x, "DISCONNECT")' <=> Carried(y, x, "DISCONNECT")
      BY <2>4 DEF Whats, Codes
    <3> QED
      BY <1>1, <2>2, <2>5, <3>1, <3>2 DEF Ends, ReportAlone
  <2>9. WillClear(x, y)' /\ WillClear(y, x)'
    <3>1. Heard(y, x)' <=> Heard(y, x)
      BY <1>1, <2>4 DEF Heard, Whats, Codes
    <3>2. LinkKept(x, y)' => LinkKept(x, y)
      BY <1>1 DEF LinkKept, Open
    <3> QED
      BY <1>1, <2>2, <2>3, <2>5, <2>7, <3>1, <3>2 DEF Ends, WillClear
  <2>10. WillConnect(x, y)'
    BY <2>3 DEF WillConnect
  <2> QED
    BY <1>1, <2>2, <2>8, <2>9, <2>10 DEF Pair, Ends
<1>6. Pair(x, y)'
  BY <1>1, <1>4, <1>5
<1>7. /\ \A n, m \in Nodes : \A w \in Whats : n # m /\ {n, m} # {x, y} =>
           relays'[Message(n, m, w)] = relays[Message(n, m, w)]
      /\ \A n, m \in Nodes : \A q \in Answers :
           n # y \/ m # x => asked'[n][<<m, q>>] = asked[n][<<m, q>>]
  BY <1>1, <1>2, <1>3
<1> QED
  BY <1>1, <1>6, <1>7, ReachedFacts

\* A report reaches the other manager: its client connects again, unless that
\* manager has a report already, or its client is closed.
LEMMA NotifiedStep ==
  ASSUME TypeOK, LinkInv, NEW r \in Messages, Notified(r)
  PROVE  LinkInv'
<1> DEFINE x == r.from
        y == r.to
        out == Outcome(y, x, r.what)
<1>1. /\ x \in Nodes /\ y \in Nodes /\ x # y /\ relays[r] > 0 /\ Reaches(r)
      /\ reportNode(y, x, r.what) /\ x \in states[y]
      /\ relays' = ToldFinally(y, x, r.what, Without(r))
      /\ r.what \in Codes \union {"FINAL"}
      /\ sent' = sent /\ joined' = joined
  BY MessageIs DEF Notified, Reaches
<1>2. /\ states' = states
      /\ \A n \in Nodes : closed'[n] = "no" => closed[n] = "no"
      /\ \A n, m \in Nodes : n # y \/ m # x => reports'[n][m] = reports[n][m]
  BY <1>1, ReportElsewhere
<1>3. /\ out \in {"too many", "too wide", "counted", "reported"}
      /\ out \in {"too many", "too wide"} => closed'[y] # "no"
      /\ out # "reported" => reports' = reports
      /\ out = "counted" => r.what = "FINAL" \/ (r.what = "DISCONNECT" /\ reports[y][x] # None)
  <2>1. reportNode(y, x, r.what) /\ x \in states[y] /\ x \in Nodes /\ y \in Nodes
    BY <1>1
  <2> HIDE DEF x, y
  <2>2. /\ out \in {"inactive", "too many", "too wide", "counted", "reported"}
        /\ out = "inactive" <=> x \notin states[y]
        /\ out \in {"too many", "too wide"} => closed'[y] # "no"
    BY <2>1, ReportFacts
  <2>3. /\ out # "reported" => reports' = reports
        /\ out = "counted" => r.what = "FINAL" \/ (r.what = "DISCONNECT" /\ reports[y][x] # None)
    BY <2>1, ReportFacts
  <2> HIDE DEF out
  <2> QED
    BY <2>1, <2>2, <2>3
<1>4. /\ out = "reported" => OneMore(y, x, "SEND_OFFER")
      /\ out # "reported" => asked' = asked
  <2>1. asked' = IF out = "reported" THEN [asked EXCEPT ![y][<<x, "SEND_OFFER">>] = @ + 1]
                 ELSE asked
    BY DEF Notified
  <2> HIDE DEF out
  <2>2. CASE out = "reported"
    BY <2>1, <2>2 DEF OneMore
  <2>3. CASE out # "reported"
    BY <2>1, <2>3
  <2> QED
    BY <2>2, <2>3
<1> HIDE DEF out
<1>5. /\ \A n, m \in Nodes : \A q \in Answers :
           n # y \/ m # x \/ q # "SEND_OFFER" => asked'[n][<<m, q>>] = asked[n][<<m, q>>]
      /\ out = "reported" => Asked(y, x, "SEND_OFFER")'
      /\ out # "reported" => asked' = asked
  <2>1. "SEND_OFFER" \in Answers
    BY DEF Answers
  <2> QED
    BY <1>1, <1>4, <2>1, AskedChange
<1>6. \A n, m \in Nodes : \A w \in Whats :
        n # m => /\ w # "FINAL" /\ relays'[Message(n, m, w)] > 0 => relays[Message(n, m, w)] > 0
                 /\ (n # x \/ m # y \/ w # r.what) /\ (n # y \/ m # x \/ w # "FINAL") =>
                      relays'[Message(n, m, w)] = relays[Message(n, m, w)]
  <2>1. /\ Without(r) \in [Messages -> Nat] /\ "FINAL" \in Whats
        /\ \A n, m \in Nodes : \A w \in Whats :
             n # m => /\ Without(r)[Message(n, m, w)] > 0 => relays[Message(n, m, w)] > 0
                      /\ n # x \/ m # y \/ w # r.what =>
                           Without(r)[Message(n, m, w)] = relays[Message(n, m, w)]
    BY <1>1, WithoutChange DEF Whats
  <2>2. relays' = Without(r) \/ relays' = With(Without(r), Message(y, x, "FINAL"))
    BY <1>1 DEF ToldFinally
  <2>3. \A n, m \in Nodes : \A w \in Whats :
          n # m /\ (n # y \/ m # x \/ w # "FINAL") =>
            relays'[Message(n, m, w)] = Without(r)[Message(n, m, w)]
    BY <1>1, <2>1, <2>2, WithChange
  <2> QED
    BY <2>1, <2>3
<1>7. Quieter(x, y) /\ Quieter(y, x)
  BY <1>1, <1>5, <1>6 DEF Quieter, Asked, Carried, Whats, Codes, Answers
<1>8. ASSUME out # "counted" PROVE Pair(x, y)'
  <2>1. LinkKept(x, y)' => Trying(x, y)'
    BY <1>1, <1>3, <1>5, <1>8 DEF LinkKept, Open, Trying, Tries, Connecting
  <2> QED
    BY <1>1, <1>7, <2>1, SettledPair DEF LinkInv
<1>9. ASSUME out = "counted" PROVE Pair(x, y)'
  <2>1. Ends(x, y) /\ Ends(y, x) /\ WillConnect(x, y)
    BY <1>1 DEF LinkInv, Pair
  <2>2. reports' = reports /\ asked' = asked /\ sent' = sent /\ joined' = joined
    BY <1>1, <1>3, <1>5, <1>9
  <2>3. LinkKept(x, y)' => LinkKept(x, y)
    BY <1>1, <1>2 DEF LinkKept, Open
  <2>4. /\ \A w \in Whats \ {"FINAL", "DISCONNECT"} :
             (Carried(x, y, w)' <=> Carried(x, y, w)) /\ (Carried(y, x, w)' <=> Carried(y, x, w))
        /\ Carried(y, x, "DISCONNECT")' <=> Carried(y, x, "DISCONNECT")
        /\ reports[y][x] = None => (Carried(x, y, "DISCONNECT")' <=> Carried(x, y, "DISCONNECT"))
    BY <1>1, <1>3, <1>6, <1>9 DEF Carried, Whats, Codes
  <2>5. Trying(x, y)' <=> Trying(x, y)
    BY <2>2, <2>4 DEF Trying, Tries, Asked, Whats, Codes
  <2>6. (Verifying(x, y)' <=> Verifying(x, y)) /\ (Verifying(y, x)' <=> Verifying(y, x))
    BY <2>2, <2>4 DEF Verifying, Asked, Whats, Codes
  <2>7. (Heard(x, y)' <=> Heard(x, y)) /\ (Heard(y, x)' <=> Heard(y, x))
        /\ (Told(x, y)' <=> Told(x, y)) /\ (Told(y, x)' <=> Told(y, x))
    BY <2>2, <2>4 DEF Heard, Told
  <2>8. WillClear(x, y)'
    BY <2>1, <2>2, <2>3, <2>5, <2>6, <2>7 DEF Ends, WillClear
  <2>9. WillClear(y, x)'
    <3>1. (LinkKept(y, x)' => LinkKept(y, x)) /\ (Trying(y, x)' <=> Trying(y, x))
      BY <2>3, <2>5 DEF LinkKept, Trying
    <3> QED
      BY <2>1, <2>2, <2>6, <2>7, <3>1 DEF Ends, WillClear
  <2>10. WillConnect(x, y)'
    BY <2>1, <2>2, <2>3, <2>5, <2>6, <2>7 DEF WillConnect
  <2>11. Pair(x, y)
    BY <1>1 DEF LinkInv
  <2> QED
    BY <1>1, <1>7, <2>8, <2>9, <2>10, <2>11, QuieterEnds DEF Pair, Ends
<1>10. Pair(x, y)'
  BY <1>8, <1>9
<1>11. /\ \A n, m \in Nodes : \A w \in Whats : n # m /\ {n, m} # {x, y} =>
            relays'[Message(n, m, w)] = relays[Message(n, m, w)]
       /\ \A n, m \in Nodes : \A q \in Answers :
            n # y \/ m # x => asked'[n][<<m, q>>] = asked[n][<<m, q>>]
  BY <1>1, <1>5, <1>6
<1> QED
  BY <1>1, <1>2, <1>10, <1>11, ReachedFacts

----------------------------------------------------------------------------
\* Nothing is under way, and there is no link, at first.
LEMMA InitLink == Init => LinkInv
<1> SUFFICES ASSUME Init, NEW n \in Nodes, NEW m \in Nodes, n # m
             PROVE  n \notin states[n] /\ Pair(n, m)
  BY DEF Init, LinkInv
<1>1. /\ states[n] = {} /\ states[m] = {}
      /\ sent[n] = <<>> /\ sent[m] = <<>>
  BY DEF Init
<1>2. ~LinkKept(n, m) /\ ~LinkKept(m, n)
  BY <1>1 DEF LinkKept
<1>3. DOMAIN sent[n] = {} /\ DOMAIN sent[m] = {}
  BY <1>1
<1>4. Ends(n, m) /\ Ends(m, n)
  BY <1>2, <1>3 DEF Ends, ReportFirst, ReportAlone, WillClear, Says
<1> QED
  BY <1>1, <1>2, <1>4 DEF Pair, WillConnect

\* When connections are lost calmly, every step keeps the invariant.
LEMMA StepLink ==
  ASSUME Calm, TypeOK, LinkInv, [Next]_vars
  PROVE  LinkInv'
<1>1. ASSUME NEW n \in Nodes, NEW m \in Nodes, NEW op \in Answers, ClientStep(n, m, op)
      PROVE  LinkInv'
  <2>1. CASE AnswerOffer(n, m, op)
    <3>1. op \in Connecting /\ Answer(n, m, op, TRUE) /\ joined' = joined
      BY <2>1 DEF AnswerOffer, Connecting
    <3> QED
      BY <3>1, ConnectingStep
  <2>2. CASE op = "CONNECT_NODE" /\ Connects(n, m)
    <3>1. op \in Connecting /\ Answer(n, m, op, TRUE) /\ joined' = joined \union {{n, m}}
      BY <2>2 DEF Connects, Connecting
    <3>2. \A x, y \in Nodes : {x, y} # {n, m} => ({x, y} \in joined' <=> {x, y} \in joined)
      BY <3>1
    <3> QED
      BY <3>1, <3>2, ConnectingStep
  <2>3. CASE op = "CONNECT_NODE" /\ FailsToConnect(n, m)
    <3>1. op \in Connecting /\ Answer(n, m, op, FALSE) /\ joined' = joined
      BY <2>3 DEF FailsToConnect, Connecting
    <3> QED
      BY <3>1, ConnectingStep
  <2>4. CASE Verifies(n, m)
    BY <2>4, VerifyStep
  <2> QED
    BY <1>1, <2>1, <2>2, <2>3, <2>4 DEF ClientStep
<1>2. ASSUME NEW n \in Nodes, Handle(n) PROVE LinkInv'
  <2>1. ASSUME NEW m \in Nodes, SendOffer(n, m) \/ SendAnswer(n, m) PROVE LinkInv'
    BY <2>1, PassStep DEF SendOffer, SendAnswer
  <2> QED
    BY <1>2, <2>1, ConnectedStep, VerifiedStep, NotConnectedStep, ReportedStep DEF Handle
<1>3. ASSUME NEW r \in Messages, Delivery(r) PROVE LinkInv'
  BY <1>3, DropStep, AskStep, NotifiedStep DEF Delivery
<1>4. CASE UNCHANGED vars
  <2>1. UNCHANGED <<states, reports, closed, asked, sent, relays, joined>>
    BY <1>4 DEF vars, managerVars, clientVars
  <2>2. \A n, m \in Nodes : Untouched(n, m)
    BY <2>1 DEF Untouched
  <2> QED
    BY <2>1, <2>2, UntouchedPair DEF LinkInv
<1> QED
  BY <1>1, <1>2, <1>3, <1>4, LinkStep, UnlinkStep, LeaveStep, CloseStep, LoseStep DEF Next

\* The invariant always holds.
THEOREM LinkInvariant ==
  ASSUME Calm
  PROVE  Spec => []LinkInv
<1>1. TypeOK /\ LinkInv /\ [Next]_vars => LinkInv'
  BY StepLink
<1> QED
  BY <1>1, InitLink, TypeCorrect, PTL DEF Spec

\* No kept link is forgotten: its clients are connected, or a request, an answer, a
\* relay or a report about it is under way (sendOffer to nodeReported).
THEOREM LinksNeverForgotten ==
  ASSUME Calm
  PROVE  Spec => []NoLinkForgotten
<1>1. LinkInv => NoLinkForgotten
  <2> SUFFICES ASSUME LinkInv, NEW i \in Nodes, NEW j \in Nodes, LinkKept(i, j),
                      ~InHand(i, j), ~InHand(j, i)
               PROVE  {i, j} \in joined
    BY DEF NoLinkForgotten
  <2>1. i # j
    BY DEF LinkInv, LinkKept
  <2> QED
    BY <2>1, AtRest DEF LinkInv
<1> QED
  BY <1>1, LinkInvariant, PTL

\* When all has been said about a link, neither manager has a report of the other
\* left (clearReport in nodeConnected and verifyNodeConnected).
THEOREM SlateAlwaysClean ==
  ASSUME Calm
  PROVE  Spec => []CleanSlate
<1>1. LinkInv => CleanSlate
  <2> SUFFICES ASSUME LinkInv, NEW i \in Nodes, NEW j \in Nodes, LinkKept(i, j),
                      ~InHand(i, j), ~InHand(j, i)
               PROVE  reports[i][j] = None
    BY DEF CleanSlate
  <2>1. i # j
    BY DEF LinkInv, LinkKept
  <2> QED
    BY <2>1, AtRest DEF LinkInv
<1> QED
  BY <1>1, LinkInvariant, PTL
=============================================================================
