---------------------------- MODULE NodeProtocol ----------------------------
(***************************************************************************)
(* How two node managers get their clients connected: CONNECT_NODE to one  *)
(* client, its offer relayed to the other, the answer relayed back, the    *)
(* result, and a VERIFY_NODE_CONNECTED to the other; and what is reported  *)
(* when that fails or a connection is lost (node_manager.go).  Every       *)
(* request to a client carries a key the answer must bring back.  Every    *)
(* message for the other manager goes by a goroutine of its own, so that   *)
(* they overtake each other, and finds whatever manager is there then.     *)
(*                                                                         *)
(* The pool tells both managers of a link, or of its end, under the write  *)
(* lock, which keeps the relays out; PoolTopology shows that they agree.   *)
(* A device that left and one that comes again have one NodeID: its new    *)
(* manager starts from nothing, like the manager of a node without links.  *)
(* Requests whose answer changes nothing are left out, but for their being *)
(* late (NotCompliant).                                                    *)
(***************************************************************************)
EXTENDS Integers, FiniteSets, Sequences

CONSTANTS
  Nodes,             \* the NodeIDs
  MaxReports,        \* MAX_REPORTS
  MaxUniqueReports,  \* MAX_UNIQUE_REPORTS
  Calm,              \* connections are lost only as Lose says
  MaxLinks,          \* bound on the links made in a behaviour
  MaxLosses,         \* bound on the failures to connect and connections lost
  None               \* no report

ASSUME ProtocolAssumption ==
  /\ MaxReports \in Nat \ {0} /\ MaxUniqueReports \in Nat
  /\ Calm \in BOOLEAN
  /\ MaxLinks \in Nat /\ MaxLosses \in Nat

VARIABLES
  states,   \* states[n]: the nodes that are active in n's nodeStates
  reports,  \* reports[n][m]: the code in n's curReports for m, or None
  count,    \* count[n]: curReportsCount
  closed,   \* closed[n]: clientErr, and whether it came from the reports
  asked,    \* asked[n][<<m, op>>]: requests about m that n's client has to answer with op
  sent,     \* sent[n]: the messages of n's client that its manager has not handled
  relays,   \* relays[r]: how many goroutines carry the message r
  joined,   \* the pairs of clients that are connected to each other
  inRow,    \* how often clients failed since some connected last
  made, losses

managerVars == <<states, reports, count, closed>>
clientVars == <<asked, sent, joined, inRow>>
vars == <<managerVars, clientVars, relays, made, losses>>

Answers == {"SEND_OFFER", "ANSWER_OFFER", "CONNECT_NODE", "VERIFY_NODE_CONNECTED"}
Codes == {"NOT_CONNECTING", "DISCONNECT"}
Messages == {r \in [from : Nodes, to : Nodes,
                    what : {"offer", "answer", "verify", "FINAL"} \union Codes] :
               r.from # r.to}

Open(n) == closed[n] = "no"

Init ==
  /\ states = [n \in Nodes |-> {}]
  /\ reports = [n \in Nodes |-> [m \in Nodes |-> None]]
  /\ count = [n \in Nodes |-> 0]
  /\ closed = [n \in Nodes |-> "no"]
  /\ asked = [n \in Nodes |-> [q \in Nodes \X Answers |-> 0]]
  /\ sent = [n \in Nodes |-> <<>>]
  /\ relays = [r \in Messages |-> 0]
  /\ joined = {}
  /\ inRow = 0
  /\ made = 0 /\ losses = 0

----------------------------------------------------------------------------
(* The pool: a link, its end, a node that leaves *)

\* connectNode(j) at i; both ends take the link for active.
Link(i, j) ==
  /\ i # j /\ made < MaxLinks
  /\ Open(i) \/ Open(j)
  /\ Open(i) => j \notin states[i]
  /\ Open(j) => i \notin states[j]
  /\ states' = [n \in Nodes |->
                  CASE n = i /\ Open(i) -> states[i] \union {j}
                    [] n = j /\ Open(j) -> states[j] \union {i}
                    [] OTHER -> states[n]]
  /\ asked' = IF Open(i) THEN [asked EXCEPT ![i][<<j, "SEND_OFFER">>] = @ + 1] ELSE asked
  /\ made' = made + 1
  /\ UNCHANGED <<reports, count, closed, sent, relays, joined, inRow, losses>>

\* Fault: disconnectNode does not clear the report.
DisconnectNodeKeeping(gone) ==
  /\ states' = [n \in Nodes |-> states[n] \ gone[n]]
  /\ UNCHANGED <<reports, count>>

\* disconnectNode(m) at n, for every m in gone[n].
DisconnectNode(gone) ==
  /\ states' = [n \in Nodes |-> states[n] \ gone[n]]
  /\ reports' = [n \in Nodes |->
                   [m \in Nodes |-> IF m \in gone[n] THEN None ELSE reports[n][m]]]
  /\ count' = [n \in Nodes |-> IF gone[n] = {} THEN count[n] ELSE 0]

Unlink(i, j) ==
  /\ (Open(i) /\ j \in states[i]) \/ (Open(j) /\ i \in states[j])
  /\ DisconnectNode([n \in Nodes |->
       CASE n = i /\ Open(i) -> {j} [] n = j /\ Open(j) -> {i} [] OTHER -> {}])
  /\ joined' = joined \ {{i, j}}
  /\ UNCHANGED <<closed, asked, sent, relays, inRow, made, losses>>

\* The other managers are told; n's own ends.
Leave(n) ==
  /\ DisconnectNode([m \in Nodes |->
       IF m = n THEN Nodes ELSE IF Open(m) THEN states[m] \intersect {n} ELSE {}])
  /\ closed' = [closed EXCEPT ![n] = "no"]
  /\ asked' = [asked EXCEPT ![n] = [q \in Nodes \X Answers |-> 0]]
  /\ sent' = [sent EXCEPT ![n] = <<>>]
  /\ joined' = {p \in joined : n \notin p}
  /\ UNCHANGED <<relays, inRow, made, losses>>

----------------------------------------------------------------------------
(* The clients.  A client answers every request; it can connect to another  *)
(* when that one has the link too.                                          *)

Send(n, op, m, ok) == sent' = [sent EXCEPT ![n] = Append(@, [op |-> op, node |-> m, ok |-> ok])]

Answer(n, m, op, ok) ==
  /\ Open(n) /\ asked[n][<<m, op>>] > 0
  /\ asked' = [asked EXCEPT ![n][<<m, op>>] = @ - 1]
  /\ Send(n, op, m, ok)
  /\ UNCHANGED <<managerVars, relays, made>>

Fails(i, j) ==
  /\ losses' = IF i \in states[j] THEN losses + 1 ELSE losses
  /\ inRow' = inRow + 1

\* An offer or an answer to one.
AnswerOffer(n, m, op) ==
  /\ op \in {"SEND_OFFER", "ANSWER_OFFER"}
  /\ Answer(n, m, op, TRUE)
  /\ UNCHANGED <<joined, inRow, losses>>

Connects(n, m) ==
  /\ n \in states[m]
  /\ Answer(n, m, "CONNECT_NODE", TRUE)
  /\ joined' = joined \union {{n, m}}
  /\ inRow' = 0
  /\ UNCHANGED losses

FailsToConnect(n, m) ==
  /\ {n, m} \notin joined
  /\ Answer(n, m, "CONNECT_NODE", FALSE)
  /\ n \in states[m] => losses < MaxLosses
  /\ Fails(n, m)
  /\ UNCHANGED joined

Verifies(n, m) ==
  /\ Answer(n, m, "VERIFY_NODE_CONNECTED", {n, m} \in joined)
  /\ UNCHANGED <<joined, inRow, losses>>

\* Something about the link to j is under way at i, or from i to j.
InHand(i, j) ==
  \/ \E op \in Answers : asked[i][<<j, op>>] > 0
  \/ \E k \in DOMAIN sent[i] : sent[i][k].node = j
  \/ \E r \in Messages : r.from = i /\ r.to = j /\ r.what # "FINAL" /\ relays[r] > 0

\* A connection is lost; the clients in noticing find out and report it.  Calm:
\* only when nothing is under way for it, and one client finds out.
Lose(i, j, noticing) ==
  /\ {i, j} \in joined /\ losses < MaxLosses
  /\ noticing \in (SUBSET {i, j}) \ {{}}
  /\ Calm => Cardinality(noticing) = 1 /\ ~InHand(i, j) /\ ~InHand(j, i)
  /\ joined' = joined \ {{i, j}}
  /\ Fails(i, j)
  /\ sent' = [n \in Nodes |->
                IF n \in noticing /\ Open(n)
                THEN Append(sent[n], [op |-> "REPORT_NODE", ok |-> TRUE,
                                      node |-> IF n = i THEN j ELSE i])
                ELSE sent[n]]
  /\ UNCHANGED <<managerVars, asked, relays, made>>

----------------------------------------------------------------------------
(* Reports *)

\* Fault: one report more is let pass.
OutcomeLate(n, m, code) ==
  IF m \notin states[n] THEN "inactive"
  ELSE IF count[n] >= MaxReports THEN "too many"
  ELSE IF code = "FINAL" \/ (code = "DISCONNECT" /\ reports[n][m] # None) THEN "counted"
  ELSE IF Cardinality({k \in Nodes : reports[n][k] # None}) >= MaxUniqueReports THEN "too wide"
  ELSE "reported"

\* Fault: the code is not looked at, a report that is there is never replaced.
OutcomeOnce(n, m, code) ==
  IF m \notin states[n] THEN "inactive"
  ELSE IF count[n] + 1 >= MaxReports THEN "too many"
  ELSE IF code = "FINAL" \/ reports[n][m] # None THEN "counted"
  ELSE IF Cardinality({k \in Nodes : reports[n][k] # None}) >= MaxUniqueReports THEN "too wide"
  ELSE "reported"

\* What comes of reportNode(m, code) at n.
Outcome(n, m, code) ==
  IF m \notin states[n] THEN "inactive"
  ELSE IF count[n] + 1 >= MaxReports THEN "too many"
  ELSE IF code = "FINAL" \/ (code = "DISCONNECT" /\ reports[n][m] # None) THEN "counted"
  ELSE IF Cardinality({k \in Nodes : reports[n][k] # None}) >= MaxUniqueReports THEN "too wide"
  ELSE "reported"

reportNode(n, m, code) ==
  LET out == Outcome(n, m, code) IN
  /\ count' = IF out = "inactive" THEN count ELSE [count EXCEPT ![n] = @ + 1]
  /\ reports' = IF out = "reported" THEN [reports EXCEPT ![n][m] = code] ELSE reports
  /\ closed' = IF out \in {"too many", "too wide"} THEN [closed EXCEPT ![n] = "reports"]
               ELSE closed
  /\ UNCHANGED states

Message(n, m, what) == [from |-> n, to |-> m, what |-> what]
With(msgs, r) == [msgs EXCEPT ![r] = @ + 1]
Without(r) == [relays EXCEPT ![r] = @ - 1]

\* The other node is told of the last report before n's client is closed.
ToldFinally(n, m, code, msgs) ==
  IF Outcome(n, m, code) = "too many" /\ code # "FINAL"
  THEN With(msgs, Message(n, m, "FINAL")) ELSE msgs

clientReportNode(n, m, code) ==
  /\ reportNode(n, m, code)
  /\ relays' = IF Outcome(n, m, code) = "reported" THEN With(relays, Message(n, m, code))
               ELSE ToldFinally(n, m, code, relays)

\* Fault: the count goes on.
clearReportOnly(n, m) ==
  /\ reports' = [reports EXCEPT ![n][m] = None]
  /\ UNCHANGED <<states, count, closed>>

clearReport(n, m) ==
  /\ reports' = [reports EXCEPT ![n][m] = None]
  /\ count' = [count EXCEPT ![n] = 0]
  /\ UNCHANGED <<states, closed>>

Inactive(n, m) == m \notin states[n] /\ UNCHANGED <<managerVars, relays>>

----------------------------------------------------------------------------
(* The manager handles a message of its client (PNCMT_RECEIVED_SS_MESSAGE) *)

Takes(n, op, m, ok) ==
  /\ Open(n) /\ sent[n] # <<>>
  /\ Head(sent[n]) = [op |-> op, node |-> m, ok |-> ok]
  /\ sent' = [sent EXCEPT ![n] = Tail(@)]
  /\ UNCHANGED <<asked, joined, inRow, made, losses>>

Passes(n, m, what) ==
  \/ Inactive(n, m)
  \/ /\ m \in states[n]
     /\ relays' = With(relays, Message(n, m, what))
     /\ UNCHANGED managerVars

SendOffer(n, m) == Takes(n, "SEND_OFFER", m, TRUE) /\ Passes(n, m, "offer")
SendAnswer(n, m) == Takes(n, "ANSWER_OFFER", m, TRUE) /\ Passes(n, m, "answer")

NodeConnected(n, m) ==
  /\ Takes(n, "CONNECT_NODE", m, TRUE)
  /\ \/ Inactive(n, m)
     \/ /\ m \in states[n]
        /\ clearReport(n, m)
        /\ relays' = With(relays, Message(n, m, "verify"))

\* Fault: a confirmed connection leaves the report in place.
NodeVerifiedKeeping(n, m) ==
  /\ Takes(n, "VERIFY_NODE_CONNECTED", m, TRUE)
  /\ UNCHANGED <<managerVars, relays>>

NodeVerified(n, m) ==
  /\ Takes(n, "VERIFY_NODE_CONNECTED", m, TRUE)
  /\ \/ Inactive(n, m)
     \/ m \in states[n] /\ clearReport(n, m) /\ UNCHANGED relays

NodeNotConnected(n, m) ==
  /\ \E op \in {"CONNECT_NODE", "VERIFY_NODE_CONNECTED"} : Takes(n, op, m, FALSE)
  /\ clientReportNode(n, m, "NOT_CONNECTING")

NodeReported(n, m) ==
  /\ Takes(n, "REPORT_NODE", m, TRUE)
  /\ clientReportNode(n, m, "DISCONNECT")

\* A message without its key, with another's, with data that does not fit, or
\* an offer that failed; an answer that is late when the timer ticks; or a
\* write to the client that fails.
NotCompliant(n) ==
  /\ Open(n)
  /\ closed' = [closed EXCEPT ![n] = "client"]
  /\ UNCHANGED <<states, reports, count, clientVars, relays, made, losses>>

----------------------------------------------------------------------------
(* A relay reaches the other manager (SendToNodeInPool) *)

Reaches(r) == relays[r] > 0 /\ UNCHANGED <<sent, joined, inRow, made, losses>>

Drop(r) ==
  /\ Reaches(r)
  /\ ~Open(r.to) \/ r.from \notin states[r.to]
  /\ relays' = Without(r)
  /\ UNCHANGED <<managerVars, asked>>

Expected(what) ==
  CASE what = "offer" -> "ANSWER_OFFER"
    [] what = "answer" -> "CONNECT_NODE"
    [] what = "verify" -> "VERIFY_NODE_CONNECTED"

\* PNCMT_SEND_SS_MESSAGE: the client is asked, under a new key.
Ask(r) ==
  /\ r.what \in {"offer", "answer", "verify"}
  /\ Reaches(r)
  /\ Open(r.to) /\ r.from \in states[r.to]
  /\ relays' = Without(r)
  /\ asked' = [asked EXCEPT ![r.to][<<r.from, Expected(r.what)>>] = @ + 1]
  /\ UNCHANGED managerVars

\* Fault: the receiver of a report does not connect.
NotifiedOnly(r) ==
  /\ r.what \in Codes \union {"FINAL"}
  /\ Reaches(r)
  /\ Open(r.to) /\ r.from \in states[r.to]
  /\ reportNode(r.to, r.from, r.what)
  /\ relays' = ToldFinally(r.to, r.from, r.what, Without(r))
  /\ UNCHANGED asked

\* PNCMT_NOTIFY_REPORT_NODE: the receiver of a report connects anew.
Notified(r) ==
  /\ r.what \in Codes \union {"FINAL"}
  /\ Reaches(r)
  /\ Open(r.to) /\ r.from \in states[r.to]
  /\ reportNode(r.to, r.from, r.what)
  /\ relays' = ToldFinally(r.to, r.from, r.what, Without(r))
  /\ asked' = IF Outcome(r.to, r.from, r.what) = "reported"
              THEN [asked EXCEPT ![r.to][<<r.from, "SEND_OFFER">>] = @ + 1] ELSE asked

----------------------------------------------------------------------------
Handle(n) ==
  \E m \in Nodes :
    \/ SendOffer(n, m) \/ SendAnswer(n, m) \/ NodeConnected(n, m)
    \/ NodeVerified(n, m) \/ NodeNotConnected(n, m) \/ NodeReported(n, m)

ClientStep(n, m, op) ==
  \/ AnswerOffer(n, m, op)
  \/ op = "CONNECT_NODE" /\ (Connects(n, m) \/ FailsToConnect(n, m))
  \/ op = "VERIFY_NODE_CONNECTED" /\ Verifies(n, m)

Delivery(r) == Drop(r) \/ Ask(r) \/ Notified(r)

Next ==
  \/ \E i, j \in Nodes : \/ Link(i, j) \/ Unlink(i, j) \/ \E op \in Answers : ClientStep(i, j, op)
                         \/ \E s \in SUBSET Nodes : Lose(i, j, s)
  \/ \E n \in Nodes : Leave(n) \/ Handle(n) \/ NotCompliant(n)
  \/ \E r \in Messages : Delivery(r)

Spec == Init /\ [][Next]_vars

\* A client answers its requests, or is closed when an answer is late; what a
\* client sent is handled, and the goroutines that carry messages run.
Fairness ==
  \A n \in Nodes :
    /\ WF_vars(\E m \in Nodes, op \in Answers :
                 ClientStep(n, m, op) \/ (asked[n][<<m, op>>] > 0 /\ NotCompliant(n)))
    /\ WF_vars(Handle(n))
    /\ WF_vars(\E r \in Messages : r.to = n /\ Delivery(r))

FairSpec == Spec /\ Fairness

----------------------------------------------------------------------------
(* Properties *)

\* The state is well formed: a manager counts up to MAX_REPORTS and not past it.
TypeOK ==
  /\ states \in [Nodes -> SUBSET Nodes]
  /\ reports \in [Nodes -> [Nodes -> Codes \union {None}]]
  /\ count \in [Nodes -> 0..MaxReports]
  /\ closed \in [Nodes -> {"no", "reports", "client"}]
  /\ asked \in [Nodes -> [Nodes \X Answers -> Nat]]
  /\ sent \in [Nodes -> Seq([op : Answers \union {"REPORT_NODE"}, node : Nodes, ok : BOOLEAN])]
  /\ relays \in [Messages -> Nat]
  /\ joined \subseteq SUBSET Nodes
  /\ {inRow, made, losses} \subseteq Nat

\* A manager keeps reports of the nodes it has a link to, whatever late answers
\* and notifications come after the link is gone: one that stayed would make
\* the first loss on the next link to that node go unheard (node_manager.go:426).
ReportsAreOfLinks ==
  \A n, m \in Nodes : reports[n][m] # None => m \in states[n]

LinkKept(i, j) == Open(i) /\ Open(j) /\ j \in states[i] /\ i \in states[j]

\* While both managers keep a link, its clients are connected or something is
\* under way for it, a request, an answer, a relay or a report: the code has no
\* timer that would look after a link nobody works on.
NoLinkForgotten ==
  \A i, j \in Nodes :
    LinkKept(i, j) => {i, j} \in joined \/ InHand(i, j) \/ InHand(j, i)

\* Once all has been said about a link, neither manager has a report of the
\* other node left: the connection that followed a report clears it at both ends.
CleanSlate ==
  \A i, j \in Nodes :
    LinkKept(i, j) /\ ~InHand(i, j) /\ ~InHand(j, i) => reports[i][j] = None

\* On a first link, no client is closed for its reports before it failed
\* MAX_REPORTS times in a row: a failure counts once at each manager, and a
\* connection starts the count again.  (What is left of an earlier link may be
\* counted against a later one.)
ClosedAfterFailures ==
  \A n \in Nodes : closed[n] = "reports" /\ made = 1 => inRow >= MaxReports

\* A link that is kept gets its clients connected, after every loss anew.
EventuallyConnected ==
  \A i, j \in Nodes : LinkKept(i, j) ~> ({i, j} \in joined \/ ~LinkKept(i, j))
============================================================================
