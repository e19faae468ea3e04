------------------------- MODULE NodeProtocolProofs -------------------------
(***************************************************************************)
(* Proofs about NodeProtocol, for any set of nodes, any MAX_REPORTS that   *)
(* is not 0, any MAX_UNIQUE_REPORTS, and any number of links and losses,   *)
(* calm or not: the messages may overtake each other and come late.        *)
(*                                                                         *)
(* That a manager counts up to MAX_REPORTS and not past it needs Counting: *)
(* the report that fills the count closes the client, and a closed client  *)
(* counts nothing.                                                         *)
(***************************************************************************)
EXTENDS NodeProtocol, SequenceTheorems, TLAPS

\* What a client sends.
Sent == [op : Answers \union {"REPORT_NODE"}, node : Nodes, ok : BOOLEAN]

\* The manager of an open client has room for a report.
Counting == \A n \in Nodes : Open(n) => count[n] < MaxReports

ProtocolInv == TypeOK /\ Counting /\ ReportsAreOfLinks

\* The invariant holds at first.
LEMMA InitInv == Init => ProtocolInv
<1> SUFFICES ASSUME Init PROVE ProtocolInv
  OBVIOUS
<1>1. sent \in [Nodes -> Seq(Sent)]
  BY DEF Init
<1>2. TypeOK
  BY <1>1, ProtocolAssumption DEF Init, TypeOK, Sent
<1>3. Counting /\ ReportsAreOfLinks
  BY ProtocolAssumption DEF Init, Counting, ReportsAreOfLinks
<1> QED
  BY <1>2, <1>3 DEF ProtocolInv

\* One more, or one less where there is one, keeps counts counts.
LEMMA CountTypes ==
  ASSUME NEW S, NEW f \in [S -> Nat], NEW x \in S
  PROVE  /\ [f EXCEPT ![x] = @ + 1] \in [S -> Nat]
         /\ f[x] > 0 => [f EXCEPT ![x] = @ - 1] \in [S -> Nat]
OBVIOUS

\* A message that is handed to a goroutine keeps the relays well formed.
LEMMA RelayTypes ==
  ASSUME NEW msgs \in [Messages -> Nat], NEW r
  PROVE  With(msgs, r) \in [Messages -> Nat]
<1>1. CASE r \in Messages
  BY <1>1 DEF With
<1>2. CASE r \notin Messages
  BY <1>2 DEF With
<1> QED
  BY <1>1, <1>2

\* A message that arrives keeps the relays well formed.
LEMMA WithoutType ==
  ASSUME relays \in [Messages -> Nat], NEW r \in Messages, relays[r] > 0
  PROVE  Without(r) \in [Messages -> Nat]
BY DEF Without

\* Telling the other node of the last report keeps the relays well formed.
LEMMA ToldType ==
  ASSUME NEW msgs \in [Messages -> Nat], NEW n, NEW m, NEW code
  PROVE  ToldFinally(n, m, code, msgs) \in [Messages -> Nat]
BY RelayTypes DEF ToldFinally

\* A client's answer takes a request back and sends a message; no manager changes.
LEMMA AnswerTypes ==
  ASSUME TypeOK, NEW n \in Nodes, NEW m \in Nodes, NEW op \in Answers, NEW ok \in BOOLEAN,
         Answer(n, m, op, ok)
  PROVE  /\ asked' \in [Nodes -> [Nodes \X Answers -> Nat]]
         /\ sent' \in [Nodes -> Seq(Sent)]
         /\ UNCHANGED <<states, reports, count, closed, relays, made>>
<1>1. asked \in [Nodes -> [Nodes \X Answers -> Nat]] /\ sent \in [Nodes -> Seq(Sent)]
  BY DEF TypeOK, Sent
<1>2. asked' \in [Nodes -> [Nodes \X Answers -> Nat]]
  <2>1. <<m, op>> \in Nodes \X Answers
    OBVIOUS
  <2>2. asked[n][<<m, op>>] > 0 /\ asked' = [asked EXCEPT ![n][<<m, op>>] = @ - 1]
    BY DEF Answer
  <2>3. asked[n] \in [Nodes \X Answers -> Nat]
    BY <1>1
  <2> DEFINE new == [asked[n] EXCEPT ![<<m, op>>] = @ - 1]
  <2>4. new \in [Nodes \X Answers -> Nat]
    BY <2>1, <2>2, <2>3, CountTypes
  <2>5. asked' = [asked EXCEPT ![n] = new]
    BY <2>2
  <2> HIDE DEF new
  <2> QED
    BY <1>1, <2>4, <2>5
<1>3. sent' \in [Nodes -> Seq(Sent)]
  <2> DEFINE new == [op |-> op, node |-> m, ok |-> ok]
  <2>1. new \in Sent
    BY DEF Sent
  <2>2. sent' = [sent EXCEPT ![n] = Append(@, new)]
    BY DEF Answer, Send
  <2> HIDE DEF new
  <2> QED
    BY <1>1, <2>1, <2>2
<1> QED
  BY <1>2, <1>3 DEF Answer, managerVars

\* An open manager takes a message of its client, and nothing else changes by that.
LEMMA TakesTypes ==
  ASSUME TypeOK, NEW n \in Nodes, NEW op, NEW m, NEW ok, Takes(n, op, m, ok)
  PROVE  /\ sent' \in [Nodes -> Seq(Sent)] /\ Open(n)
         /\ UNCHANGED <<asked, joined, inRow, made, losses>>
<1>1. sent \in [Nodes -> Seq(Sent)]
  BY DEF TypeOK, Sent
<1>2. sent' = [sent EXCEPT ![n] = Tail(@)] /\ sent[n] # <<>>
  BY DEF Takes
<1> QED
  BY <1>1, <1>2 DEF Takes

\* reportNode keeps a report for a node it has a link to only, and the report that
\* fills the count closes the client.
LEMMA ReportInv ==
  ASSUME ProtocolInv, NEW n \in Nodes, NEW m \in Nodes, NEW code \in Codes \union {"FINAL"},
         Open(n), reportNode(n, m, code)
  PROVE  /\ states' = states
         /\ reports' \in [Nodes -> [Nodes -> Codes \union {None}]]
         /\ count' \in [Nodes -> 0..MaxReports]
         /\ closed' \in [Nodes -> {"no", "reports", "client"}]
         /\ Counting' /\ ReportsAreOfLinks'
<1> DEFINE out == Outcome(n, m, code)
<1>0. /\ states \in [Nodes -> SUBSET Nodes]
      /\ reports \in [Nodes -> [Nodes -> Codes \union {None}]]
      /\ count \in [Nodes -> 0..MaxReports]
      /\ closed \in [Nodes -> {"no", "reports", "client"}]
      /\ count[n] < MaxReports /\ MaxReports \in Nat
  BY ProtocolAssumption DEF ProtocolInv, TypeOK, Counting
<1>1. /\ count' = IF out = "inactive" THEN count ELSE [count EXCEPT ![n] = @ + 1]
      /\ reports' = IF out = "reported" THEN [reports EXCEPT ![n][m] = code] ELSE reports
      /\ closed' = IF out \in {"too many", "too wide"} THEN [closed EXCEPT ![n] = "reports"]
                   ELSE closed
      /\ states' = states
  BY DEF reportNode
<1>2. /\ out = "reported" => m \in states[n] /\ code \in Codes
      /\ out \notin {"inactive", "too many"} => count[n] + 1 < MaxReports
  BY <1>0 DEF Outcome
<1> HIDE DEF out
<1>3. reports' \in [Nodes -> [Nodes -> Codes \union {None}]]
  BY <1>0, <1>1, <1>2
<1>4. /\ count' \in [Nodes -> 0..MaxReports]
      /\ closed' \in [Nodes -> {"no", "reports", "client"}]
  <2>1. count[n] + 1 \in 0..MaxReports
    BY <1>0
  <2>2. count' \in [Nodes -> 0..MaxReports]
    BY <1>0, <1>1, <2>1
  <2>3. closed' \in [Nodes -> {"no", "reports", "client"}]
    BY <1>0, <1>1
  <2> QED
    BY <2>2, <2>3
<1>5. Counting'
  BY <1>0, <1>1, <1>2 DEF ProtocolInv, Counting, Open
<1>6. ReportsAreOfLinks'
  BY <1>0, <1>1, <1>2 DEF ProtocolInv, ReportsAreOfLinks
<1> QED
  BY <1>1, <1>3, <1>4, <1>5, <1>6

\* disconnectNode takes the report of a link away with the link.
LEMMA DisconnectInv ==
  ASSUME ProtocolInv, NEW gone \in [Nodes -> SUBSET Nodes], DisconnectNode(gone)
  PROVE  /\ states' \in [Nodes -> SUBSET Nodes]
         /\ reports' \in [Nodes -> [Nodes -> Codes \union {None}]]
         /\ count' \in [Nodes -> 0..MaxReports]
         /\ ReportsAreOfLinks'
         /\ \A n \in Nodes : count'[n] = IF gone[n] = {} THEN count[n] ELSE 0
<1> USE ProtocolAssumption DEF ProtocolInv
<1>1. /\ states' \in [Nodes -> SUBSET Nodes]
      /\ reports' \in [Nodes -> [Nodes -> Codes \union {None}]]
  BY DEF DisconnectNode, TypeOK
<1>2. count' \in [Nodes -> 0..MaxReports]
  BY DEF DisconnectNode, TypeOK
<1>3. ReportsAreOfLinks'
  BY DEF DisconnectNode, TypeOK, ReportsAreOfLinks
<1>4. \A n \in Nodes : count'[n] = IF gone[n] = {} THEN count[n] ELSE 0
  BY DEF DisconnectNode
<1> QED
  BY <1>1, <1>2, <1>3, <1>4

\* Every step of the pool, a client, a manager or a relay keeps the invariant.
LEMMA StepInv == ProtocolInv /\ [Next]_vars => ProtocolInv'
<1> SUFFICES ASSUME ProtocolInv, [Next]_vars PROVE ProtocolInv'
  OBVIOUS
<1> USE ProtocolAssumption
<1>0. /\ states \in [Nodes -> SUBSET Nodes]
      /\ reports \in [Nodes -> [Nodes -> Codes \union {None}]]
      /\ count \in [Nodes -> 0..MaxReports]
      /\ closed \in [Nodes -> {"no", "reports", "client"}]
      /\ asked \in [Nodes -> [Nodes \X Answers -> Nat]]
      /\ sent \in [Nodes -> Seq(Sent)]
      /\ relays \in [Messages -> Nat]
      /\ joined \subseteq SUBSET Nodes
      /\ inRow \in Nat /\ made \in Nat /\ losses \in Nat
      /\ TypeOK /\ Counting /\ ReportsAreOfLinks
  BY DEF ProtocolInv, TypeOK, Sent
\* The parts of the invariant.
<1>1. ASSUME states' \in [Nodes -> SUBSET Nodes],
             reports' \in [Nodes -> [Nodes -> Codes \union {None}]],
             count' \in [Nodes -> 0..MaxReports],
             closed' \in [Nodes -> {"no", "reports", "client"}],
             asked' \in [Nodes -> [Nodes \X Answers -> Nat]],
             sent' \in [Nodes -> Seq(Sent)],
             relays' \in [Messages -> Nat],
             joined' \subseteq SUBSET Nodes,
             inRow' \in Nat, made' \in Nat, losses' \in Nat,
             Counting', ReportsAreOfLinks'
      PROVE  ProtocolInv'
  BY <1>1 DEF ProtocolInv, TypeOK, Sent
\* A step that no manager takes.
<1>2. ASSUME UNCHANGED managerVars,
             asked' \in [Nodes -> [Nodes \X Answers -> Nat]],
             sent' \in [Nodes -> Seq(Sent)],
             relays' \in [Messages -> Nat],
             joined' \subseteq SUBSET Nodes,
             inRow' \in Nat, made' \in Nat, losses' \in Nat
      PROVE  ProtocolInv'
  <2>1. states' = states /\ reports' = reports /\ count' = count /\ closed' = closed
    BY <1>2 DEF managerVars
  <2>2. Counting' /\ ReportsAreOfLinks'
    BY <1>0, <2>1 DEF Counting, ReportsAreOfLinks, Open
  <2> QED
    BY <1>0, <1>1, <1>2, <2>1, <2>2
<1>3. ASSUME NEW n \in Nodes, NEW m \in Nodes, NEW op \in Answers
      PROVE  [asked EXCEPT ![n][<<m, op>>] = @ + 1] \in [Nodes -> [Nodes \X Answers -> Nat]]
  <2>1. asked[n] \in [Nodes \X Answers -> Nat] /\ <<m, op>> \in Nodes \X Answers
    BY <1>0
  <2> DEFINE new == [asked[n] EXCEPT ![<<m, op>>] = @ + 1]
  <2>2. new \in [Nodes \X Answers -> Nat]
    BY <2>1, CountTypes
  <2>3. [asked EXCEPT ![n][<<m, op>>] = @ + 1] = [asked EXCEPT ![n] = new]
    OBVIOUS
  <2> HIDE DEF new
  <2> QED
    BY <1>0, <2>2, <2>3
<1>4. ASSUME NEW i \in Nodes, NEW j \in Nodes, Link(i, j) PROVE ProtocolInv'
  <2>1. /\ UNCHANGED <<reports, count, closed, sent, relays, joined, inRow, losses>>
        /\ made' \in Nat
    <3>1. made' = made + 1 /\ made \in Nat
      BY <1>0, <1>4 DEF Link
    <3> QED
      BY <1>4, <3>1 DEF Link
  <2>2. /\ states' \in [Nodes -> SUBSET Nodes]
        /\ \A n \in Nodes : states[n] \subseteq states'[n]
    BY <1>0, <1>4 DEF Link
  <2>3. asked' \in [Nodes -> [Nodes \X Answers -> Nat]]
    <3>1. "SEND_OFFER" \in Answers
      BY DEF Answers
    <3> QED
      BY <1>0, <1>3, <1>4, <3>1 DEF Link
  <2>4. Counting' /\ ReportsAreOfLinks'
    BY <1>0, <2>1, <2>2 DEF Counting, ReportsAreOfLinks, Open
  <2> QED
    BY <1>0, <1>1, <2>1, <2>2, <2>3, <2>4
<1>5. ASSUME NEW i \in Nodes, NEW j \in Nodes, Unlink(i, j) PROVE ProtocolInv'
  <2> DEFINE gone == [n \in Nodes |->
               CASE n = i /\ Open(i) -> {j} [] n = j /\ Open(j) -> {i} [] OTHER -> {}]
  <2>1. gone \in [Nodes -> SUBSET Nodes]
    OBVIOUS
  <2>2. /\ DisconnectNode(gone) /\ joined' \subseteq joined
        /\ UNCHANGED <<closed, asked, sent, relays, inRow, made, losses>>
    BY <1>5 DEF Unlink
  <2> HIDE DEF gone
  <2>3. /\ states' \in [Nodes -> SUBSET Nodes]
        /\ reports' \in [Nodes -> [Nodes -> Codes \union {None}]]
        /\ count' \in [Nodes -> 0..MaxReports]
        /\ ReportsAreOfLinks'
        /\ \A n \in Nodes : count'[n] = IF gone[n] = {} THEN count[n] ELSE 0
    BY <2>1, <2>2, DisconnectInv
  <2>4. Counting'
    <3> SUFFICES ASSUME NEW n \in Nodes, closed'[n] = "no" PROVE count'[n] < MaxReports
      BY DEF Counting, Open
    <3>1. closed[n] = "no" /\ count[n] < MaxReports
      BY <1>0, <2>2 DEF Counting, Open
    <3> QED
      BY <2>3, <3>1
  <2> QED
    BY <1>0, <1>1, <2>2, <2>3, <2>4
<1>6. ASSUME NEW n \in Nodes, Leave(n) PROVE ProtocolInv'
  <2> DEFINE gone == [m \in Nodes |->
               IF m = n THEN Nodes ELSE IF Open(m) THEN states[m] \intersect {n} ELSE {}]
  <2>1. gone \in [Nodes -> SUBSET Nodes] /\ gone[n] # {}
    BY <1>0
  <2>2. /\ DisconnectNode(gone) /\ joined' \subseteq joined
        /\ closed' = [closed EXCEPT ![n] = "no"]
        /\ asked' = [asked EXCEPT ![n] = [q \in Nodes \X Answers |-> 0]]
        /\ sent' = [sent EXCEPT ![n] = <<>>]
        /\ UNCHANGED <<relays, inRow, made, losses>>
    BY <1>6 DEF Leave
  <2> HIDE DEF gone
  <2>3. /\ states' \in [Nodes -> SUBSET Nodes]
        /\ reports' \in [Nodes -> [Nodes -> Codes \union {None}]]
        /\ count' \in [Nodes -> 0..MaxReports]
        /\ ReportsAreOfLinks'
        /\ \A m \in Nodes : count'[m] = IF gone[m] = {} THEN count[m] ELSE 0
    BY <2>1, <2>2, DisconnectInv
  <2>4. closed' \in [Nodes -> {"no", "reports", "client"}]
        /\ \A m \in Nodes : m # n => closed'[m] = closed[m]
    BY <1>0, <2>2
  <2>5. Counting'
    <3> SUFFICES ASSUME NEW m \in Nodes, closed'[m] = "no" PROVE count'[m] < MaxReports
      BY DEF Counting, Open
    <3>1. CASE m = n
      BY <2>1, <2>3, <3>1
    <3>2. CASE m # n
      <4>1. closed[m] = "no" /\ count[m] < MaxReports
        BY <1>0, <2>4, <3>2 DEF Counting, Open
      <4> QED
        BY <2>3, <4>1
    <3> QED
      BY <3>1, <3>2
  <2>6. asked' \in [Nodes -> [Nodes \X Answers -> Nat]]
    BY <1>0, <2>2
  <2>7. sent' \in [Nodes -> Seq(Sent)]
    BY <1>0, <2>2
  <2> QED
    BY <1>0, <1>1, <2>2, <2>3, <2>4, <2>5, <2>6, <2>7
<1>7. ASSUME NEW n \in Nodes, NEW m \in Nodes, NEW op \in Answers, NEW ok \in BOOLEAN,
             Answer(n, m, op, ok), joined' \subseteq SUBSET Nodes, inRow' \in Nat, losses' \in Nat
      PROVE  ProtocolInv'
  <2>1. /\ asked' \in [Nodes -> [Nodes \X Answers -> Nat]]
        /\ sent' \in [Nodes -> Seq(Sent)]
        /\ UNCHANGED <<states, reports, count, closed, relays, made>>
    <3>1. TypeOK
      BY <1>0
    <3> QED
      BY <1>7, <3>1, AnswerTypes
  <2>2. UNCHANGED managerVars /\ relays' \in [Messages -> Nat] /\ made' \in Nat
    BY <1>0, <2>1 DEF managerVars
  <2> QED
    BY <1>2, <1>7, <2>1, <2>2
<1>8. ASSUME NEW n \in Nodes, NEW m \in Nodes, NEW op \in Answers, ClientStep(n, m, op)
      PROVE  ProtocolInv'
  <2>1. CASE AnswerOffer(n, m, op)
    BY <1>0, <1>7, <2>1 DEF AnswerOffer
  <2>2. CASE op = "CONNECT_NODE" /\ Connects(n, m)
    BY <1>0, <1>7, <2>2 DEF Connects
  <2>3. CASE op = "CONNECT_NODE" /\ FailsToConnect(n, m)
    <3>1. inRow' \in Nat /\ losses' \in Nat
      <4>1. inRow \in Nat /\ losses \in Nat
        BY <1>0
      <4> QED
        BY <2>3, <4>1 DEF FailsToConnect, Fails
    <3>2. Answer(n, m, op, FALSE) /\ joined' = joined
      BY <2>3 DEF FailsToConnect
    <3> QED
      BY <1>0, <1>7, <3>1, <3>2
  <2>4. CASE op = "VERIFY_NODE_CONNECTED" /\ Verifies(n, m)
    <3>1. ({n, m} \in joined) \in BOOLEAN
      OBVIOUS
    <3> DEFINE ok == {n, m} \in joined
    <3>2. Answer(n, m, op, ok) /\ UNCHANGED <<joined, inRow, losses>>
      BY <2>4 DEF Verifies
    <3>3. ok \in BOOLEAN
      OBVIOUS
    <3> HIDE DEF ok
    <3> QED
      BY <1>0, <1>7, <3>2, <3>3
  <2> QED
    BY <1>8, <2>1, <2>2, <2>3, <2>4 DEF ClientStep
<1>9. ASSUME NEW i \in Nodes, NEW j \in Nodes, NEW noticing, Lose(i, j, noticing)
      PROVE  ProtocolInv'
  <2>1. /\ UNCHANGED <<managerVars, asked, relays, made>> /\ joined' \subseteq joined
        /\ inRow' \in Nat /\ losses' \in Nat
    BY <1>0, <1>9 DEF Lose, Fails
  <2>2. sent' \in [Nodes -> Seq(Sent)]
    <3> DEFINE new(n) == [op |-> "REPORT_NODE", ok |-> TRUE, node |-> IF n = i THEN j ELSE i]
    <3>1. sent' = [n \in Nodes |-> IF n \in noticing /\ Open(n) THEN Append(sent[n], new(n))
                                   ELSE sent[n]]
      BY <1>9 DEF Lose
    <3>2. \A n \in Nodes : new(n) \in Sent
      BY DEF Sent
    <3> HIDE DEF new
    <3> QED
      BY <1>0, <3>1, <3>2
  <2> QED
    BY <1>0, <1>2, <2>1, <2>2
<1>9a. \A r : With(relays, r) \in [Messages -> Nat]
  <2>1. relays \in [Messages -> Nat]
    BY <1>0
  <2> QED
    BY <2>1, RelayTypes
\* A message of a client is handled.
<1>10. ASSUME NEW n \in Nodes, NEW m \in Nodes, NEW op, NEW ok, NEW what,
              Takes(n, op, m, ok), Passes(n, m, what)
       PROVE  ProtocolInv'
  <2>1. UNCHANGED managerVars /\ relays' \in [Messages -> Nat]
    <3>1. UNCHANGED relays \/ relays' = With(relays, Message(n, m, what))
      BY <1>10 DEF Passes, Inactive
    <3>2. relays' \in [Messages -> Nat]
      BY <1>0, <1>9a, <3>1
    <3> QED
      BY <1>10, <3>2 DEF Passes, Inactive
  <2> QED
    BY <1>0, <1>2, <1>10, <2>1, TakesTypes
<1>11. ASSUME NEW n \in Nodes, NEW m \in Nodes, clearReport(n, m)
       PROVE  /\ states' = states /\ closed' = closed
              /\ reports' \in [Nodes -> [Nodes -> Codes \union {None}]]
              /\ count' \in [Nodes -> 0..MaxReports]
              /\ Counting' /\ ReportsAreOfLinks'
  <2>1. /\ reports' = [reports EXCEPT ![n][m] = None] /\ count' = [count EXCEPT ![n] = 0]
        /\ states' = states /\ closed' = closed
    BY <1>11 DEF clearReport
  <2>2. reports' \in [Nodes -> [Nodes -> Codes \union {None}]]
    BY <1>0, <2>1
  <2>3. count' \in [Nodes -> 0..MaxReports]
    BY <1>0, <2>1
  <2>4. Counting'
    BY <1>0, <2>1 DEF Counting, Open
  <2>5. ReportsAreOfLinks'
    BY <1>0, <2>1 DEF ReportsAreOfLinks
  <2> QED
    BY <2>1, <2>2, <2>3, <2>4, <2>5
<1>12. ASSUME NEW n \in Nodes, NEW m \in Nodes, NodeConnected(n, m) \/ NodeVerified(n, m)
       PROVE  ProtocolInv'
  <2>1. /\ sent' \in [Nodes -> Seq(Sent)]
        /\ UNCHANGED <<asked, joined, inRow, made, losses>>
    BY <1>0, <1>12, TakesTypes DEF NodeConnected, NodeVerified
  <2>2. relays' \in [Messages -> Nat]
    <3>1. UNCHANGED relays \/ relays' = With(relays, Message(n, m, "verify"))
      BY <1>12 DEF NodeConnected, NodeVerified, Inactive
    <3> QED
      BY <1>0, <1>9a, <3>1
  <2>3. UNCHANGED managerVars \/ clearReport(n, m)
    BY <1>12 DEF NodeConnected, NodeVerified, Inactive
  <2>4. CASE UNCHANGED managerVars
    BY <1>0, <1>2, <2>1, <2>2, <2>4
  <2>5. CASE clearReport(n, m)
    BY <1>0, <1>1, <1>11, <2>1, <2>2, <2>5
  <2> QED
    BY <2>3, <2>4, <2>5
<1>13. ASSUME NEW n \in Nodes, NEW m \in Nodes, NodeNotConnected(n, m) \/ NodeReported(n, m)
       PROVE  ProtocolInv'
  <2>1. \E op, ok : Takes(n, op, m, ok)
    BY <1>13 DEF NodeNotConnected, NodeReported
  <2>1a. PICK code \in Codes : clientReportNode(n, m, code)
    BY <1>13 DEF NodeNotConnected, NodeReported, Codes
  <2>2. /\ sent' \in [Nodes -> Seq(Sent)] /\ Open(n)
        /\ UNCHANGED <<asked, joined, inRow, made, losses>>
    BY <1>0, <2>1, TakesTypes
  <2>3. reportNode(n, m, code) /\ relays' \in [Messages -> Nat]
    <3>1. relays \in [Messages -> Nat]
      BY <1>0
    <3> QED
      BY <1>9a, <2>1a, <3>1, ToldType DEF clientReportNode
  <2>4. /\ states' = states
        /\ reports' \in [Nodes -> [Nodes -> Codes \union {None}]]
        /\ count' \in [Nodes -> 0..MaxReports]
        /\ closed' \in [Nodes -> {"no", "reports", "client"}]
        /\ Counting' /\ ReportsAreOfLinks'
    BY <2>2, <2>3, ReportInv
  <2> QED
    BY <1>0, <1>1, <2>2, <2>3, <2>4
<1>14. ASSUME NEW n \in Nodes, NotCompliant(n) PROVE ProtocolInv'
  <2>1. /\ closed' = [closed EXCEPT ![n] = "client"]
        /\ UNCHANGED <<states, reports, count, clientVars, relays, made, losses>>
    BY <1>14 DEF NotCompliant
  <2>2. Counting' /\ ReportsAreOfLinks'
    BY <1>0, <2>1 DEF Counting, ReportsAreOfLinks, Open
  <2>3. closed' \in [Nodes -> {"no", "reports", "client"}]
    BY <1>0, <2>1
  <2> QED
    BY <1>0, <1>1, <2>1, <2>2, <2>3 DEF clientVars
\* A relay reaches the other manager, or nobody.
<1>15. ASSUME NEW r \in Messages, Reaches(r)
       PROVE  /\ r.to \in Nodes /\ r.from \in Nodes /\ Without(r) \in [Messages -> Nat]
              /\ UNCHANGED <<sent, joined, inRow, made, losses>>
  BY <1>0, <1>15, WithoutType DEF Reaches, Messages
<1>16. ASSUME NEW r \in Messages, Drop(r) \/ Ask(r) PROVE ProtocolInv'
  <2>1. Reaches(r) /\ relays' = Without(r) /\ UNCHANGED managerVars
    BY <1>16 DEF Drop, Ask
  <2>2. asked' \in [Nodes -> [Nodes \X Answers -> Nat]]
    <3>1. CASE Drop(r)
      BY <1>0, <3>1 DEF Drop
    <3>2. CASE Ask(r)
      <4>1. Expected(r.what) \in Answers
        BY <3>2 DEF Ask, Expected, Answers
      <4> QED
        BY <1>3, <1>15, <2>1, <3>2, <4>1 DEF Ask
    <3> QED
      BY <1>16, <3>1, <3>2
  <2> QED
    BY <1>0, <1>2, <1>15, <2>1, <2>2
<1>17. ASSUME NEW r \in Messages, Notified(r) PROVE ProtocolInv'
  <2>1. /\ Reaches(r) /\ Open(r.to) /\ r.what \in Codes \union {"FINAL"}
        /\ reportNode(r.to, r.from, r.what)
        /\ relays' = ToldFinally(r.to, r.from, r.what, Without(r))
    BY <1>17 DEF Notified
  <2>2. /\ r.to \in Nodes /\ r.from \in Nodes /\ Without(r) \in [Messages -> Nat]
        /\ UNCHANGED <<sent, joined, inRow, made, losses>>
    BY <1>15, <2>1
  <2>3. asked' \in [Nodes -> [Nodes \X Answers -> Nat]]
    <3>1. "SEND_OFFER" \in Answers
      BY DEF Answers
    <3> QED
      BY <1>0, <1>3, <1>17, <2>2, <3>1 DEF Notified
  <2>4. relays' \in [Messages -> Nat]
    BY <2>1, <2>2, ToldType
  <2>5. /\ states' = states
        /\ reports' \in [Nodes -> [Nodes -> Codes \union {None}]]
        /\ count' \in [Nodes -> 0..MaxReports]
        /\ closed' \in [Nodes -> {"no", "reports", "client"}]
        /\ Counting' /\ ReportsAreOfLinks'
    BY <2>1, <2>2, ReportInv
  <2> QED
    BY <1>0, <1>1, <2>2, <2>3, <2>4, <2>5
<1>18. CASE UNCHANGED vars
  BY <1>0, <1>2, <1>18 DEF vars, clientVars
<1>19. ASSUME NEW n \in Nodes, Handle(n) PROVE ProtocolInv'
  BY <1>10, <1>12, <1>13, <1>19 DEF Handle, SendOffer, SendAnswer
<1> QED
  BY <1>4, <1>5, <1>6, <1>8, <1>9, <1>14, <1>16, <1>17, <1>18, <1>19 DEF Next, Delivery

\* The invariant always holds.
THEOREM ProtocolInvariant == Spec => []ProtocolInv
BY InitInv, StepInv, PTL DEF Spec

\* The state stays well formed; no manager counts past MAX_REPORTS (reportNode).
THEOREM TypeCorrect == Spec => []TypeOK
<1>1. ProtocolInv => TypeOK
  BY DEF ProtocolInv
<1> QED
  BY <1>1, ProtocolInvariant, PTL

\* A manager has reports of the nodes it has a link to only, whatever answers and
\* notifications come late (reportNode, clearReport, disconnectNode).
THEOREM ReportsOfLinksOnly == Spec => []ReportsAreOfLinks
<1>1. ProtocolInv => ReportsAreOfLinks
  BY DEF ProtocolInv
<1> QED
  BY <1>1, ProtocolInvariant, PTL
=============================================================================
