-------------------------- MODULE PoolTopologyProofs --------------------------
(***************************************************************************)
(* What the node managers show of the tree, for every number of            *)
(* connections and any changes, in a tree of up to three levels (63        *)
(* nodes): every manager's copy of its neighbourhood is the tree, and the  *)
(* links that two managers tell their clients to keep are the same ones.   *)
(* On deeper levels neither holds, see Path in PoolTopology.               *)
(*                                                                         *)
(* The calls of one change each name the node that is now in the slot they *)
(* are about.  A view is then right but for the slots of the calls that    *)
(* are still to come, and every call closes its own.                       *)
(***************************************************************************)
EXTENDS PoolTopology, SequenceTheorems, TLAPS

(* The theorems about the tree, for the tree of this module. *)
P == INSTANCE ClusterTreeProofs WITH NodeIDs <- 1..MaxConns, PanelSize <- 3

(* What those theorems assume of their constants. *)
LEMMA TreeTerms == P!TreeAssumption
BY TopologyAssumption DEF P!TreeAssumption

(* A panel as a sequence of numbers; 2 occurs in first place only. *)
IsPanel(q) ==
  /\ q \in Seq(0..2) /\ Len(q) \in Nat \ {0}
  /\ \A i \in 2..Len(q) : q[i] # 2

(* The panels of a tree of depth d, as sequences. *)
LEMMA PanelsAre ==
  ASSUME NEW d \in Nat, NEW q \in P!PanelsTo(d)
  PROVE  IsPanel(q) /\ Len(q) \in 1..d
<1>1. q \in Seq(0..2) /\ Len(q) \in 1..d /\ q \in P!Level(Len(q))
  BY TreeTerms, P!PanelsByLength
<1>2. \A i \in 2..Len(q) : q[i] # 2
  BY <1>1, TreeTerms, P!LevelIsPath
<1> QED
  BY <1>1, <1>2 DEF IsPanel

(* The converse: a short enough sequence is one of its panels. *)
LEMMA PanelsBack ==
  ASSUME NEW d \in Nat, NEW q, IsPanel(q), Len(q) <= d
  PROVE  q \in P!PanelsTo(d)
<1>1. q \in P!Level(Len(q))
  BY TreeTerms, P!PathIsLevel DEF IsPanel
<1> QED
  BY <1>1, TreeTerms, P!PanelsByLength DEF IsPanel

(* The connector panel of a panel, and the number it adds to it. *)
LEMMA FrontFacts ==
  ASSUME NEW q, IsPanel(q)
  PROVE  /\ Front(q) \in Seq(0..2) /\ Len(Front(q)) = Len(q) - 1
         /\ \A i \in 1..(Len(q) - 1) : Front(q)[i] = q[i]
         /\ q[Len(q)] \in 0..2
         /\ Len(q) > 1 => q[Len(q)] \in 0..1
         /\ Len(q) > 1 => IsPanel(Front(q))
<1>1. /\ Front(q) \in Seq(0..2) /\ Len(Front(q)) = Len(q) - 1
      /\ \A i \in 1..(Len(q) - 1) : Front(q)[i] = q[i]
  <2> DEFINE m == Len(q) - 1
  <2>1. q \in Seq(0..2) /\ Len(q) \in Nat /\ m \in Nat /\ m <= Len(q)
    BY DEF IsPanel
  <2> HIDE DEF m
  <2>2. /\ SubSeq(q, 1, m) \in Seq(0..2) /\ Len(SubSeq(q, 1, m)) = m
        /\ \A i \in 1..m : SubSeq(q, 1, m)[i] = q[i]
    BY <2>1
  <2> QED
    BY <2>2 DEF Front, m
<1>2. q[Len(q)] \in 0..2 /\ (Len(q) > 1 => q[Len(q)] \in 0..1)
  <2>1. q[Len(q)] \in 0..2
    BY DEF IsPanel
  <2>2. Len(q) > 1 => q[Len(q)] # 2
    BY DEF IsPanel
  <2> QED
    BY <2>1, <2>2
<1>3. Len(q) > 1 => IsPanel(Front(q))
  <2>1. ASSUME Len(q) > 1, NEW i \in 2..(Len(q) - 1) PROVE Front(q)[i] # 2
    BY <1>1, <2>1 DEF IsPanel
  <2> QED
    BY <1>1, <2>1 DEF IsPanel
<1> QED
  BY <1>1, <1>2, <1>3

(* A child panel of a panel. *)
LEMMA AppendFacts ==
  ASSUME NEW p \in Seq(0..2), NEW k \in 0..2
  PROVE  /\ Append(p, k) \in Seq(0..2) /\ Len(Append(p, k)) = Len(p) + 1
         /\ \A i \in 1..Len(p) : Append(p, k)[i] = p[i]
         /\ Append(p, k)[Len(p) + 1] = k
         /\ Front(Append(p, k)) = p
         /\ (IsPanel(p) /\ k # 2) => IsPanel(Append(p, k))
<1>1. /\ Append(p, k) \in Seq(0..2) /\ Len(Append(p, k)) = Len(p) + 1
      /\ \A i \in 1..Len(p) : Append(p, k)[i] = p[i]
      /\ Append(p, k)[Len(p) + 1] = k
  OBVIOUS
<1>2. Front(Append(p, k)) = p
  BY DEF Front
<1>3. (IsPanel(p) /\ k # 2) => IsPanel(Append(p, k))
  BY <1>1 DEF IsPanel
<1> QED
  BY <1>1, <1>2, <1>3

(* A panel is what comes before its last number, and that number. *)
LEMMA SamePanel ==
  ASSUME NEW p, NEW q, IsPanel(p), IsPanel(q), Front(p) = Front(q), p[Len(p)] = q[Len(q)]
  PROVE  p = q
<1>1. Len(p) = Len(q)
  BY FrontFacts DEF IsPanel
<1>2. \A i \in 1..Len(p) : p[i] = q[i]
  BY <1>1, FrontFacts DEF IsPanel
<1> QED
  BY <1>1, <1>2 DEF IsPanel

(* The panels of a node's own cluster are panels. *)
LEMMA ParentIsPanel ==
  ASSUME NEW q, IsPanel(q), NEW i \in 0..2
  PROVE  /\ IsPanel(ParentPanel(q, i)) /\ Len(ParentPanel(q, i)) <= Len(q)
         /\ (i = 2 /\ Len(q) > 1) => ParentPanel(q, i) = Front(q)
         /\ ~(i = 2 /\ Len(q) > 1) => /\ Len(ParentPanel(q, i)) = Len(q)
                                      /\ Front(ParentPanel(q, i)) = Front(q)
                                      /\ ParentPanel(q, i)[Len(q)] = i
<1>1. CASE i = 2 /\ Len(q) > 1
  BY <1>1, FrontFacts DEF ParentPanel, IsPanel
<1>2. CASE ~(i = 2 /\ Len(q) > 1)
  <2>1. ParentPanel(q, i) = Append(Front(q), i)
    BY <1>2 DEF ParentPanel
  <2>2. Front(q) \in Seq(0..2) /\ Len(Front(q)) = Len(q) - 1 /\ (Len(q) > 1 => IsPanel(Front(q)))
    BY FrontFacts
  <2>3. /\ Append(Front(q), i) \in Seq(0..2) /\ Len(Append(Front(q), i)) = Len(q)
        /\ Append(Front(q), i)[Len(q)] = i
        /\ Front(Append(Front(q), i)) = Front(q)
        /\ (IsPanel(Front(q)) /\ i # 2) => IsPanel(Append(Front(q), i))
    BY <2>2, AppendFacts DEF IsPanel
  <2>4. CASE Len(q) = 1
    BY <1>2, <2>1, <2>2, <2>3, <2>4 DEF IsPanel
  <2>5. CASE Len(q) > 1
    BY <1>2, <2>1, <2>2, <2>3, <2>5 DEF IsPanel
  <2>6. Len(q) = 1 \/ Len(q) > 1
    <3>1. Len(q) \in Nat /\ Len(q) # 0
      BY DEF IsPanel
    <3> QED
      BY <3>1
  <2> QED
    BY <2>4, <2>5, <2>6
<1> QED
  BY <1>1, <1>2

(* On the first three levels Path is the panel: no array is shared. *)
LEMMA ShortPath ==
  ASSUME NEW p, IsPanel(p), Len(p) <= 3
  PROVE  Path(p) = p /\ getPanelNumber(p) = p[Len(p)]
<1>1. \A m \in 1..Len(p) : m = 1 \/ m - 1 \in Capacities
  BY DEF Capacities, IsPanel
<1>2. Path(p) = [m \in 1..Len(p) |-> p[m]]
  BY <1>1 DEF Path
<1>3. Path(p) = p
  BY <1>2 DEF IsPanel
<1> QED
  BY <1>3 DEF getPanelNumber

(* A call about a slot reaches a manager whose view has that slot, under the *)
(* position of that slot in the view, and no other manager.                  *)
LEMMA Heard ==
  ASSUME NEW p, NEW q, IsPanel(p), IsPanel(q), Len(p) <= 3, NEW s \in Slots
  PROVE  /\ Announced(p, s, q) = {} =>
              /\ \A i \in 0..2 : ParentPanel(q, i) # p
              /\ \A i \in 0..1 : Append(q, i) # p
         /\ \A x \in Announced(p, s, q) :
              /\ Announced(p, s, q) = {x} /\ x \in 0..14
              /\ \A i \in 0..2, j \in Slots : (ParentPanel(q, i) = p /\ j = s) <=> (x = 3 * i + j)
              /\ \A i \in 0..1, j \in Slots : (Append(q, i) = p /\ j = s) <=> (x = 9 + 3 * i + j)
<1> DEFINE k == p[Len(p)]
<1>1. /\ getPanelNumber(p) = k /\ k \in 0..2 /\ (Len(p) > 1 => k \in 0..1)
      /\ Len(Front(p)) = Len(p) - 1 /\ Len(Front(q)) = Len(q) - 1
      /\ Len(p) \in Nat \ {0} /\ Len(q) \in Nat \ {0} /\ s \in 0..2
  BY ShortPath, FrontFacts DEF Slots, IsPanel
<1>2. \A i \in 0..2 : ParentPanel(q, i) = p <=>
         IF i = 2 /\ Len(q) > 1 THEN Front(q) = p ELSE Front(p) = Front(q) /\ k = i
  <2> SUFFICES ASSUME NEW i \in 0..2
               PROVE  ParentPanel(q, i) = p <=>
                        IF i = 2 /\ Len(q) > 1 THEN Front(q) = p ELSE Front(p) = Front(q) /\ k = i
    OBVIOUS
  <2>1. CASE i = 2 /\ Len(q) > 1
    BY <2>1, ParentIsPanel
  <2>2. CASE ~(i = 2 /\ Len(q) > 1)
    <3>1. /\ IsPanel(ParentPanel(q, i)) /\ Len(ParentPanel(q, i)) = Len(q)
          /\ Front(ParentPanel(q, i)) = Front(q) /\ ParentPanel(q, i)[Len(q)] = i
      BY <2>2, ParentIsPanel
    <3>2. (Front(p) = Front(q) /\ k = i) => ParentPanel(q, i) = p
      BY <3>1, SamePanel
    <3>3. ParentPanel(q, i) = p => (Front(p) = Front(q) /\ k = i)
      BY <3>1
    <3> QED
      BY <2>2, <3>2, <3>3
  <2> QED
    BY <2>1, <2>2
<1>3. \A i \in 0..1 : Append(q, i) = p <=> (Front(p) = q /\ k = i)
  <2> SUFFICES ASSUME NEW i \in 0..1 PROVE Append(q, i) = p <=> (Front(p) = q /\ k = i)
    OBVIOUS
  <2>1. /\ Front(Append(q, i)) = q /\ IsPanel(Append(q, i)) /\ Len(Append(q, i)) = Len(q) + 1
        /\ Append(q, i)[Len(q) + 1] = i
    BY AppendFacts DEF IsPanel
  <2>2. (Front(p) = q /\ k = i) => Append(q, i) = p
    BY <2>1, SamePanel
  <2>3. Append(q, i) = p => (Front(p) = q /\ k = i)
    BY <2>1
  <2> QED
    BY <2>2, <2>3
<1> HIDE DEF k
<1>4. CASE Front(q) = Front(p)
  <2>1. Len(p) = Len(q) /\ Front(q) # p /\ Front(p) # q
    BY <1>1, <1>4
  <2>2. Announced(p, s, q) = {3 * k + s}
    BY <1>1, <1>4 DEF Announced
  <2>3. \A i \in 0..2 : ParentPanel(q, i) = p <=> k = i
    BY <1>1, <1>2, <1>4, <2>1
  <2>4. \A i \in 0..1 : Append(q, i) # p
    BY <1>3, <2>1
  <2>5. \A i \in 0..2, j \in 0..2 : (k = i /\ j = s) <=> (3 * k + s = 3 * i + j)
    BY <1>1
  <2>6. \A i \in 0..1, j \in 0..2 : 3 * k + s # 9 + 3 * i + j
    BY <1>1
  <2> QED
    BY <1>1, <2>2, <2>3, <2>4, <2>5, <2>6 DEF Slots
<1>5. CASE q = Front(p)
  <2>1. Len(p) = Len(q) + 1 /\ Front(q) # p /\ Front(p) # Front(q) /\ k \in 0..1
    BY <1>1, <1>5
  <2>2. Announced(p, s, q) = {9 + 3 * k + s}
    BY <1>1, <1>5, <2>1 DEF Announced
  <2>3. \A i \in 0..2 : ParentPanel(q, i) # p
    BY <1>2, <2>1
  <2>4. \A i \in 0..1 : Append(q, i) = p <=> k = i
    BY <1>3, <1>5
  <2>5. \A i \in 0..1, j \in 0..2 : (k = i /\ j = s) <=> (9 + 3 * k + s = 9 + 3 * i + j)
    BY <1>1, <2>1
  <2>6. \A i \in 0..2, j \in 0..2 : 9 + 3 * k + s # 3 * i + j
    BY <1>1, <2>1
  <2> QED
    BY <1>1, <2>1, <2>2, <2>3, <2>4, <2>5, <2>6 DEF Slots
<1>6. CASE Front(q) = p
  <2>1. Len(q) = Len(p) + 1 /\ q # Front(p) /\ Front(p) # Front(q) /\ Len(q) > 1
    BY <1>1, <1>6
  <2>2. Announced(p, s, q) = {6 + s}
    BY <1>1, <1>6, <2>1 DEF Announced
  <2>3. \A i \in 0..2 : ParentPanel(q, i) = p <=> i = 2
    BY <1>2, <1>6, <2>1
  <2>4. \A i \in 0..1 : Append(q, i) # p
    BY <1>3, <2>1
  <2>5. \A i \in 0..2, j \in 0..2 : (i = 2 /\ j = s) <=> (6 + s = 3 * i + j)
    BY <1>1
  <2>6. \A i \in 0..1, j \in 0..2 : 6 + s # 9 + 3 * i + j
    BY <1>1
  <2> QED
    BY <1>1, <2>2, <2>3, <2>4, <2>5, <2>6 DEF Slots
<1>7. CASE Front(q) # Front(p) /\ q # Front(p) /\ Front(q) # p
  <2>1. Announced(p, s, q) = {}
    BY <1>7 DEF Announced
  <2> QED
    BY <1>2, <1>3, <1>7, <2>1
<1> QED
  BY <1>4, <1>5, <1>6, <1>7

----------------------------------------------------------------------------
(* A view: its panels have slots that hold nodes. *)
IsView(v) ==
  /\ v = [path |-> v.path, partner |-> v.partner, center |-> v.center,
          parent |-> v.parent, child |-> v.child]
  /\ v.parent \in [0..2 -> [Slots -> Nat]]
  /\ v.child \in [0..1 -> [Slots -> Nat]]

(* A position number stands for one slot of one panel. *)
LEMMA SlotNumbers ==
  /\ \A i \in 0..2, j \in 0..2 : (3 * i + j) \div 3 = i /\ (3 * i + j) % 3 = j
  /\ \A i \in 0..1, j \in 0..2 : (9 + 3 * i + j - 9) \div 3 = i /\ (9 + 3 * i + j) % 3 = j
  /\ \A x \in 0..8 : \E i \in 0..2, j \in 0..2 : x = 3 * i + j
  /\ \A x \in 9..14 : \E i \in 0..1, j \in 0..2 : x = 9 + 3 * i + j
OBVIOUS

(* A message about one slot sets it, and changes another only by clearing from *)
(* it the node the message is about.                                           *)
LEMMA UpdateSlot ==
  ASSUME NEW v, NEW x, NEW who, NEW u,
         IsView(v), x \in 0..14, who \in Nat, u = UpdateSingle(v, x, who)
  PROVE  /\ IsView(u)
         /\ u.path = v.path /\ u.partner = v.partner /\ u.center = v.center
         /\ \A i \in 0..2, j \in Slots :
              IF x = 3 * i + j THEN u.parent[i][j] = who
              ELSE \/ u.parent[i][j] = v.parent[i][j]
                   \/ v.parent[i][j] = who /\ who # Nobody
         /\ \A i \in 0..1, j \in Slots :
              IF x = 9 + 3 * i + j THEN u.child[i][j] = who
              ELSE \/ u.child[i][j] = v.child[i][j]
                   \/ v.child[i][j] = who /\ who # Nobody
<1> DEFINE inParent == \E i \in 0..2, j \in Slots : v.parent[i][j] = who
           c == IF who = Nobody THEN v
                ELSE IF inParent THEN [v EXCEPT !.parent = WithoutNode(v.parent, who)]
                ELSE [v EXCEPT !.child = WithoutNode(v.child, who)]
<1>1. u = IF x >= 9 THEN [c EXCEPT !.child[(x - 9) \div 3][x % 3] = who]
          ELSE [c EXCEPT !.parent[x \div 3][x % 3] = who]
  BY DEF UpdateSingle
<1>2. /\ IsView(c)
      /\ c.path = v.path /\ c.partner = v.partner /\ c.center = v.center
      /\ \A i \in 0..2, j \in Slots : \/ c.parent[i][j] = v.parent[i][j]
                                      \/ v.parent[i][j] = who /\ who # Nobody
      /\ \A i \in 0..1, j \in Slots : \/ c.child[i][j] = v.child[i][j]
                                      \/ v.child[i][j] = who /\ who # Nobody
  <2>1. /\ WithoutNode(v.parent, who) \in [0..2 -> [Slots -> Nat]]
        /\ \A i \in 0..2, j \in Slots :
             \/ WithoutNode(v.parent, who)[i][j] = v.parent[i][j]
             \/ v.parent[i][j] = who
    BY DEF IsView, WithoutNode, Nobody
  <2>2. /\ WithoutNode(v.child, who) \in [0..1 -> [Slots -> Nat]]
        /\ \A i \in 0..1, j \in Slots :
             \/ WithoutNode(v.child, who)[i][j] = v.child[i][j]
             \/ v.child[i][j] = who
    BY DEF IsView, WithoutNode, Nobody
  <2>3. CASE who = Nobody
    BY <2>3
  <2>4. CASE who # Nobody /\ inParent
    <3> HIDE DEF inParent
    <3>1. c = [v EXCEPT !.parent = WithoutNode(v.parent, who)]
      BY <2>4
    <3> HIDE DEF c
    <3> QED
      BY <2>1, <2>4, <3>1 DEF IsView
  <2>5. CASE who # Nobody /\ ~inParent
    <3> HIDE DEF inParent
    <3>1. c = [v EXCEPT !.child = WithoutNode(v.child, who)]
      BY <2>5
    <3> HIDE DEF c
    <3> QED
      BY <2>2, <2>5, <3>1 DEF IsView
  <2> QED
    BY <2>3, <2>4, <2>5
<1> HIDE DEF c
<1>3. CASE x \in 0..8
  <2>1. PICK i \in 0..2, j \in 0..2 : x = 3 * i + j
    BY <1>3, SlotNumbers
  <2>2. x \div 3 = i /\ x % 3 = j
    BY <2>1, SlotNumbers
  <2>3. u = [c EXCEPT !.parent[i][j] = who]
    BY <1>1, <1>3, <2>2
  <2>4. /\ u = [c EXCEPT !.parent = [c.parent EXCEPT ![i] = [c.parent[i] EXCEPT ![j] = who]]]
    BY <2>3
  <2>5. /\ IsView(u) /\ u.child = c.child
        /\ u.path = c.path /\ u.partner = c.partner /\ u.center = c.center
        /\ u.parent[i][j] = who
        /\ \A k \in 0..2, m \in Slots : (k # i \/ m # j) => u.parent[k][m] = c.parent[k][m]
    BY <1>2, <2>4 DEF IsView, Slots
  <2>6. \A k \in 0..2, m \in Slots : (x = 3 * k + m) <=> (k = i /\ m = j)
    BY <2>1 DEF Slots
  <2>7. \A k \in 0..1, m \in Slots : x # 9 + 3 * k + m
    BY <1>3 DEF Slots
  <2> QED
    BY <1>2, <2>5, <2>6, <2>7
<1>4. CASE x \in 9..14
  <2>1. PICK i \in 0..1, j \in 0..2 : x = 9 + 3 * i + j
    BY <1>4, SlotNumbers
  <2>2. (x - 9) \div 3 = i /\ x % 3 = j
    BY <2>1, SlotNumbers
  <2>3. u = [c EXCEPT !.child[i][j] = who]
    BY <1>1, <1>4, <2>2
  <2>4. /\ u = [c EXCEPT !.child = [c.child EXCEPT ![i] = [c.child[i] EXCEPT ![j] = who]]]
    BY <2>3
  <2>5. /\ IsView(u) /\ u.parent = c.parent
        /\ u.path = c.path /\ u.partner = c.partner /\ u.center = c.center
        /\ u.child[i][j] = who
        /\ \A k \in 0..1, m \in Slots : (k # i \/ m # j) => u.child[k][m] = c.child[k][m]
    BY <1>2, <2>4 DEF IsView, Slots
  <2>6. \A k \in 0..1, m \in Slots : (x = 9 + 3 * k + m) <=> (k = i /\ m = j)
    BY <2>1 DEF Slots
  <2>7. \A k \in 0..2, m \in Slots : x # 3 * k + m
    BY <1>4 DEF Slots
  <2> QED
    BY <1>2, <2>5, <2>6, <2>7
<1> QED
  BY <1>3, <1>4

----------------------------------------------------------------------------
(* A tree of depth d, in which a node has one slot. *)
IsTree(tree, d) ==
  /\ tree \in [P!PanelsTo(d) -> [Slots -> Nat]]
  /\ \A p, r \in P!PanelsTo(d) : \A i, j \in Slots :
       tree[p][i] = tree[r][j] /\ tree[p][i] # Nobody => p = r /\ i = j

(* What a view shows of slot j of panel p: nothing when the tree ends above. *)
Shown(tree, p, j) == IF p \in DOMAIN tree THEN tree[p][j] ELSE Nobody

(* The view of the node in slot t of panel q is the tree, but for some slots. *)
FollowsBut(v, tree, q, t, open) ==
  /\ IsView(v)
  /\ v.path = Path(q) /\ v.partner = t /\ v.center = (Len(q) = 1)
  /\ \A i \in 0..2, j \in Slots :
       <<ParentPanel(q, i), j>> \in open \/ v.parent[i][j] = tree[ParentPanel(q, i)][j]
  /\ \A i \in 0..1, j \in Slots :
       <<Append(q, i), j>> \in open \/ v.child[i][j] = Shown(tree, Append(q, i), j)

(* The panels around a panel of the tree are in it. *)
LEMMA ParentInTree ==
  ASSUME NEW d \in Nat, NEW q \in P!PanelsTo(d)
  PROVE  IsPanel(q) /\ Len(q) <= d /\ \A i \in 0..2 : ParentPanel(q, i) \in P!PanelsTo(d)
<1>1. IsPanel(q) /\ Len(q) \in 1..d
  BY PanelsAre
<1>2. ASSUME NEW i \in 0..2 PROVE ParentPanel(q, i) \in P!PanelsTo(d)
  <2>1. IsPanel(ParentPanel(q, i)) /\ Len(ParentPanel(q, i)) <= Len(q)
    BY <1>1, ParentIsPanel
  <2>2. Len(ParentPanel(q, i)) <= d
    BY <1>1, <2>1 DEF IsPanel
  <2> QED
    BY <2>1, <2>2, PanelsBack
<1> QED
  BY <1>1, <1>2

(* The position that a moved or new node is told is the tree. *)
LEMMA PositionFollows ==
  ASSUME NEW d \in Nat, NEW tree, IsTree(tree, d), NEW q \in P!PanelsTo(d), NEW t \in Slots
  PROVE  FollowsBut(Position(tree, q, t), tree, q, t, {})
<1> DEFINE v == Position(tree, q, t)
<1>1. IsPanel(q) /\ \A i \in 0..2 : ParentPanel(q, i) \in P!PanelsTo(d)
  BY ParentInTree
<1>3. /\ v.path = Path(q) /\ v.partner = t /\ v.center = (Len(q) = 1)
      /\ v.parent = [i \in 0..2 |-> tree[ParentPanel(q, i)]]
      /\ v.child = [i \in 0..1 |-> IF Append(q, i) \in DOMAIN tree THEN tree[Append(q, i)]
                                   ELSE [j \in Slots |-> Nobody]]
      /\ v = [path |-> v.path, partner |-> v.partner, center |-> v.center,
              parent |-> v.parent, child |-> v.child]
  BY DEF Position
<1> HIDE DEF v
<1>5. v.parent \in [0..2 -> [Slots -> Nat]]
  BY <1>1, <1>3 DEF IsTree
<1>6. v.child \in [0..1 -> [Slots -> Nat]]
  BY <1>3 DEF IsTree, Nobody
<1>7. IsView(v)
  BY <1>3, <1>5, <1>6 DEF IsView
<1>8. \A i \in 0..2, j \in Slots : v.parent[i][j] = tree[ParentPanel(q, i)][j]
  BY <1>3
<1>9. \A i \in 0..1, j \in Slots : v.child[i][j] = Shown(tree, Append(q, i), j)
  BY <1>3 DEF Shown
<1> QED
  BY <1>3, <1>7, <1>8, <1>9 DEF FollowsBut, v

(* A view that is right everywhere is that position. *)
LEMMA FollowsPosition ==
  ASSUME NEW d \in Nat, NEW tree, IsTree(tree, d), NEW q \in P!PanelsTo(d), NEW t \in Slots,
         NEW v, FollowsBut(v, tree, q, t, {})
  PROVE  v = Position(tree, q, t)
<1> DEFINE w == Position(tree, q, t)
<1>1. FollowsBut(w, tree, q, t, {})
  BY PositionFollows
<1> HIDE DEF w
<1>2. IsView(v) /\ IsView(w) /\ v.path = w.path /\ v.partner = w.partner /\ v.center = w.center
  BY <1>1 DEF FollowsBut
<1>3. v.parent = w.parent
  <2>1. \A i \in 0..2 : \A j \in Slots : v.parent[i][j] = w.parent[i][j]
    BY <1>1 DEF FollowsBut
  <2>2. \A i \in 0..2 : v.parent[i] = w.parent[i]
    BY <1>2, <2>1 DEF IsView
  <2> QED
    BY <1>2, <2>2 DEF IsView
<1>4. v.child = w.child
  <2>1. \A i \in 0..1 : \A j \in Slots : v.child[i][j] = w.child[i][j]
    BY <1>1 DEF FollowsBut
  <2>2. \A i \in 0..1 : v.child[i] = w.child[i]
    BY <1>2, <2>1 DEF IsView
  <2> QED
    BY <1>2, <2>2 DEF IsView
<1>5. v = w
  BY <1>2, <1>3, <1>4 DEF IsView
<1> QED
  BY <1>5 DEF w

(* A call closes its slot: the view is right but for the others. *)
LEMMA HandleFollows ==
  ASSUME NEW d \in 0..3, NEW tree, IsTree(tree, d),
         NEW q \in P!PanelsTo(d), NEW t \in Slots, NEW open,
         NEW m, FollowsBut(m.view, tree, q, t, open),
         NEW c, NEW place, place[c].panel = q,
         NEW call, call.panel \in P!PanelsTo(d), call.partner \in Slots,
         call.who = tree[call.panel][call.partner], c # call.who
  PROVE  FollowsBut(Handle(m, c, call, tree, place).view, tree, q, t,
                    open \ {<<call.panel, call.partner>>})
<1> DEFINE p == call.panel
           s == call.partner
           at == Announced(p, s, q)
           v == m.view
           u == Handle(m, c, call, tree, place).view
           left == open \ {<<p, s>>}
<1>1. /\ IsPanel(p) /\ IsPanel(q) /\ Len(p) <= 3 /\ s \in Slots /\ d \in Nat
      /\ \A i \in 0..2 : ParentPanel(q, i) \in P!PanelsTo(d)
  <2>1. d \in Nat /\ d <= 3
    OBVIOUS
  <2>2. IsPanel(p) /\ Len(p) <= d /\ Len(p) \in Nat
    BY <2>1, ParentInTree DEF IsPanel
  <2>3. Len(p) <= 3
    BY <2>1, <2>2
  <2> QED
    BY <2>1, <2>2, <2>3, ParentInTree
<1>2. call.who \in Nat
  BY <1>1 DEF IsTree
<1> HIDE DEF p, s
<1>h. /\ at = {} => /\ \A i \in 0..2 : ParentPanel(q, i) # p
                   /\ \A i \in 0..1 : Append(q, i) # p
      /\ \A x \in at :
           /\ at = {x} /\ x \in 0..14
           /\ \A i \in 0..2, j \in Slots : (ParentPanel(q, i) = p /\ j = s) <=> (x = 3 * i + j)
           /\ \A i \in 0..1, j \in Slots : (Append(q, i) = p /\ j = s) <=> (x = 9 + 3 * i + j)
  BY <1>1, Heard
<1>3. CASE at = {}
  <2>1. u = v
    BY <1>3 DEF Handle, p, s
  <2>2. /\ \A i \in 0..2 : ParentPanel(q, i) # p
        /\ \A i \in 0..1 : Append(q, i) # p
    BY <1>3, <1>h
  <2> HIDE DEF u, at
  <2> QED
    BY <2>1, <2>2 DEF FollowsBut, p, s, u
<1>4. CASE at # {}
  <2>1. PICK x \in at : TRUE
    BY <1>4
  <2>2. /\ at = {x} /\ x \in 0..14
        /\ \A i \in 0..2, j \in Slots : (ParentPanel(q, i) = p /\ j = s) <=> (x = 3 * i + j)
        /\ \A i \in 0..1, j \in Slots : (Append(q, i) = p /\ j = s) <=> (x = 9 + 3 * i + j)
    BY <2>1, <1>h
  <2>3. u = UpdateSingle(v, x, call.who)
    <3>1. (CHOOSE y \in at : TRUE) = x
      BY <2>2
    <3>2. Handle(m, c, call, tree, place) = Reposition(m, UpdateSingle(v, x, call.who), FALSE)
      BY <1>4, <3>1 DEF Handle, p, s
    <3> QED
      BY <3>2 DEF Reposition
  <2> HIDE DEF u, at
  <2>4. IsView(v)
    BY DEF FollowsBut
  <2> DEFINE w == call.who
  <2> HIDE DEF v, w
  <2>5. /\ IsView(u)
        /\ u.path = v.path /\ u.partner = v.partner /\ u.center = v.center
        /\ \A i \in 0..2, j \in Slots :
              IF x = 3 * i + j THEN u.parent[i][j] = w
              ELSE \/ u.parent[i][j] = v.parent[i][j]
                   \/ v.parent[i][j] = w /\ w # Nobody
        /\ \A i \in 0..1, j \in Slots :
              IF x = 9 + 3 * i + j THEN u.child[i][j] = w
              ELSE \/ u.child[i][j] = v.child[i][j]
                   \/ v.child[i][j] = w /\ w # Nobody
    <3>1. w \in Nat /\ x \in 0..14 /\ u = UpdateSingle(v, x, w)
      BY <1>2, <2>2, <2>3 DEF w
    <3> HIDE DEF at
    <3> QED
      BY <2>4, <3>1, UpdateSlot
  <2>6. p \in P!PanelsTo(d) /\ s \in Slots /\ w = tree[p][s] /\ DOMAIN tree = P!PanelsTo(d)
    BY DEF p, s, w, IsTree
  <2>a. \A r \in P!PanelsTo(d), k \in Slots :
          (r # p \/ k # s) => (tree[r][k] # w \/ w = Nobody)
    BY <2>6 DEF IsTree
  <2>7. ASSUME NEW i \in 0..2, NEW j \in Slots
        PROVE  <<ParentPanel(q, i), j>> \in left \/ u.parent[i][j] = tree[ParentPanel(q, i)][j]
    <3>1. CASE x = 3 * i + j
      BY <2>2, <2>5, <2>6, <2>7, <3>1
    <3>2. CASE x # 3 * i + j /\ <<ParentPanel(q, i), j>> \in open
      <4>1. ~(ParentPanel(q, i) = p /\ j = s)
        BY <2>2, <3>2
      <4> QED
        BY <3>2, <4>1
    <3>3. CASE x # 3 * i + j /\ <<ParentPanel(q, i), j>> \notin open
      <4>1. v.parent[i][j] = tree[ParentPanel(q, i)][j]
        BY <3>3 DEF FollowsBut, v
      <4>2. ~(ParentPanel(q, i) = p /\ j = s)
        BY <2>2, <3>3
      <4>3. tree[ParentPanel(q, i)][j] # w \/ w = Nobody
        BY <1>1, <2>a, <4>2
      <4> QED
        BY <2>5, <2>6, <3>3, <4>1, <4>3
    <3> QED
      BY <3>1, <3>2, <3>3
  <2>8. ASSUME NEW i \in 0..1, NEW j \in Slots
        PROVE  <<Append(q, i), j>> \in left \/ u.child[i][j] = Shown(tree, Append(q, i), j)
    <3>1. CASE x = 9 + 3 * i + j
      BY <2>2, <2>5, <2>6, <2>8, <3>1 DEF Shown
    <3>2. CASE x # 9 + 3 * i + j /\ <<Append(q, i), j>> \in open
      <4>1. ~(Append(q, i) = p /\ j = s)
        BY <2>2, <3>2
      <4> QED
        BY <3>2, <4>1
    <3>3. CASE x # 9 + 3 * i + j /\ <<Append(q, i), j>> \notin open
      <4>1. v.child[i][j] = Shown(tree, Append(q, i), j)
        BY <3>3 DEF FollowsBut, v
      <4>2. ~(Append(q, i) = p /\ j = s)
        BY <2>2, <3>3
      <4>3. Shown(tree, Append(q, i), j) # w \/ w = Nobody
        BY <2>6, <2>a, <4>2 DEF Shown
      <4> QED
        BY <2>5, <2>6, <3>3, <4>1, <4>3
    <3> QED
      BY <3>1, <3>2, <3>3
  <2>9. v.path = Path(q) /\ v.partner = t /\ v.center = (Len(q) = 1)
    BY DEF FollowsBut, v
  <2>10. FollowsBut(u, tree, q, t, left)
    BY <2>5, <2>7, <2>8, <2>9 DEF FollowsBut
  <2> QED
    BY <2>10 DEF u, p, s
<1> QED
  BY <1>3, <1>4

(* The nodes that are active are those that the view links with. *)
LEMMA HandleLinks ==
  ASSUME NEW m, NEW c, NEW call, NEW tree, NEW place, m.states = Links(m.view)
  PROVE  Handle(m, c, call, tree, place).states = Links(Handle(m, c, call, tree, place).view)
BY DEF Handle, Reposition

----------------------------------------------------------------------------
(* What a manager has after a change is what the calls leave one by one. *)
LEMMA AfterRuns ==
  ASSUME NEW c, NEW calls, NEW tree, NEW place, Len(calls) \in 1..3
  PROVE  \E m :
           /\ c \in Members => m[0].view = view[c] /\ m[0].states = states[c]
           /\ \A k \in 1..Len(calls) : m[k] = Handle(m[k - 1], c, calls[k], tree, place)
           /\ After(c, calls, tree, place) = m[Len(calls)]
<1>0. Len(calls) \in Nat /\ Len(calls) <= 3
  <2>1. \A n \in 1..3 : n \in Nat /\ n <= 3
    OBVIOUS
  <2> QED
    BY <2>1, Zenon
<1> DEFINE start ==
             IF c \in Members
             THEN [view |-> view[c], states |-> states[c],
                    asked |-> {}, cut |-> {}, dropped |-> {}]
             ELSE [view |-> BlankView, states |-> {}, asked |-> {}, cut |-> {}, dropped |-> {}]
           H(k, b) == Handle(b, c, calls[k], tree, place)
           m[k \in 0..Len(calls)] ==
             IF k = 0 THEN start ELSE Handle(m[k - 1], c, calls[k], tree, place)
<1>1. After(c, calls, tree, place) = m[Len(calls)]
  BY DEF After
<1>2. m = [k \in 0..Len(calls) |->
             IF k = 0 THEN start ELSE Handle(m[k - 1], c, calls[k], tree, place)]
  <2>1. \E f : f = [k \in 0..Len(calls) |->
                      IF k = 0 THEN start ELSE Handle(f[k - 1], c, calls[k], tree, place)]
    <3> HIDE DEF start
    <3> DEFINE h1 == H(1, start)
               h2 == H(2, h1)
               h3 == H(3, h2)
               f == [k \in 0..Len(calls) |->
                       IF k = 0 THEN start ELSE IF k = 1 THEN h1 ELSE IF k = 2 THEN h2 ELSE h3]
    <3>a. h1 = H(1, start) /\ h2 = H(2, h1) /\ h3 = H(3, h2)
      OBVIOUS
    <3> HIDE DEF H, h1, h2, h3
    <3>1. ASSUME NEW k \in 0..Len(calls)
          PROVE  f[k] = IF k = 0 THEN start ELSE H(k, f[k - 1])
      <4>1. CASE k = 0
        BY <4>1
      <4>2. CASE k = 1
        <5>1. f[1] = h1 /\ f[0] = start
          BY <4>2
        <5> QED
          BY <3>a, <4>2, <5>1
      <4>3. CASE k = 2
        <5>1. f[2] = h2 /\ f[1] = h1
          BY <4>3
        <5> QED
          BY <3>a, <4>3, <5>1
      <4>4. CASE k = 3
        <5>1. f[3] = h3 /\ f[2] = h2
          BY <4>4
        <5> QED
          BY <3>a, <4>4, <5>1
      <4>5. k \in 0..3
        <5> HIDE DEF f
        <5> QED
          BY <1>0
      <4> QED
        BY <4>1, <4>2, <4>3, <4>4, <4>5
    <3>2. DOMAIN f = 0..Len(calls) /\ f = [k \in DOMAIN f |-> f[k]]
      OBVIOUS
    <3> HIDE DEF f
    <3>3. f = [k \in 0..Len(calls) |-> IF k = 0 THEN start ELSE H(k, f[k - 1])]
      BY <3>1, <3>2
    <3>4. f = [k \in 0..Len(calls) |->
                 IF k = 0 THEN start ELSE Handle(f[k - 1], c, calls[k], tree, place)]
      BY <3>3 DEF H
    <3> QED
      BY <3>4
  <2> HIDE DEF start
  <2> QED
    BY <2>1
<1>3. c \in Members => start.view = view[c] /\ start.states = states[c]
  OBVIOUS
<1> HIDE DEF start, m, H
<1>4. m[0] = start
  BY <1>2
<1>5. \A k \in 1..Len(calls) : m[k] = Handle(m[k - 1], c, calls[k], tree, place)
  <2> SUFFICES ASSUME NEW k \in 1..Len(calls)
               PROVE  m[k] = Handle(m[k - 1], c, calls[k], tree, place)
    OBVIOUS
  <2>1. k \in 0..Len(calls) /\ k # 0
    OBVIOUS
  <2> QED
    BY <1>2, <2>1
<1> QED
  BY <1>1, <1>3, <1>4, <1>5

(* The slots of the calls that are still to come after k of them. *)
Open(calls, k) == {<<calls[i].panel, calls[i].partner>> : i \in (k + 1)..Len(calls)}

(* Calls that name the node of the slot they are about. *)
CallsFit(calls, tree, d) ==
  /\ Len(calls) \in 1..3
  /\ \A k \in 1..Len(calls) :
       /\ calls[k].panel \in P!PanelsTo(d) /\ calls[k].partner \in Slots
       /\ calls[k].who = tree[calls[k].panel][calls[k].partner]

(* A node that is moved or new, or has a view that is right but for the calls. *)
Beforehand(c, calls, tree, q, t) ==
  \/ \E k \in 1..Len(calls) : calls[k].who = c
  \/ /\ c \in Members /\ states[c] = Links(view[c])
     /\ FollowsBut(view[c], tree, q, t, Open(calls, 0))

(* After the calls of a change a manager has the tree as it is now. *)
LEMMA AfterFollows ==
  ASSUME NEW d, NEW tree, NEW calls, NEW place, NEW c, NEW q, NEW t,
         d \in 0..3, IsTree(tree, d), CallsFit(calls, tree, d),
         q \in P!PanelsTo(d), t \in Slots, place[c].panel = q, tree[q][t] = c, c # Nobody,
         Beforehand(c, calls, tree, q, t)
  PROVE  /\ After(c, calls, tree, place).view = Position(tree, q, t)
         /\ After(c, calls, tree, place).states = Links(Position(tree, q, t))
<1>0. /\ Len(calls) \in 1..3
      /\ \A k \in 1..Len(calls) :
           /\ calls[k].panel \in P!PanelsTo(d) /\ calls[k].partner \in Slots
           /\ calls[k].who = tree[calls[k].panel][calls[k].partner]
  BY DEF CallsFit
<1> DEFINE K == Len(calls)
<1>1. PICK m :
        /\ c \in Members => m[0].view = view[c] /\ m[0].states = states[c]
        /\ \A k \in 1..K : m[k] = Handle(m[k - 1], c, calls[k], tree, place)
        /\ After(c, calls, tree, place) = m[K]
  BY <1>0, AfterRuns
<1> DEFINE Good(k) == /\ FollowsBut(m[k].view, tree, q, t, Open(calls, k))
                      /\ m[k].states = Links(m[k].view)
<1>2. d \in Nat /\ K \in Nat
  BY <1>0
<1>3. ASSUME NEW k \in 1..K, calls[k].who = c PROVE Good(k)
  <2>1. calls[k].panel = q /\ calls[k].partner = t
    BY <1>0, <1>3 DEF IsTree
  <2>2. m[k].view = Position(tree, q, t) /\ m[k].states = Links(m[k].view)
    <3>1. m[k] = Handle(m[k - 1], c, calls[k], tree, place)
      BY <1>1
    <3> DEFINE b == m[k - 1]
               call == calls[k]
    <3>2. /\ c = call.who /\ call.panel = q /\ call.partner = t
          /\ m[k] = Handle(b, c, call, tree, place)
      BY <1>3, <2>1, <3>1
    <3> HIDE DEF b, call
    <3> QED
      BY <3>2 DEF Handle, Reposition
  <2>3. FollowsBut(m[k].view, tree, q, t, {})
    BY <1>2, <2>2, PositionFollows
  <2> QED
    BY <2>2, <2>3 DEF FollowsBut
<1>4. ASSUME NEW k \in 1..K, Good(k - 1) PROVE Good(k)
  <2>1. CASE calls[k].who = c
    BY <1>3, <2>1
  <2>2. CASE calls[k].who # c
    <3>1. m[k] = Handle(m[k - 1], c, calls[k], tree, place)
      BY <1>1
    <3>2. m[k].states = Links(m[k].view)
      BY <1>4, <3>1, HandleLinks
    <3>3. FollowsBut(m[k].view, tree, q, t,
                     Open(calls, k - 1) \ {<<calls[k].panel, calls[k].partner>>})
      <4> DEFINE b == m[k - 1]
                 call == calls[k]
      <4>1. /\ FollowsBut(b.view, tree, q, t, Open(calls, k - 1))
            /\ call.panel \in P!PanelsTo(d) /\ call.partner \in Slots
            /\ call.who = tree[call.panel][call.partner] /\ c # call.who
        BY <1>0, <1>4, <2>2
      <4> HIDE DEF b, call
      <4>2. FollowsBut(Handle(b, c, call, tree, place).view, tree, q, t,
                       Open(calls, k - 1) \ {<<call.panel, call.partner>>})
        BY <4>1, HandleFollows
      <4> QED
        BY <3>1, <4>2 DEF b, call
    <3>4. Open(calls, k - 1) \ {<<calls[k].panel, calls[k].partner>>} \subseteq Open(calls, k)
      <4>1. ASSUME NEW i \in (k - 1 + 1)..K, i # k PROVE i \in (k + 1)..K
        BY <1>2, <4>1
      <4> QED
        BY <4>1 DEF Open
    <3> QED
      BY <3>2, <3>3, <3>4 DEF FollowsBut
  <2> QED
    BY <2>1, <2>2
<1>5. Good(0) \/ \E k \in 1..K : Good(k)
  <2>1. CASE \E k \in 1..K : calls[k].who = c
    BY <1>3, <2>1
  <2>2. CASE /\ c \in Members /\ states[c] = Links(view[c])
             /\ FollowsBut(view[c], tree, q, t, Open(calls, 0))
    BY <1>1, <2>2
  <2> QED
    BY <2>1, <2>2 DEF Beforehand
<1> HIDE DEF Good
<1>6. Good(K)
  <2>1. \A k \in 1..K : Good(k - 1) => Good(k)
    BY <1>4
  <2>2. 1 <= K => (Good(0) => Good(1))
    <3>1. 1 <= K => 1 \in 1..K /\ 1 - 1 = 0
      BY <1>2
    <3> QED
      BY <2>1, <3>1
  <2>3. 2 <= K => (Good(1) => Good(2))
    <3>1. 2 <= K => 2 \in 1..K /\ 2 - 1 = 1
      BY <1>2
    <3> QED
      BY <2>1, <3>1
  <2>4. 3 <= K => (Good(2) => Good(3))
    <3>1. 3 <= K => 3 \in 1..K /\ 3 - 1 = 2
      BY <1>2
    <3> QED
      BY <2>1, <3>1
  <2>5. K = 1 \/ K = 2 \/ K = 3
    BY <1>0
  <2> HIDE DEF K
  <2>6. CASE K = 1
    BY <1>5, <2>2, <2>6
  <2>7. CASE K = 2
    <3>1. \A k \in 1..K : k = 1 \/ k = 2
      BY <2>7
    <3> QED
      BY <1>5, <2>2, <2>3, <2>7, <3>1
  <2>8. CASE K = 3
    <3>1. \A k \in 1..K : k = 1 \/ k = 2 \/ k = 3
      BY <2>8
    <3> QED
      BY <1>5, <2>2, <2>3, <2>4, <2>8, <3>1
  <2> QED
    BY <2>5, <2>6, <2>7, <2>8
<1>7. Open(calls, K) = {}
  BY <1>2 DEF Open
<1>8. FollowsBut(m[K].view, tree, q, t, {}) /\ m[K].states = Links(m[K].view)
  BY <1>6, <1>7 DEF Good
<1>9. m[K].view = Position(tree, q, t)
  BY <1>2, <1>8, FollowsPosition
<1> QED
  BY <1>1, <1>8, <1>9
(* The tree of PoolTopology and the instance of this module are the same tree. *)
LEMMA SamePanels ==
  /\ Tree!Partners = Slots /\ P!Partners = Slots /\ Tree!Nil = Nobody /\ P!Nil = Nobody
  /\ Tree!Panels = P!Panels
  /\ \A d : Tree!Level(d) = P!Level(d) /\ Tree!PanelsTo(d) = P!PanelsTo(d)
BY DEF Tree!Partners, P!Partners, Tree!Nil, P!Nil, Slots, Nobody,
       Tree!Panels, P!Panels, Tree!PanelsTo, P!PanelsTo, Tree!Level, P!Level

(* The same, for the cardinality each of them takes from FiniteSets. *)
LEMMA SameCardinality == \A S : Tree!Cardinality(S) = P!Cardinality(S)
BY Zenon DEF Tree!Cardinality, P!Cardinality

(* The same, for the initial states. *)
LEMMA SameInit == Tree!Init => P!Init
BY SamePanels DEF Tree!Init, P!Init, Tree!PanelsTo, P!PanelsTo, Tree!Level, P!Level

(* The same, for placing a node. *)
LEMMA SamePlace ==
  ASSUME NEW id, NEW d, NEW p, NEW j PROVE Tree!Place(id, d, p, j) => P!Place(id, d, p, j)
BY DEF Tree!Place, P!Place, Tree!Grown, P!Grown, Tree!PanelsTo, P!PanelsTo, Tree!Level,
       P!Level, Tree!Partners, P!Partners, Tree!Nil, P!Nil

(* The same, for the level AddNode looks for. *)
LEMMA SameLevel ==
  ASSUME NEW d
  PROVE Tree!FreeLevel(d) => P!FreeLevel(d)
BY DEF Tree!FreeLevel, P!FreeLevel, Tree!Full, P!Full, Tree!PanelsTo, P!PanelsTo,
       Tree!Level, P!Level, Tree!Panels, P!Panels, Tree!Partners, P!Partners, Tree!Nil,
       P!Nil

(* The same, for the clusters of a level and what they hold. *)
LEMMA SameClusters ==
  ASSUME NEW c, NEW tree, NEW d, NEW q
  PROVE  /\ Tree!Clusters(d) = P!Clusters(d) /\ Tree!OwnPanels(c) = P!OwnPanels(c)
         /\ Tree!ClusterAmount(tree, c) = P!ClusterAmount(tree, c)
         /\ Tree!PanelAmount(tree, q) = P!PanelAmount(tree, q)
<1>1. Tree!Clusters(d) = P!Clusters(d)
  BY SamePanels DEF Tree!Clusters, P!Clusters
<1>2. Tree!OwnPanels(c) = P!OwnPanels(c)
  BY SamePanels DEF Tree!OwnPanels, P!OwnPanels
<1>3. Tree!ClusterAmount(tree, c) = P!ClusterAmount(tree, c)
  <2>1. Tree!OwnPanels(c) \X Tree!Partners = P!OwnPanels(c) \X P!Partners /\ Tree!Nil = P!Nil
    BY <1>2, SamePanels
  <2>2. {s \in Tree!OwnPanels(c) \X Tree!Partners : tree[s[1]][s[2]] # Tree!Nil}
          = {s \in P!OwnPanels(c) \X P!Partners : tree[s[1]][s[2]] # P!Nil}
    BY <2>1, Zenon
  <2> QED
    BY <2>2, SameCardinality, Zenon DEF Tree!ClusterAmount, P!ClusterAmount
<1>4. Tree!PanelAmount(tree, q) = P!PanelAmount(tree, q)
  BY SameCardinality DEF Tree!PanelAmount, P!PanelAmount, Tree!Partners, P!Partners,
                         Tree!Nil, P!Nil
<1> QED
  BY <1>1, <1>2, <1>3, <1>4

(* The same, for the cluster or panel AddNode settles for. *)
LEMMA SameLowest ==
  ASSUME NEW x, NEW f PROVE Tree!LastLowest(x, f) <=> P!LastLowest(x, f)
BY DEF Tree!LastLowest, P!LastLowest, Tree!Later, P!Later

(* The same, for a tree with a new level. *)
LEMMA SameGrown ==
  ASSUME NEW d
  PROVE Tree!Grown(d) = P!Grown(d)
BY SamePanels DEF Tree!Grown, P!Grown

(* The same, for the slot AddNode finds. *)
LEMMA SameSlot ==
  ASSUME NEW d, NEW p, NEW j
  PROVE Tree!FreeSlot(d, p, j) => P!FreeSlot(d, p, j)
<1> SUFFICES ASSUME Tree!FreeSlot(d, p, j) PROVE P!FreeSlot(d, p, j)
  OBVIOUS
<1> DEFINE tree == P!Grown(d)
<1>1. Tree!Grown(d) = tree
  BY SameGrown
<1> HIDE DEF tree
<1>2. tree[p][j] = P!Nil /\ \A i \in 0..(j - 1) : tree[p][i] # P!Nil
  BY <1>1, SamePanels DEF Tree!FreeSlot
<1>3. PICK c \in Tree!Clusters(d) :
        /\ Tree!LastLowest(c, [e \in Tree!Clusters(d) |-> Tree!ClusterAmount(tree, e)])
        /\ p \in Tree!OwnPanels(c)
        /\ Tree!LastLowest(p, [q \in Tree!OwnPanels(c) |-> Tree!PanelAmount(tree, q)])
  BY <1>1 DEF Tree!FreeSlot
<1>4. /\ c \in P!Clusters(d) /\ p \in P!OwnPanels(c)
      /\ P!LastLowest(c, [e \in Tree!Clusters(d) |-> Tree!ClusterAmount(tree, e)])
      /\ P!LastLowest(p, [q \in Tree!OwnPanels(c) |-> Tree!PanelAmount(tree, q)])
  BY <1>3, SameClusters, SameLowest
<1>5. [e \in Tree!Clusters(d) |-> Tree!ClusterAmount(tree, e)]
        = [e \in P!Clusters(d) |-> P!ClusterAmount(tree, e)]
  <2>1. /\ Tree!Clusters(d) = P!Clusters(d)
        /\ \A e : Tree!ClusterAmount(tree, e) = P!ClusterAmount(tree, e)
    BY SameClusters
  <2> QED
    BY <2>1
<1>6. [q \in Tree!OwnPanels(c) |-> Tree!PanelAmount(tree, q)]
        = [q \in P!OwnPanels(c) |-> P!PanelAmount(tree, q)]
  <2>1. /\ Tree!OwnPanels(c) = P!OwnPanels(c)
        /\ \A e : Tree!PanelAmount(tree, e) = P!PanelAmount(tree, e)
    BY SameClusters
  <2> QED
    BY <2>1
<1> QED
  BY <1>2, <1>4, <1>5, <1>6 DEF P!FreeSlot, tree

(* The same, for the panels a promotion passes through. *)
LEMMA SameRoute ==
  ASSUME NEW p, NEW q
  PROVE  /\ Tree!Route(p, q) = P!Route(p, q)
         /\ Tree!Below(p) = P!Below(p)
         /\ Tree!Toward(p, q) = P!Toward(p, q)
BY DEF Tree!Route, P!Route, Tree!Below, P!Below, Tree!Toward, P!Toward, Tree!AtOrAbove,
       P!AtOrAbove, Tree!Above, P!Above, Tree!Panels, P!Panels, Tree!PanelsTo,
       P!PanelsTo, Tree!Level, P!Level

(* The same, for the node promoted into a panel. *)
LEMMA SamePromoted ==
  ASSUME NEW p, NEW q, NEW f
  PROVE Tree!Promoted(p, q, f) = P!Promoted(p, q, f)
BY SameRoute DEF Tree!Promoted, P!Promoted

(* The same, for the nodes below a panel. *)
LEMMA SameChildren ==
  ASSUME NEW p
  PROVE  Tree!ChildNodes(p) = P!ChildNodes(p) /\ Tree!ChildNodeAmount(p) = P!ChildNodeAmount(p)
<1>1. Tree!ChildNodes(p) = P!ChildNodes(p)
  <2>1. Tree!Below(p) \X Tree!Partners = P!Below(p) \X P!Partners /\ Tree!Nil = P!Nil
    BY SameRoute, SamePanels
  <2> QED
    BY <2>1, Zenon DEF Tree!ChildNodes, P!ChildNodes
<1> QED
  BY <1>1, SameCardinality DEF Tree!ChildNodeAmount, P!ChildNodeAmount

(* The same, for one round of the loop of promotions. *)
LEMMA SamePromotes ==
  ASSUME NEW p, NEW s, NEW q, NEW j
  PROVE Tree!Promotes(p, s, q, j) => P!Promotes(p, s, q, j)
BY SameChildren, SamePanels DEF Tree!Promotes, P!Promotes

(* The same, for the end of that loop. *)
LEMMA SameEnds ==
  ASSUME NEW p
  PROVE Tree!LoopEnds(p) <=> P!LoopEnds(p)
BY SameRoute, SamePanels DEF Tree!LoopEnds, P!LoopEnds, Tree!ChildNodes, P!ChildNodes

(* The same, for the whole loop. *)
LEMMA SamePR ==
  ASSUME NEW n, NEW last, NEW from
  PROVE Tree!PromotionRoute(n, last, from) => P!PromotionRoute(n, last, from)
BY SameRoute, SamePanels, SamePromotes, SameEnds DEF Tree!PromotionRoute,
  P!PromotionRoute, Tree!AtOrAbove, P!AtOrAbove, Tree!Above, P!Above

(* The same, for what the loop does to the tree. *)
LEMMA SameUnplace ==
  ASSUME NEW id, NEW last, NEW from
  PROVE Tree!Unplace(id, last, from) => P!Unplace(id, last, from)
BY DEF Tree!Unplace, P!Unplace, Tree!Promoted, P!Promoted, Tree!Toward, P!Toward,
       Tree!Route, P!Route, Tree!AtOrAbove, P!AtOrAbove, Tree!Above, P!Above,
  Tree!Panels, P!Panels, Tree!PanelsTo, P!PanelsTo, Tree!Level, P!Level, Tree!Nil, P!Nil

(* AddNode of PoolTopology changes the tree as AddNode of ClusterTree does. *)
LEMMA SameAdd ==
  ASSUME NEW id, AddNode(id) PROVE P!AddNode(id)
<1>1. PICK d \in 1..(depth + 1) :
        /\ Tree!FreeLevel(d)
        /\ \E p \in Tree!Level(d), j \in Slots : Tree!FreeSlot(d, p, j) /\ Tree!Place(id, d, p, j)
  BY DEF AddNode
<1>2. PICK p \in Tree!Level(d), j \in Slots : Tree!FreeSlot(d, p, j) /\ Tree!Place(id, d, p, j)
  BY <1>1
<1>3. /\ P!FreeLevel(d) /\ P!FreeSlot(d, p, j) /\ P!Place(id, d, p, j)
      /\ p \in P!Level(d) /\ j \in P!Partners
  BY <1>1, <1>2, SameLevel, SameSlot, SamePlace, SamePanels
<1> QED
  BY <1>3 DEF AddNode, P!AddNode

(* RemoveNode of PoolTopology changes the tree as that of ClusterTree does. *)
LEMMA SameRemove ==
  ASSUME NEW id, RemoveNode(id) PROVE P!RemoveNode(id)
<1>1. PICK last \in Tree!Below(node[nodeMap[id]].panel) :
        \E from \in [Tree!Route(node[nodeMap[id]].panel, last) -> Slots] :
          /\ Tree!PromotionRoute(nodeMap[id], last, from)
          /\ Tree!Unplace(id, last, from)
  BY DEF RemoveNode
<1>2. PICK from \in [Tree!Route(node[nodeMap[id]].panel, last) -> Slots] :
        /\ Tree!PromotionRoute(nodeMap[id], last, from)
        /\ Tree!Unplace(id, last, from)
  BY <1>1
<1>3. /\ last \in P!Below(node[nodeMap[id]].panel)
      /\ from \in [P!Route(node[nodeMap[id]].panel, last) -> P!Partners]
  BY SameRoute, SamePanels
<1>4. P!PromotionRoute(nodeMap[id], last, from) /\ P!Unplace(id, last, from)
  BY <1>2, SamePR, SameUnplace
<1>5. nodeMap[id] # P!Nil
  BY SamePanels DEF RemoveNode
<1> QED
  BY <1>3, <1>4, <1>5 DEF P!RemoveNode

(* So the invariant of the tree holds here as well. *)
LEMMA TreeStep ==
  ASSUME P!TreeInv, [Next]_vars PROVE P!TreeInv'
<1>1. CASE AddNode(made + 1)
  <2>1. P!AddNode(made + 1)
    BY <1>1, SameAdd
  <2>2. made + 1 \in 1..MaxConns
    BY <1>1, TopologyAssumption DEF AddNode, P!TreeInv, P!TypeOK
  <2> QED
    BY <2>1, <2>2, TreeTerms, P!AddInv
<1>2. ASSUME NEW id \in 1..MaxConns, RemoveNode(id) PROVE P!TreeInv'
  <2>1. P!RemoveNode(id)
    BY <1>2, SameRemove
  <2> QED
    BY <2>1, TreeTerms, P!RemoveInv
<1>3. CASE UNCHANGED vars
  <2>1. UNCHANGED P!vars
    BY <1>3 DEF vars, P!vars
  <2> QED
    BY <2>1, TreeTerms, P!StepInv
<1> QED
  BY <1>1, <1>2, <1>3 DEF Next

(* It says that the tree has its slots, and a node one slot. *)
LEMMA TreeIs == P!TreeInv => depth \in Nat /\ IsTree(nodes, depth)
<1> SUFFICES ASSUME P!TreeInv PROVE depth \in Nat /\ IsTree(nodes, depth)
  OBVIOUS
<1>1. depth \in Nat /\ nodes \in [P!PanelsTo(depth) -> [Slots -> 0..made]] /\ made \in Nat
  BY SamePanels DEF P!TreeInv, P!TypeOK, P!Panels
<1>2. \A p \in P!PanelsTo(depth), j \in Slots :
        nodes[p][j] # Nobody => node[nodes[p][j]].panel = p /\ node[nodes[p][j]].partner = j
  BY SamePanels DEF P!TreeInv, P!SlotsMatchNodes, P!Panels
<1>3. nodes \in [P!PanelsTo(depth) -> [Slots -> Nat]]
  BY <1>1
<1>4. ASSUME NEW p \in P!PanelsTo(depth), NEW r \in P!PanelsTo(depth),
             NEW i \in Slots, NEW j \in Slots,
             nodes[p][i] = nodes[r][j], nodes[p][i] # Nobody
      PROVE  p = r /\ i = j
  BY <1>2, <1>4
<1> QED
  BY <1>1, <1>3, <1>4 DEF IsTree

(* A node is in the slot its record names. *)
LEMMA MemberPlaces ==
  P!TreeInv => \A c \in Members :
    /\ c # Nobody /\ node[c].panel \in P!PanelsTo(depth) /\ node[c].partner \in Slots
    /\ nodes[node[c].panel][node[c].partner] = c
<1> SUFFICES ASSUME P!TreeInv, NEW c \in Members
             PROVE  /\ c # Nobody
                    /\ node[c].panel \in P!PanelsTo(depth) /\ node[c].partner \in Slots
                    /\ nodes[node[c].panel][node[c].partner] = c
  OBVIOUS
<1>1. c \in 1..made /\ made \in Nat
  BY DEF P!TreeInv, P!TypeOK, Members
<1>2. node[c].panel \in P!PanelsTo(depth) /\ node[c].partner \in Slots
  BY SamePanels DEF P!TreeInv, P!TypeOK, Members, P!Panels
<1>3. nodes[node[c].panel][node[c].partner] = c
  BY DEF P!TreeInv, P!SlotsMatchNodes, Members
<1> QED
  BY <1>1, <1>2, <1>3 DEF Nobody

----------------------------------------------------------------------------
(* The calls of a change name the node of every slot that has changed, and *)
(* every node that is moved or new.                                        *)
Told(calls) ==
  /\ CallsFit(calls, nodes', depth')
  /\ \A q \in P!PanelsTo(depth'), j \in Slots :
       <<q, j>> \in Open(calls, 0) \/ nodes'[q][j] = Shown(nodes, q, j)
  /\ \A c \in DOMAIN node' :
       (\E k \in 1..Len(calls) : calls[k].who = c) \/ (c \in Members /\ node'[c] = node[c])

(* AddNode makes one such call, about the new node. *)
LEMMA AddTold ==
  ASSUME P!TreeInv, AddNode(made + 1)
  PROVE  /\ depth \in Nat /\ depth' \in Nat /\ depth <= depth'
         /\ \E calls : Announce(calls) /\ Told(calls)
<1> DEFINE n == made + 1
<1>1. PICK d \in 1..(depth + 1) :
        \E p \in Tree!Level(d), j \in Slots :
          /\ Tree!Place(n, d, p, j)
          /\ Announce(<<[who |-> n, panel |-> p, partner |-> j]>>)
  BY DEF AddNode
<1>2. PICK p \in Tree!Level(d), j \in Slots :
        /\ Tree!Place(n, d, p, j)
        /\ Announce(<<[who |-> n, panel |-> p, partner |-> j]>>)
  BY <1>1
<1>3. P!Place(n, d, p, j) /\ p \in P!Level(d)
  BY <1>2, SamePlace, SamePanels
<1>4. depth \in Nat /\ IsTree(nodes, depth) /\ made \in Nat /\ DOMAIN node \subseteq 1..made
  BY TreeIs DEF P!TreeInv, P!TypeOK
<1>5. depth' \in Nat /\ depth <= depth' /\ d <= depth' /\ d \in Nat /\ d >= 1
  BY <1>3, <1>4 DEF P!Place
<1>6. p \in P!PanelsTo(depth')
  BY <1>3, <1>5, TreeTerms, P!PanelsByLength
<1> DEFINE G == P!Grown(depth')
<1>7. nodes' = [G EXCEPT ![p][j] = n]
  BY <1>3 DEF P!Place
<1>8. ASSUME NEW q \in P!PanelsTo(depth')
      PROVE  G[q] \in [Slots -> Nat] /\ \A i \in Slots : G[q][i] = Shown(nodes, q, i)
  <2>1. DOMAIN nodes = P!PanelsTo(depth)
    BY <1>4 DEF IsTree
  <2>2. (q \in DOMAIN nodes) <=> (Len(q) <= depth)
    BY <1>4, <1>5, <2>1, PanelsAre, PanelsBack
  <2>3. G[q] = IF Len(q) <= depth THEN nodes[q] ELSE [i \in Slots |-> Nobody]
    BY SamePanels DEF P!Grown
  <2> HIDE DEF G
  <2>4. CASE Len(q) <= depth
    BY <1>4, <2>1, <2>2, <2>3, <2>4 DEF Shown, IsTree
  <2>5. CASE ~(Len(q) <= depth)
    BY <2>2, <2>3, <2>5 DEF Shown, Nobody
  <2> QED
    BY <2>4, <2>5
<1>9. DOMAIN G = P!PanelsTo(depth')
  BY DEF P!Grown
<1> HIDE DEF G
<1> DEFINE e == [who |-> n, panel |-> p, partner |-> j]
           calls == <<e>>
<1>10. Len(calls) = 1 /\ calls[1] = e
  OBVIOUS
<1>11. e.who = n /\ e.panel = p /\ e.partner = j
  OBVIOUS
<1> HIDE DEF calls, e
<1>12. nodes'[p][j] = n /\ \A q \in P!PanelsTo(depth'), i \in Slots :
          (q # p \/ i # j) => nodes'[q][i] = G[q][i]
  BY <1>6, <1>7, <1>8, <1>9
<1>13. \A q \in P!PanelsTo(depth'), i \in Slots :
         <<q, i>> \in Open(calls, 0) \/ nodes'[q][i] = Shown(nodes, q, i)
  <2>1. <<p, j>> \in Open(calls, 0)
    <3>1. 1 \in (0 + 1)..Len(calls)
      BY <1>10
    <3>2. <<calls[1].panel, calls[1].partner>> = <<p, j>>
      BY <1>10, <1>11
    <3> QED
      BY <3>1, <3>2 DEF Open
  <2> QED
    BY <1>8, <1>12, <2>1
<1>14. \A c \in DOMAIN node' :
         (\E k \in 1..Len(calls) : calls[k].who = c) \/ (c \in Members /\ node'[c] = node[c])
  <2>1. \A c \in DOMAIN node' : c = n \/ (c \in DOMAIN node /\ node'[c] = node[c])
    BY <1>3 DEF P!Place
  <2>2. \E k \in 1..Len(calls) : calls[k].who = n
    BY <1>10, <1>11
  <2> QED
    BY <2>1, <2>2 DEF Members
<1>15. \A k \in 1..Len(calls) :
         /\ calls[k].panel \in P!PanelsTo(depth') /\ calls[k].partner \in Slots
         /\ calls[k].who = nodes'[calls[k].panel][calls[k].partner]
  <2>1. \A k \in 1..Len(calls) : k = 1
    BY <1>10
  <2> QED
    BY <1>6, <1>10, <1>11, <1>12, <2>1
<1>16. Len(calls) \in 1..3
  BY <1>10
<1>17. Told(calls)
  BY <1>13, <1>14, <1>15, <1>16 DEF Told, CallsFit
<1>18. Announce(calls)
  BY <1>2 DEF calls, e
<1> QED
  BY <1>4, <1>5, <1>17, <1>18

(* The panels on the way down to the last are its prefixes. *)
LEMMA RouteCalls ==
  ASSUME depth \in Nat, NEW top \in P!Panels, NEW last \in P!Panels, P!AtOrAbove(top, last)
  PROVE  /\ Len(top) \in 1..Len(last) /\ Len(last) \in 1..depth
         /\ \A k \in 1..(Len(last) - Len(top) + 1) :
              /\ SubSeq(last, 1, Len(top) + k - 1) \in P!Route(top, last)
              /\ SubSeq(last, 1, Len(top) + k - 1) \in P!Panels
         /\ \A p \in P!Route(top, last) :
              \E k \in 1..(Len(last) - Len(top) + 1) : p = SubSeq(last, 1, Len(top) + k - 1)
<1>1. /\ IsPanel(top) /\ IsPanel(last) /\ Len(top) \in 1..depth /\ Len(last) \in 1..depth
  BY PanelsAre DEF P!Panels
<1>2. Len(top) <= Len(last) /\ \A i \in 1..Len(top) : last[i] = top[i]
  BY <1>1 DEF P!AtOrAbove, P!Above, IsPanel
<1>3. Len(top) \in 1..Len(last)
  BY <1>1, <1>2
<1>4. ASSUME NEW k \in 1..(Len(last) - Len(top) + 1)
      PROVE  /\ SubSeq(last, 1, Len(top) + k - 1) \in P!Route(top, last)
             /\ SubSeq(last, 1, Len(top) + k - 1) \in P!Panels
  <2> DEFINE m == Len(top) + k - 1
             p == SubSeq(last, 1, m)
  <2>1. m \in 1..Len(last) /\ Len(top) <= m
    BY <1>1, <1>3
  <2> HIDE DEF m
  <2>2. /\ p \in P!Panels /\ Len(p) = m
        /\ \A i \in 1..m : p[i] = last[i]
    BY <2>1, TreeTerms, P!Ancestor
  <2>3. IsPanel(p)
    BY <2>2, PanelsAre DEF P!Panels
  <2> HIDE DEF p
  <2>4. P!AtOrAbove(top, p)
    <3>1. CASE Len(top) = m
      <4>1. top = p
        BY <1>1, <1>2, <2>1, <2>2, <2>3, <3>1 DEF IsPanel
      <4> QED
        BY <4>1 DEF P!AtOrAbove
    <3>2. CASE Len(top) < m
      BY <1>1, <1>2, <2>1, <2>2, <3>2 DEF P!AtOrAbove, P!Above
    <3> QED
      BY <1>1, <2>1, <3>1, <3>2
  <2>5. P!AtOrAbove(p, last)
    <3>1. CASE m = Len(last)
      <4>1. last = p
        BY <1>1, <2>2, <2>3, <3>1 DEF IsPanel
      <4> QED
        BY <4>1 DEF P!AtOrAbove
    <3>2. CASE m < Len(last)
      BY <1>1, <2>1, <2>2, <3>2 DEF P!AtOrAbove, P!Above
    <3> QED
      BY <1>1, <2>1, <3>1, <3>2
  <2> QED
    BY <2>2, <2>4, <2>5 DEF P!Route, p, m
<1>5. ASSUME NEW p \in P!Route(top, last)
      PROVE  \E k \in 1..(Len(last) - Len(top) + 1) : p = SubSeq(last, 1, Len(top) + k - 1)
  <2>1. p \in P!Panels /\ P!AtOrAbove(top, p) /\ P!AtOrAbove(p, last)
    BY DEF P!Route
  <2>2. IsPanel(p) /\ Len(p) \in 1..depth
    BY <2>1, PanelsAre DEF P!Panels
  <2>3. /\ Len(top) <= Len(p) /\ Len(p) <= Len(last)
        /\ \A i \in 1..Len(p) : last[i] = p[i]
    BY <1>1, <2>1, <2>2 DEF P!AtOrAbove, P!Above
  <2> DEFINE k == Len(p) - Len(top) + 1
  <2>4. k \in 1..(Len(last) - Len(top) + 1) /\ Len(top) + k - 1 = Len(p) /\ Len(p) \in 1..Len(last)
    BY <1>1, <2>2, <2>3
  <2>5. /\ SubSeq(last, 1, Len(p)) \in P!Panels /\ Len(SubSeq(last, 1, Len(p))) = Len(p)
        /\ \A i \in 1..Len(p) : SubSeq(last, 1, Len(p))[i] = last[i]
    BY <2>4, TreeTerms, P!Ancestor
  <2>6. IsPanel(SubSeq(last, 1, Len(p)))
    BY <2>5, PanelsAre DEF P!Panels
  <2>7. p = SubSeq(last, 1, Len(p))
    BY <2>2, <2>3, <2>5, <2>6 DEF IsPanel
  <2> QED
    BY <2>4, <2>7
<1> QED
  BY <1>1, <1>3, <1>4, <1>5

(* RemoveNode makes one for each panel on the way of the promotions, and for *)
(* the slot that is left empty.                                              *)
LEMMA RemoveTold ==
  ASSUME P!TreeInv, NEW id \in 1..MaxConns, RemoveNode(id), depth <= 3
  PROVE  /\ depth \in Nat /\ depth' = depth
         /\ \E calls : Announce(calls) /\ Told(calls)
<1> DEFINE n == nodeMap[id]
           top == node[n].panel
           s == node[n].partner
<1>1. PICK last \in Tree!Below(top) :
        \E from \in [Tree!Route(top, last) -> Slots] :
          /\ Tree!PromotionRoute(n, last, from)
          /\ Tree!Unplace(id, last, from)
          /\ Announce(RemovalCalls(n, last, from))
  BY DEF RemoveNode
<1>2. PICK from \in [Tree!Route(top, last) -> Slots] :
        /\ Tree!PromotionRoute(n, last, from)
        /\ Tree!Unplace(id, last, from)
        /\ Announce(RemovalCalls(n, last, from))
  BY <1>1
<1> DEFINE route == P!Route(top, last)
           K == Len(last) - Len(top) + 1
           calls == RemovalCalls(n, last, from)
           at(k) == SubSeq(last, 1, Len(top) + k - 1)
<1>3. P!PromotionRoute(n, last, from) /\ P!Unplace(id, last, from) /\ last \in P!Panels
  BY <1>2, SamePR, SameUnplace, SameRoute DEF P!Below
<1>4. n \in DOMAIN node
  BY SamePanels DEF RemoveNode, P!TreeInv, P!MapLeadsIntoTree
<1>5. /\ top \in P!Panels /\ s \in Slots
      /\ top \in route /\ last \in route
      /\ from \in [route -> Slots]
      /\ \A p \in route \ {last} :
           /\ from[p] = s
           /\ P!Promoted(p, last, from) \in DOMAIN node \ {n}
  BY <1>3, <1>4, TreeTerms, SamePanels, P!RouteFacts
<1>6. depth \in Nat /\ IsTree(nodes, depth)
  BY TreeIs
<1>7. /\ depth' = depth
      /\ nodes' = [p \in P!Panels |->
                    IF p \notin route THEN nodes[p]
                    ELSE IF p = last THEN [nodes[p] EXCEPT ![from[p]] = Nobody]
                    ELSE [nodes[p] EXCEPT ![from[p]] = Nobody,
                                          ![s] = P!Promoted(p, last, from)]]
      /\ DOMAIN node' = DOMAIN node \ {n}
      /\ \A c \in DOMAIN node \ {n} :
           \/ node'[c] = node[c]
           \/ \E p \in route \ {last} : c = P!Promoted(p, last, from)
  <2>1. P!Nil = Nobody
    BY SamePanels
  <2> QED
    BY <1>3, <2>1 DEF P!Unplace
<1>8. /\ Len(top) \in 1..Len(last) /\ Len(last) \in 1..depth
      /\ \A k \in 1..K : at(k) \in route /\ at(k) \in P!Panels
      /\ \A p \in route : \E k \in 1..K : p = at(k)
  <2>1. P!AtOrAbove(top, last)
    BY <1>3 DEF P!PromotionRoute
  <2> QED
    BY <1>3, <1>5, <1>6, <2>1, RouteCalls
<1> DEFINE call(p) == IF p = last THEN [who |-> Nobody, panel |-> p, partner |-> from[p]]
                      ELSE [who |-> P!Promoted(p, last, from), panel |-> p, partner |-> s]
<1>9. calls = [k \in 1..K |-> call(at(k))]
  BY SamePromoted DEF RemovalCalls
<1>10. K \in 1..3
  <2>1. Len(top) \in 1..Len(last) /\ Len(last) \in 1..depth /\ depth \in Nat /\ depth <= 3
    BY <1>6, <1>8
  <2> HIDE DEF n, top, s, route, calls, at, call
  <2> DEFINE short == Len(top)
             long == Len(last)
  <2>2. short \in Nat /\ long \in Nat /\ 1 <= short /\ short <= long /\ long <= 3
    BY <2>1
  <2> HIDE DEF short, long
  <2>3. long - short + 1 \in 1..3
    BY <2>2
  <2> QED
    BY <2>3 DEF short, long
<1> HIDE DEF n, top, s, route, calls, at
<1>11. Len(calls) = K /\ \A k \in 1..K : calls[k] = call(at(k))
  <2> HIDE DEF K, call
  <2> QED
    BY <1>9, <1>10
<1>12. /\ call(last).who = Nobody /\ call(last).partner = from[last] /\ call(last).panel = last
       /\ \A p \in route \ {last} :
            call(p).who = P!Promoted(p, last, from) /\ call(p).partner = s /\ call(p).panel = p
  OBVIOUS
<1> HIDE DEF K, call
<1>13. \A p \in route :
         /\ call(p).panel = p /\ call(p).partner = from[p] /\ from[p] \in Slots
         /\ call(p).who = nodes'[p][from[p]]
         /\ \A j \in Slots : j # from[p] => nodes'[p][j] = nodes[p][j]
  <2> SUFFICES ASSUME NEW p \in route
               PROVE  /\ call(p).panel = p /\ call(p).partner = from[p] /\ from[p] \in Slots
                      /\ call(p).who = nodes'[p][from[p]]
                      /\ \A j \in Slots : j # from[p] => nodes'[p][j] = nodes[p][j]
    OBVIOUS
  <2>1. p \in P!Panels /\ from[p] \in Slots
    BY <1>5 DEF route, P!Route
  <2>2. nodes[p] \in [Slots -> Nat]
    BY <1>6, <2>1 DEF IsTree, P!Panels
  <2>3. CASE p = last
    <3>1. nodes'[p] = [nodes[p] EXCEPT ![from[p]] = Nobody]
      BY <1>7, <2>1, <2>3
    <3> QED
      BY <1>12, <2>1, <2>2, <2>3, <3>1
  <2>4. CASE p # last
    <3>1. nodes'[p] = [nodes[p] EXCEPT ![from[p]] = Nobody, ![s] = P!Promoted(p, last, from)]
      BY <1>7, <2>1, <2>4
    <3>2. from[p] = s
      BY <1>5, <2>4
    <3> QED
      BY <1>12, <2>1, <2>2, <2>4, <3>1, <3>2
  <2> QED
    BY <2>3, <2>4
<1>14. Len(calls) \in 1..3
  BY <1>10, <1>11
<1>15. \A k \in 1..Len(calls) :
         /\ calls[k].panel \in P!PanelsTo(depth') /\ calls[k].partner \in Slots
         /\ calls[k].who = nodes'[calls[k].panel][calls[k].partner]
  <2> SUFFICES ASSUME NEW k \in 1..K
               PROVE  /\ calls[k].panel \in P!PanelsTo(depth') /\ calls[k].partner \in Slots
                      /\ calls[k].who = nodes'[calls[k].panel][calls[k].partner]
    BY <1>11
  <2>1. at(k) \in route /\ at(k) \in P!PanelsTo(depth') /\ calls[k] = call(at(k))
    BY <1>7, <1>8, <1>11 DEF P!Panels
  <2> QED
    BY <1>13, <2>1
<1>16. \A q \in P!PanelsTo(depth'), j \in Slots :
         <<q, j>> \in Open(calls, 0) \/ nodes'[q][j] = Shown(nodes, q, j)
  <2> SUFFICES ASSUME NEW q \in P!PanelsTo(depth'), NEW j \in Slots
               PROVE  <<q, j>> \in Open(calls, 0) \/ nodes'[q][j] = Shown(nodes, q, j)
    OBVIOUS
  <2>1. q \in P!Panels /\ Shown(nodes, q, j) = nodes[q][j]
    BY <1>6, <1>7 DEF P!Panels, IsTree, Shown
  <2>2. CASE q \notin route
    BY <1>7, <2>1, <2>2
  <2>3. CASE q \in route /\ j # from[q]
    BY <1>13, <2>1, <2>3
  <2>4. CASE q \in route /\ j = from[q]
    <3>1. PICK k \in 1..K : q = at(k)
      BY <1>8, <2>4
    <3>2. <<calls[k].panel, calls[k].partner>> = <<q, j>>
      BY <1>11, <1>13, <2>4, <3>1
    <3>3. k \in (0 + 1)..Len(calls)
      BY <1>11
    <3> QED
      BY <3>2, <3>3 DEF Open
  <2> QED
    BY <2>2, <2>3, <2>4
<1>17. \A c \in DOMAIN node' :
         (\E k \in 1..Len(calls) : calls[k].who = c) \/ (c \in Members /\ node'[c] = node[c])
  <2> SUFFICES ASSUME NEW c \in DOMAIN node'
               PROVE  \/ \E k \in 1..Len(calls) : calls[k].who = c
                      \/ (c \in Members /\ node'[c] = node[c])
    OBVIOUS
  <2>1. CASE node'[c] = node[c]
    BY <1>7, <2>1 DEF Members
  <2>2. CASE \E p \in route \ {last} : c = P!Promoted(p, last, from)
    <3>1. PICK p \in route \ {last} : c = P!Promoted(p, last, from)
      BY <2>2
    <3>2. PICK k \in 1..K : p = at(k)
      BY <1>8, <3>1
    <3>3. calls[k].who = c
      BY <1>11, <1>12, <3>1, <3>2
    <3> QED
      BY <1>11, <3>3
  <2> QED
    BY <1>7, <2>1, <2>2
<1>18. Told(calls)
  BY <1>14, <1>15, <1>16, <1>17 DEF Told, CallsFit
<1>19. Announce(calls)
  BY <1>2 DEF calls, n
<1> QED
  BY <1>6, <1>7, <1>18, <1>19

----------------------------------------------------------------------------
(* The nodes that are active in nodeStates are those the view links with. *)
StatesAreLinks == \A c \in Members : states[c] = Links(view[c])

(* The inductive invariant.  The links of a view are set again with every *)
(* message, so both parts are needed to know them between two changes.    *)
ViewsInv == P!TreeInv /\ (depth <= 3 => ViewsMatchTree /\ StatesAreLinks)

(* The messages of a change leave every manager with the tree as it is now. *)
LEMMA ViewsFollow ==
  ASSUME ViewsInv, P!TreeInv', depth <= depth', depth' <= 3,
         NEW calls, Told(calls), Announce(calls)
  PROVE  ViewsMatchTree' /\ StatesAreLinks'
<1>1. depth \in Nat /\ depth <= 3 /\ IsTree(nodes, depth) /\ ViewsMatchTree /\ StatesAreLinks
  <2>1. (depth \in Nat)'
    <3>1. (P!TreeInv => depth \in Nat /\ IsTree(nodes, depth))'
      BY TreeIs, PTL
    <3> QED
      BY <3>1
  <2> QED
    BY <2>1, TreeIs DEF ViewsInv
<1>2. depth' \in 0..3 /\ IsTree(nodes', depth')
  <2>1. (P!TreeInv => depth \in Nat /\ IsTree(nodes, depth))'
    BY TreeIs, PTL
  <2> QED
    BY <2>1 DEF IsTree
<1>3. \A c \in DOMAIN node' :
        /\ c # Nobody /\ node'[c].panel \in P!PanelsTo(depth') /\ node'[c].partner \in Slots
        /\ nodes'[node'[c].panel][node'[c].partner] = c
  <2>1. (P!TreeInv => \A c \in Members :
           /\ c # Nobody /\ node[c].panel \in P!PanelsTo(depth) /\ node[c].partner \in Slots
           /\ nodes[node[c].panel][node[c].partner] = c)'
    BY MemberPlaces, PTL
  <2> QED
    BY <2>1 DEF Members
<1>4. ASSUME NEW c \in DOMAIN node'
      PROVE  LET at == Position(nodes', node'[c].panel, node'[c].partner) IN
             /\ After(c, calls, nodes', node').view = at
             /\ After(c, calls, nodes', node').states = Links(at)
  <2> DEFINE q == node'[c].panel
             t == node'[c].partner
  <2>1. /\ c # Nobody /\ q \in P!PanelsTo(depth') /\ t \in Slots /\ nodes'[q][t] = c
    BY <1>3
  <2>2. Beforehand(c, calls, nodes', q, t)
    <3> SUFFICES ASSUME c \in Members, node'[c] = node[c]
                 PROVE  /\ states[c] = Links(view[c])
                        /\ FollowsBut(view[c], nodes', q, t, Open(calls, 0))
      BY DEF Told, Beforehand
    <3>1. q = node[c].panel /\ t = node[c].partner /\ q \in P!PanelsTo(depth)
      BY <1>1, MemberPlaces DEF ViewsInv
    <3> HIDE DEF q, t
    <3>2. view[c] = Position(nodes, q, t) /\ states[c] = Links(view[c])
      BY <1>1, <3>1 DEF ViewsMatchTree, StatesAreLinks
    <3>3. FollowsBut(view[c], nodes, q, t, {})
      BY <1>1, <2>1, <3>1, <3>2, PositionFollows
    <3>4. /\ \A i \in 0..2 : ParentPanel(q, i) \in P!PanelsTo(depth)
          /\ \A i \in 0..2 : ParentPanel(q, i) \in P!PanelsTo(depth')
      BY <1>1, <1>2, <2>1, <3>1, ParentInTree
    <3>5. DOMAIN nodes = P!PanelsTo(depth) /\ DOMAIN nodes' = P!PanelsTo(depth')
      BY <1>1, <1>2 DEF IsTree
    <3>6. P!PanelsTo(depth) \subseteq P!PanelsTo(depth')
      <4> SUFFICES ASSUME NEW r \in P!PanelsTo(depth) PROVE r \in P!PanelsTo(depth')
        OBVIOUS
      <4>1. IsPanel(r) /\ Len(r) \in 1..depth
        BY <1>1, PanelsAre
      <4>2. depth' \in Nat /\ Len(r) <= depth'
        BY <1>1, <1>2, <4>1
      <4> QED
        BY <4>1, <4>2, PanelsBack
    <3>7. \A r \in P!PanelsTo(depth'), j \in Slots :
            <<r, j>> \in Open(calls, 0) \/ nodes'[r][j] = Shown(nodes, r, j)
      BY DEF Told
    <3>8. \A i \in 0..2, j \in Slots :
            \/ <<ParentPanel(q, i), j>> \in Open(calls, 0)
            \/ view[c].parent[i][j] = nodes'[ParentPanel(q, i)][j]
      BY <3>3, <3>4, <3>5, <3>7 DEF FollowsBut, Shown
    <3>9. \A i \in 0..1, j \in Slots :
            \/ <<Append(q, i), j>> \in Open(calls, 0)
            \/ view[c].child[i][j] = Shown(nodes', Append(q, i), j)
      <4> SUFFICES ASSUME NEW i \in 0..1, NEW j \in Slots
                   PROVE  \/ <<Append(q, i), j>> \in Open(calls, 0)
                          \/ view[c].child[i][j] = Shown(nodes', Append(q, i), j)
        OBVIOUS
      <4>1. view[c].child[i][j] = Shown(nodes, Append(q, i), j)
        BY <3>3 DEF FollowsBut
      <4>2. CASE Append(q, i) \in P!PanelsTo(depth')
        BY <3>5, <3>7, <4>1, <4>2 DEF Shown
      <4>3. CASE Append(q, i) \notin P!PanelsTo(depth')
        BY <3>5, <3>6, <4>1, <4>3 DEF Shown
      <4> QED
        BY <4>2, <4>3
    <3>10. /\ IsView(view[c]) /\ view[c].path = Path(q)
           /\ view[c].partner = t /\ view[c].center = (Len(q) = 1)
      BY <3>3 DEF FollowsBut
    <3> QED
      BY <3>2, <3>8, <3>9, <3>10 DEF FollowsBut
  <2>3. CallsFit(calls, nodes', depth')
    BY DEF Told
  <2> DEFINE d == depth'
             tree == nodes'
             place == node'
  <2>4. d \in 0..3 /\ IsTree(tree, d) /\ place[c].panel = q
    BY <1>2
  <2> HIDE DEF q, t, d, tree, place
  <2>5. /\ q \in P!PanelsTo(d) /\ tree[q][t] = c
        /\ CallsFit(calls, tree, d) /\ Beforehand(c, calls, tree, q, t)
    BY <2>1, <2>2, <2>3 DEF d, tree
  <2>6. /\ After(c, calls, tree, place).view = Position(tree, q, t)
        /\ After(c, calls, tree, place).states = Links(Position(tree, q, t))
    BY <2>1, <2>4, <2>5, AfterFollows
  <2> QED
    BY <2>6 DEF tree, place, q, t
<1>5. \A c \in DOMAIN node' :
        /\ view'[c] = After(c, calls, nodes', node').view
        /\ states'[c] = After(c, calls, nodes', node').states
  BY DEF Announce
<1> QED
  BY <1>4, <1>5 DEF ViewsMatchTree, StatesAreLinks, Members

(* It holds before the first connection. *)
LEMMA ViewsInit == Init => ViewsInv
<1> SUFFICES ASSUME Init PROVE ViewsInv
  OBVIOUS
<1>1. P!TreeInv
  BY SameInit, TreeTerms, P!InitInv DEF Init
<1>2. Members = {}
  BY DEF Init, Tree!Init, Members
<1> QED
  BY <1>1, <1>2 DEF ViewsInv, ViewsMatchTree, StatesAreLinks

(* Every change keeps it. *)
LEMMA ViewsStep == ViewsInv /\ [Next]_vars => ViewsInv'
<1> SUFFICES ASSUME ViewsInv, [Next]_vars PROVE ViewsInv'
  OBVIOUS
<1>1. P!TreeInv /\ P!TreeInv'
  BY TreeStep DEF ViewsInv
<1>2. CASE AddNode(made + 1)
  <2>1. depth <= depth' /\ \E calls : Announce(calls) /\ Told(calls)
    BY <1>1, <1>2, AddTold
  <2> QED
    BY <1>1, <2>1, ViewsFollow DEF ViewsInv
<1>3. ASSUME NEW id \in 1..MaxConns, RemoveNode(id) PROVE ViewsInv'
  <2>1. depth' = depth
    BY <1>3, SameRemove DEF P!RemoveNode, P!Unplace
  <2>2. CASE depth <= 3
    <3>1. depth \in Nat /\ \E calls : Announce(calls) /\ Told(calls)
      BY <1>1, <1>3, <2>2, RemoveTold
    <3>2. depth <= depth'
      BY <2>1, <3>1
    <3> QED
      BY <1>1, <3>1, <3>2, ViewsFollow DEF ViewsInv
  <2>3. CASE ~(depth <= 3)
    BY <1>1, <2>1, <2>3 DEF ViewsInv
  <2> QED
    BY <2>2, <2>3
<1>4. CASE UNCHANGED vars
  BY <1>1, <1>4 DEF vars, ViewsInv, ViewsMatchTree, StatesAreLinks, Members
<1> QED
  BY <1>2, <1>3, <1>4 DEF Next

(* The invariant holds in every state. *)
THEOREM ViewsInvariant == Spec => []ViewsInv
<1>1. Init => ViewsInv
  BY ViewsInit
<1>2. ViewsInv /\ [Next]_vars => ViewsInv'
  BY ViewsStep
<1> QED
  BY <1>1, <1>2, PTL DEF Spec

(* ViewsMatchTree: no change of the tree leaves a manager with a node in its *)
(* neighbourhood that has left or moved, or without one that is there        *)
(* (updateNodePosition in pool.go and node_manager.go).                      *)
THEOREM ViewsAlwaysMatch == Spec => [](depth <= 3 => ViewsMatchTree)
<1>1. ViewsInv => (depth <= 3 => ViewsMatchTree)
  BY DEF ViewsInv
<1> QED
  BY <1>1, ViewsInvariant, PTL

----------------------------------------------------------------------------
(* The links of a node, slot by slot.  A is the panels of its cluster: slot j *)
(* of panel i has a node.                                                     *)
Has(A, i, j) == A[i][j] # Nobody

(* Slot y is the first with a node, of t, t + step and the one that is left. *)
First(A, i, t, y, step) ==
  /\ Has(A, i, y)
  /\ \/ y = t
     \/ /\ ~Has(A, i, t)
        /\ y = (t + step) % 3 \/ ~Has(A, i, (t + step) % 3)

(* The way round in which a node of panel M looks for one of panel i. *)
Turn(M, i) == IF M > getThirdPanelNumber(i, M) THEN 1 ELSE 2

(* The node in slot t has its panel to itself. *)
Alone(A, M, t) == \A j \in Slots \ {t} : ~Has(A, M, j)

(* Of two nodes in a panel, the one in slot t also takes a link of the third. *)
StandsIn(A, M, t, Q, y) ==
  /\ ~Alone(A, M, t) /\ \E j \in Slots \ {t} : ~Has(A, M, j)
  /\ IF ~Has(A, M, (t + 1) % 3) THEN Q = (IF M = 0 THEN 1 ELSE 0) /\ y = (t + 1) % 3
     ELSE Q = (IF M = 2 THEN 1 ELSE 2) /\ y = (t + 2) % 3

(* A node in slot t of panel M is linked with the one in slot y of panel Q. *)
Linked(A, M, t, Q, y) ==
  /\ Has(A, Q, y)
  /\ \/ M = Q /\ y # t
     \/ M # Q /\ First(A, Q, t, y, Turn(M, Q))
     \/ M # Q /\ Alone(A, M, t) /\ y # t
     \/ M # Q /\ StandsIn(A, M, t, Q, y)

(* That way round, panel by panel. *)
LEMMA Turns ==
  \A M, Q \in 0..2 : M # Q => Turn(M, Q) = IF M = 0 \/ (M = 1 /\ Q = 0) THEN 2 ELSE 1
BY DEF Turn, getThirdPanelNumber

(* A link within a cluster is one for both of its ends. *)
LEMMA BothWays ==
  ASSUME NEW A, NEW M \in 0..2, NEW Q \in 0..2, NEW t \in Slots, NEW y \in Slots,
         Has(A, M, t), Linked(A, M, t, Q, y)
  PROVE  Linked(A, Q, y, M, t)
<1>1. CASE M = Q
  BY <1>1 DEF Linked
<1>2. CASE M # Q
  <2> DEFINE H(i, j) == Has(A, i, j)
  <2>1. /\ Turn(M, Q) = IF M = 0 \/ (M = 1 /\ Q = 0) THEN 2 ELSE 1
        /\ Turn(Q, M) = IF Q = 0 \/ (Q = 1 /\ M = 0) THEN 2 ELSE 1
    BY <1>2, Turns
  <2>2. t \in {0, 1, 2} /\ y \in {0, 1, 2} /\ M \in {0, 1, 2} /\ Q \in {0, 1, 2}
    BY DEF Slots
  <2>3. CASE M = 0 /\ Q = 1
    BY <1>2, <2>1, <2>2, <2>3 DEF Linked, First, Alone, StandsIn, Slots
  <2>4. CASE M = 0 /\ Q = 2
    BY <1>2, <2>1, <2>2, <2>4 DEF Linked, First, Alone, StandsIn, Slots
  <2>5. CASE M = 1 /\ Q = 0
    BY <1>2, <2>1, <2>2, <2>5 DEF Linked, First, Alone, StandsIn, Slots
  <2>6. CASE M = 1 /\ Q = 2
    BY <1>2, <2>1, <2>2, <2>6 DEF Linked, First, Alone, StandsIn, Slots
  <2>7. CASE M = 2 /\ Q = 0
    BY <1>2, <2>1, <2>2, <2>7 DEF Linked, First, Alone, StandsIn, Slots
  <2>8. CASE M = 2 /\ Q = 1
    BY <1>2, <2>1, <2>2, <2>8 DEF Linked, First, Alone, StandsIn, Slots
  <2> QED
    BY <1>2, <2>2, <2>3, <2>4, <2>5, <2>6, <2>7, <2>8
<1> QED
  BY <1>1, <1>2

(* Connectors are a full panel of the cluster below, which is number 2 there. *)
LEMMA WithConnector ==
  ASSUME NEW A, NEW M \in 0..1, NEW t \in Slots, NEW y \in Slots,
         Has(A, M, t), \A j \in Slots : Has(A, 2, j)
  PROVE  Linked(A, M, t, 2, y) <=> First(A, M, y, t, 1)
<1>1. t \in {0, 1, 2} /\ y \in {0, 1, 2} /\ M \in {0, 1}
  BY DEF Slots
<1>2. Turn(M, 2) = IF M = 0 THEN 2 ELSE 1
  BY <1>1, Turns
<1>3. CASE M = 0
  BY <1>1, <1>2, <1>3 DEF Linked, First, Alone, StandsIn, Slots
<1>4. CASE M = 1
  BY <1>1, <1>2, <1>4 DEF Linked, First, Alone, StandsIn, Slots
<1> QED
  BY <1>1, <1>3, <1>4

(* The loops of updateNodeStates find slot First, from slot t on. *)
FirstMeans(A, i, t, step, steps) ==
  \A id : id \in FirstFrom(A[i], t, steps)
             <=> \E y \in Slots : id = A[i][y] /\ First(A, i, t, y, step)

(* They do, whichever way round they go. *)
LEMMA FirstFromIs ==
  ASSUME NEW A, NEW i, NEW t, NEW step, NEW steps, t \in Slots,
         (step = 1 /\ steps = <<1, 2>>) \/ (step = 2 /\ steps = <<2, 1>>)
  PROVE  FirstMeans(A, i, t, step, steps)
<1> SUFFICES \A id : id \in FirstFrom(A[i], t, steps)
                       <=> \E y \in Slots : id = A[i][y] /\ First(A, i, t, y, step)
  BY DEF FirstMeans
<1> DEFINE panel == A[i]
           tries == <<t>> \o [k \in 1..2 |-> (t + steps[k]) % 3]
           hits  == {k \in 1..3 : panel[tries[k]] # Nobody}
           t1 == (t + step) % 3
           t2 == (t + (3 - step)) % 3
<1>1. tries[1] = t /\ tries[2] = t1 /\ tries[3] = t2
  <2>1. steps[1] = step /\ steps[2] = 3 - step
    BY SMT
  <2> DEFINE g == [k \in 1..2 |-> (t + steps[k]) % 3]
  <2>2. g \in Seq(Nat) /\ Len(g) = 2 /\ g[1] = t1 /\ g[2] = t2
    BY <2>1 DEF Slots
  <2>3. <<t>> \in Seq(Nat) /\ Len(<<t>>) = 1 /\ <<t>>[1] = t
    BY DEF Slots
  <2> DEFINE h == <<t>>
  <2>4. tries = h \o g
    OBVIOUS
  <2> HIDE DEF g, h, tries
  <2>5. h \in Seq(Nat) /\ g \in Seq(Nat) /\ Len(h) = 1 /\ Len(g) = 2
    BY <2>2, <2>3 DEF h
  <2>6. tries[1] = h[1] /\ tries[2] = g[1] /\ tries[3] = g[2]
    <3>1. \A k \in 1..(Len(h) + Len(g)) : (h \o g)[k] = IF k <= Len(h) THEN h[k] ELSE g[k - Len(h)]
      BY <2>5, ConcatProperties
    <3>2. \A k \in 1..3 : tries[k] = IF k <= 1 THEN h[k] ELSE g[k - 1]
      <4> DEFINE hg == h \o g
      <4>1. /\ tries = hg
            /\ \A k \in 1..(Len(h) + Len(g)) : hg[k] = IF k <= Len(h) THEN h[k] ELSE g[k - Len(h)]
        BY <2>4, <3>1
      <4> HIDE DEF hg
      <4>2. \A k \in 1..(1 + 2) : hg[k] = IF k <= 1 THEN h[k] ELSE g[k - 1]
        BY <2>5, <4>1
      <4> QED
        BY <4>1, <4>2
    <3>3. tries[1] = h[1]
      BY <3>2
    <3>4. tries[2] = g[1]
      BY <3>2
    <3>5. tries[3] = g[2]
      BY <3>2
    <3> QED
      BY <3>3, <3>4, <3>5
  <2> QED
    BY <2>2, <2>3, <2>6 DEF h
<1>2. /\ t1 \in Slots /\ t2 \in Slots /\ t # t1 /\ t # t2 /\ t1 # t2
      /\ \A y \in Slots : y = t \/ y = t1 \/ y = t2
  <2>1. CASE step = 1
    BY <2>1 DEF Slots
  <2>2. CASE step = 2
    BY <2>2 DEF Slots
  <2> QED
    BY <2>1, <2>2
<1>3. FirstFrom(A[i], t, steps) =
        IF hits = {} THEN {} ELSE {panel[tries[CHOOSE k \in hits : \A m \in hits : k <= m]]}
  BY DEF FirstFrom
<1> HIDE DEF tries, t1, t2
<1>4. CASE panel[t] # Nobody
  <2>1. 1 \in hits /\ \A k \in hits : k \in 1..3
    BY <1>1, <1>4
  <2>2. (CHOOSE k \in hits : \A m \in hits : k <= m) = 1
    <3> HIDE DEF hits
    <3>1. \A k \in hits : (\A m \in hits : k <= m) <=> k = 1
      BY <2>1
    <3> QED
      BY <2>1, <3>1
  <2>3. FirstFrom(A[i], t, steps) = {A[i][t]}
    BY <1>1, <1>3, <2>1, <2>2
  <2>4. \A y \in Slots : First(A, i, t, y, step) <=> y = t
    BY <1>2, <1>4 DEF First, Has
  <2> QED
    BY <2>3, <2>4
<1>5. CASE panel[t] = Nobody /\ panel[t1] # Nobody
  <2>1. 2 \in hits /\ \A k \in hits : k \in 2..3
    <3>1. 2 \in hits
      BY <1>1, <1>5
    <3>2. \A k \in hits : k \in 1..3 /\ k # 1
      BY <1>1, <1>5
    <3> QED
      BY <3>1, <3>2
  <2>2. (CHOOSE k \in hits : \A m \in hits : k <= m) = 2
    <3> HIDE DEF hits
    <3>1. \A k \in hits : (\A m \in hits : k <= m) <=> k = 2
      BY <2>1
    <3> QED
      BY <2>1, <3>1
  <2>3. FirstFrom(A[i], t, steps) = {A[i][t1]}
    BY <1>1, <1>3, <2>1, <2>2
  <2>4. \A y \in Slots : First(A, i, t, y, step) <=> y = t1
    BY <1>2, <1>5 DEF First, Has, t1
  <2> QED
    BY <1>2, <2>3, <2>4
<1>6. CASE panel[t] = Nobody /\ panel[t1] = Nobody /\ panel[t2] # Nobody
  <2>1. 3 \in hits /\ \A k \in hits : k = 3
    <3>1. 3 \in hits
      BY <1>1, <1>6
    <3>2. \A k \in hits : k \in 1..3 /\ k # 1 /\ k # 2
      BY <1>1, <1>6
    <3> QED
      BY <3>1, <3>2
  <2>2. (CHOOSE k \in hits : \A m \in hits : k <= m) = 3
    <3> HIDE DEF hits
    <3> QED
      BY <2>1
  <2>3. FirstFrom(A[i], t, steps) = {A[i][t2]}
    BY <1>1, <1>3, <2>1, <2>2
  <2>4. \A y \in Slots : First(A, i, t, y, step) <=> y = t2
    BY <1>2, <1>6 DEF First, Has, t1
  <2> QED
    BY <1>2, <2>3, <2>4
<1>7. CASE panel[t] = Nobody /\ panel[t1] = Nobody /\ panel[t2] = Nobody
  <2>1. hits = {}
    <3>1. \A k \in 1..3 : panel[tries[k]] = Nobody
      <4>1. \A k \in 1..3 : k = 1 \/ k = 2 \/ k = 3
        OBVIOUS
      <4> QED
        BY <1>1, <1>7, <4>1
    <3> QED
      BY <3>1
  <2>2. FirstFrom(A[i], t, steps) = {}
    BY <1>3, <2>1
  <2>3. \A y \in Slots : ~First(A, i, t, y, step)
    BY <1>2, <1>7 DEF First, Has
  <2> QED
    BY <2>2, <2>3
<1> QED
  BY <1>4, <1>5, <1>6, <1>7

(* The same, for the two ways as they are written in NodePosition. *)
LEMMA Firsts ==
  \A A, i, t, id : t \in Slots =>
    /\ id \in FirstFrom(A[i], t, <<1, 2>>)
         <=> \E y \in Slots : id = A[i][y] /\ First(A, i, t, y, 1)
    /\ id \in FirstFrom(A[i], t, <<2, 1>>)
         <=> \E y \in Slots : id = A[i][y] /\ First(A, i, t, y, 2)
<1> SUFFICES ASSUME NEW A, NEW i, NEW t, NEW id, t \in Slots
             PROVE  /\ id \in FirstFrom(A[i], t, <<1, 2>>)
                         <=> \E y \in Slots : id = A[i][y] /\ First(A, i, t, y, 1)
                    /\ id \in FirstFrom(A[i], t, <<2, 1>>)
                         <=> \E y \in Slots : id = A[i][y] /\ First(A, i, t, y, 2)
  OBVIOUS
<1> DEFINE up == <<1, 2>>
           down == <<2, 1>>
<1>1. up = <<1, 2>> /\ down = <<2, 1>>
  OBVIOUS
<1> HIDE DEF up, down
<1>2. FirstMeans(A, i, t, 1, up)
  BY <1>1, FirstFromIs
<1>3. FirstMeans(A, i, t, 2, down)
  BY <1>1, FirstFromIs
<1> QED
  BY <1>2, <1>3 DEF up, down, FirstMeans

(* The links of a view, slot by slot. *)
LEMMA LinksAre ==
  ASSUME NEW v, NEW M \in 0..2, NEW t \in Slots, PanelNumber(v) = M, v.partner = t
  PROVE  \A id : id \in Links(v) <=>
           \/ \E Q \in 0..2, y \in Slots : id = v.parent[Q][y] /\ Linked(v.parent, M, t, Q, y)
           \/ \E i \in 0..1, y \in Slots : id = v.child[i][y] /\ First(v.child, i, t, y, 1)
<1> DEFINE A == v.parent
           nx == (t + 1) % 3
           pv == (t + 2) % 3
<1>1. \A Q \in (0..2) \ {M} : \A id :
        id \in Opposite(v, Q) <=> \E y \in Slots : id = A[Q][y] /\ First(A, Q, t, y, Turn(M, Q))
  <2> SUFFICES ASSUME NEW Q \in (0..2) \ {M}
               PROVE  \A id : id \in Opposite(v, Q) <=>
                        \E y \in Slots : id = A[Q][y] /\ First(A, Q, t, y, Turn(M, Q))
    OBVIOUS
  <2> DEFINE steps == IF M > getThirdPanelNumber(Q, M) THEN <<1, 2>> ELSE <<2, 1>>
  <2>1. Opposite(v, Q) = FirstFrom(A[Q], t, steps)
    BY DEF Opposite
  <2>2. \/ Turn(M, Q) = 1 /\ steps = <<1, 2>>
        \/ Turn(M, Q) = 2 /\ steps = <<2, 1>>
    BY DEF Turn
  <2> HIDE DEF steps, A
  <2>3. CASE Turn(M, Q) = 1 /\ steps = <<1, 2>>
    <3>1. Opposite(v, Q) = FirstFrom(A[Q], t, <<1, 2>>)
      BY <2>1, <2>3
    <3>2. \A id : id \in FirstFrom(A[Q], t, <<1, 2>>)
                     <=> \E y \in Slots : id = A[Q][y] /\ First(A, Q, t, y, 1)
      BY Firsts, Zenon
    <3> QED
      BY <2>3, <3>1, <3>2
  <2>4. CASE Turn(M, Q) = 2 /\ steps = <<2, 1>>
    <3>1. Opposite(v, Q) = FirstFrom(A[Q], t, <<2, 1>>)
      BY <2>1, <2>4
    <3>2. \A id : id \in FirstFrom(A[Q], t, <<2, 1>>)
                     <=> \E y \in Slots : id = A[Q][y] /\ First(A, Q, t, y, 2)
      BY Firsts, Zenon
    <3> QED
      BY <2>4, <3>1, <3>2
  <2> QED
    BY <2>2, <2>3, <2>4, Zenon
<1>2. \A id : id \in ChildLinks(v) <=>
        \E i \in 0..1, y \in Slots : id = v.child[i][y] /\ First(v.child, i, t, y, 1)
  <2>1. \A i : \A id : id \in FirstFrom(v.child[i], t, <<1, 2>>) <=>
          \E y \in Slots : id = v.child[i][y] /\ First(v.child, i, t, y, 1)
    BY Firsts, Zenon
  <2>2. \A id : id \in ChildLinks(v) <=>
                \E i \in 0..1 : id \in FirstFrom(v.child[i], t, <<1, 2>>)
    BY DEF ChildLinks
  <2> QED
    BY <2>1, <2>2, Zenon
<1>3. \A id : id \in OthersInPanel(v) <=> \E y \in Slots \ {t} : id = A[M][y] /\ Has(A, M, y)
  BY DEF OthersInPanel, Has
<1>4. (OthersInPanel(v) = {}) <=> Alone(A, M, t)
  BY <1>3 DEF Alone
<1>5. \A id : id \in AloneLinks(v) <=>
        /\ Alone(A, M, t)
        /\ \E Q \in (0..2) \ {M}, y \in Slots \ {t} : id = A[Q][y] /\ Has(A, Q, y)
  BY <1>4 DEF AloneLinks, Has
<1>6. /\ nx \in Slots \ {t} /\ pv \in Slots \ {t} /\ nx # pv
      /\ \A j \in Slots \ {t} : j = nx \/ j = pv
  BY DEF Slots
<1>7. \A id : id \in PairLinks(v) <=>
        \E Q \in 0..2, y \in Slots : id = A[Q][y] /\ Has(A, Q, y) /\ StandsIn(A, M, t, Q, y)
  <2> DEFINE both == A[M][nx] # Nobody /\ A[M][pv] # Nobody
             lower == IF M = 0 THEN 1 ELSE 0
             higher == IF M = 2 THEN 1 ELSE 2
  <2>1. lower \in 0..2 /\ higher \in 0..2
    OBVIOUS
  <2>2. both <=> ~\E j \in Slots \ {t} : ~Has(A, M, j)
    BY <1>6 DEF Has
  <2>3. PairLinks(v) = IF OthersInPanel(v) = {} \/ both THEN {}
                       ELSE {IF A[M][nx] = Nobody THEN A[lower][nx] ELSE A[higher][pv]} \ {Nobody}
    BY DEF PairLinks
  <2>4. \A Q \in 0..2, y \in Slots : StandsIn(A, M, t, Q, y) <=>
          /\ ~Alone(A, M, t) /\ ~both
          /\ IF A[M][nx] = Nobody THEN Q = lower /\ y = nx ELSE Q = higher /\ y = pv
    BY <2>2 DEF StandsIn, Has
  <2> HIDE DEF both, lower, higher, nx, pv
  <2>5. CASE Alone(A, M, t) \/ both
    BY <1>4, <2>3, <2>4, <2>5
  <2>6. CASE ~Alone(A, M, t) /\ ~both /\ A[M][nx] = Nobody
    BY <1>4, <1>6, <2>1, <2>3, <2>4, <2>6 DEF Has
  <2>7. CASE ~Alone(A, M, t) /\ ~both /\ A[M][nx] # Nobody
    BY <1>4, <1>6, <2>1, <2>3, <2>4, <2>7 DEF Has
  <2> QED
    BY <2>5, <2>6, <2>7
<1>8. \A id : id \in Links(v) <=>
        \/ \E Q \in (0..2) \ {M} : id \in Opposite(v, Q)
        \/ id \in OthersInPanel(v) \/ id \in ChildLinks(v)
        \/ id \in AloneLinks(v) \/ id \in PairLinks(v)
  <2> DEFINE across == UNION {Opposite(v, Q) : Q \in (0..2) \ {PanelNumber(v)}}
  <2>1. Links(v) = across \union OthersInPanel(v) \union ChildLinks(v)
                     \union AloneLinks(v) \union PairLinks(v)
    BY DEF Links
  <2>2. \A id : id \in across <=> \E Q \in (0..2) \ {M} : id \in Opposite(v, Q)
    OBVIOUS
  <2> HIDE DEF across
  <2> QED
    BY <2>1, <2>2
<1>9. \A Q \in 0..2, y \in Slots : StandsIn(A, M, t, Q, y) => M # Q
  BY DEF StandsIn
<1>10. \A Q \in 0..2, y \in Slots :
         Linked(A, M, t, Q, y) <=>
           \/ M = Q /\ y # t /\ Has(A, Q, y)
           \/ M # Q /\ First(A, Q, t, y, Turn(M, Q))
           \/ M # Q /\ Alone(A, M, t) /\ y # t /\ Has(A, Q, y)
           \/ StandsIn(A, M, t, Q, y) /\ Has(A, Q, y)
  BY <1>9 DEF Linked, First
<1> HIDE DEF A
<1>11. ASSUME NEW id
       PROVE  id \in Links(v) <=>
                \/ \E Q \in 0..2, y \in Slots : id = A[Q][y] /\ Linked(A, M, t, Q, y)
                \/ id \in ChildLinks(v)
  <2>1. (\E Q \in 0..2, y \in Slots : id = A[Q][y] /\ Linked(A, M, t, Q, y)) <=>
          \/ \E Q \in (0..2) \ {M} : id \in Opposite(v, Q)
          \/ id \in OthersInPanel(v) \/ id \in AloneLinks(v) \/ id \in PairLinks(v)
    <3>1. ASSUME NEW Q \in 0..2, NEW y \in Slots, id = A[Q][y], Linked(A, M, t, Q, y)
          PROVE  \/ \E R \in (0..2) \ {M} : id \in Opposite(v, R)
                 \/ id \in OthersInPanel(v) \/ id \in AloneLinks(v) \/ id \in PairLinks(v)
      <4>1. CASE M = Q /\ y # t /\ Has(A, Q, y)
        BY <1>3, <3>1, <4>1
      <4>2. CASE M # Q /\ First(A, Q, t, y, Turn(M, Q))
        BY <1>1, <3>1, <4>2
      <4>3. CASE M # Q /\ Alone(A, M, t) /\ y # t /\ Has(A, Q, y)
        BY <1>5, <3>1, <4>3
      <4>4. CASE StandsIn(A, M, t, Q, y) /\ Has(A, Q, y)
        BY <1>7, <3>1, <4>4
      <4> QED
        BY <1>10, <3>1, <4>1, <4>2, <4>3, <4>4
    <3>2. ASSUME NEW Q \in (0..2) \ {M}, id \in Opposite(v, Q)
          PROVE  \E y \in Slots : id = A[Q][y] /\ Linked(A, M, t, Q, y)
      BY <1>1, <1>10, <3>2
    <3>3. ASSUME id \in OthersInPanel(v)
          PROVE  \E y \in Slots : id = A[M][y] /\ Linked(A, M, t, M, y)
      BY <1>3, <1>10, <3>3
    <3>4. ASSUME id \in AloneLinks(v)
          PROVE  \E Q \in 0..2, y \in Slots : id = A[Q][y] /\ Linked(A, M, t, Q, y)
      BY <1>5, <1>10, <3>4
    <3>5. ASSUME id \in PairLinks(v)
          PROVE  \E Q \in 0..2, y \in Slots : id = A[Q][y] /\ Linked(A, M, t, Q, y)
      BY <1>7, <1>10, <3>5
    <3> QED
      BY <3>1, <3>2, <3>3, <3>4, <3>5
  <2> QED
    BY <1>8, <2>1
<1> QED
  BY <1>2, <1>11 DEF A

----------------------------------------------------------------------------
(* The panels of the cluster of panel p. *)
Around(p) == [i \in 0..2 |-> nodes[ParentPanel(p, i)]]
(* The panels of the cluster below it, the nodes of p apart. *)
Under(p) == [i \in 0..1 |-> [j \in Slots |-> Shown(nodes, Append(p, i), j)]]

(* The number of panel p in its cluster. *)
LastNumber(p) == p[Len(p)]

(* The nodes a manager keeps active, slot by slot of the tree. *)
LEMMA StatesAre ==
  ASSUME ViewsInv, depth <= 3, NEW a \in Members, NEW p, NEW t,
         p = node[a].panel, t = node[a].partner
  PROVE  \A id : id \in states[a] <=>
           \/ \E Q \in 0..2, y \in Slots :
                id = Around(p)[Q][y] /\ Linked(Around(p), LastNumber(p), t, Q, y)
           \/ \E i \in 0..1, y \in Slots : id = Under(p)[i][y] /\ First(Under(p), i, t, y, 1)
<1>1. /\ depth \in Nat /\ IsTree(nodes, depth)
      /\ p \in P!PanelsTo(depth) /\ t \in Slots
      /\ view[a] = Position(nodes, p, t) /\ states[a] = Links(view[a])
  BY TreeIs, MemberPlaces DEF ViewsInv, ViewsMatchTree, StatesAreLinks
<1>2. IsPanel(p) /\ Len(p) <= 3
  BY <1>1, PanelsAre DEF IsPanel
<1>3. Path(p) = p /\ LastNumber(p) \in 0..2
  BY <1>2, ShortPath, FrontFacts DEF LastNumber
<1> DEFINE v == Position(nodes, p, t)
<1>4. PanelNumber(v) = LastNumber(p) /\ v.partner = t
  BY <1>3 DEF Position, PanelNumber, LastNumber
<1>5. v.parent = Around(p)
  BY DEF Position, Around
<1>6. v.child = Under(p)
  <2>1. v.child = [i \in 0..1 |-> IF Append(p, i) \in DOMAIN nodes THEN nodes[Append(p, i)]
                                  ELSE [j \in Slots |-> Nobody]]
    BY DEF Position
  <2>2. ASSUME NEW i \in 0..1
        PROVE  [j \in Slots |-> Shown(nodes, Append(p, i), j)]
                 = IF Append(p, i) \in DOMAIN nodes THEN nodes[Append(p, i)]
                   ELSE [j \in Slots |-> Nobody]
    <3>1. CASE Append(p, i) \in DOMAIN nodes
      <4>1. nodes[Append(p, i)] = [j \in Slots |-> nodes[Append(p, i)][j]]
        BY <1>1, <3>1 DEF IsTree
      <4> QED
        BY <3>1, <4>1 DEF Shown
    <3>2. CASE Append(p, i) \notin DOMAIN nodes
      BY <3>2 DEF Shown
    <3> QED
      BY <3>1, <3>2
  <2> HIDE DEF v
  <2> QED
    BY <2>1, <2>2 DEF Under
<1> HIDE DEF v
<1>7. \A id : id \in Links(v) <=>
        \/ \E Q \in 0..2, y \in Slots :
             id = v.parent[Q][y] /\ Linked(v.parent, LastNumber(p), t, Q, y)
        \/ \E i \in 0..1, y \in Slots : id = v.child[i][y] /\ First(v.child, i, t, y, 1)
  BY <1>1, <1>3, <1>4, LinksAre
<1>8. states[a] = Links(v)
  BY <1>1 DEF v
<1> QED
  BY <1>5, <1>6, <1>7, <1>8

(* A node that is in a slot has it in its record. *)
LEMMA SlotHolds ==
  ASSUME P!TreeInv, NEW r, NEW y, r \in P!PanelsTo(depth), y \in Slots, nodes[r][y] # Nobody
  PROVE  /\ nodes[r][y] \in Members
         /\ node[nodes[r][y]].panel = r /\ node[nodes[r][y]].partner = y
BY SamePanels DEF P!TreeInv, P!SlotsMatchNodes, P!Panels, Members

(* The connectors of a cluster that has a node are all there. *)
LEMMA ConnectorsFull ==
  ASSUME P!TreeInv, NEW p \in P!PanelsTo(depth), NEW r \in P!PanelsTo(depth),
         Len(r) > 1, p = Front(r),
         NEW y \in Slots, nodes[r][y] # Nobody
  PROVE  \A j \in Slots : nodes[p][j] # Nobody
<1>1. IsPanel(r) /\ IsPanel(p)
  BY TreeIs, PanelsAre
<1>2. P!Above(p, r)
  <2>1. IsPanel(Front(r)) /\ Len(Front(r)) = Len(r) - 1
        /\ \A i \in 1..(Len(r) - 1) : Front(r)[i] = r[i]
    BY <1>1, FrontFacts
  <2>2. Len(p) = Len(r) - 1 /\ \A i \in 1..Len(p) : p[i] = r[i]
    BY <2>1
  <2>3. Len(p) < Len(r)
    BY <1>1, <2>2 DEF IsPanel
  <2> QED
    BY <2>2, <2>3 DEF P!Above
<1> QED
  BY <1>2, SamePanels DEF P!TreeInv, P!FullAbove, P!Full, P!Panels

(* A node that is active for another has it active as well: within a cluster *)
(* by BothWays, between a connector and the cluster below by WithConnector.  *)
LEMMA LinksBack ==
  ASSUME ViewsInv, depth <= 3, NEW a \in Members, NEW b \in states[a]
  PROVE  b \in Members \ {a} /\ a \in states[b]
<1> DEFINE p == node[a].panel
           t == node[a].partner
           P0 == LastNumber(p)
<1>1. /\ P!TreeInv /\ depth \in Nat /\ IsTree(nodes, depth)
      /\ p \in P!PanelsTo(depth) /\ t \in Slots
      /\ nodes[p][t] = a /\ a # Nobody
  BY TreeIs, MemberPlaces DEF ViewsInv
<1>2. /\ IsPanel(p) /\ Len(p) <= depth /\ P0 \in 0..2 /\ (Len(p) > 1 => P0 \in 0..1)
      /\ \A i \in 0..2 : ParentPanel(p, i) \in P!PanelsTo(depth)
  BY <1>1, ParentInTree, FrontFacts DEF LastNumber
<1>3. ParentPanel(p, P0) = p
  <2>1. ~(P0 = 2 /\ Len(p) > 1)
    BY <1>2
  <2>2. /\ IsPanel(ParentPanel(p, P0)) /\ Len(ParentPanel(p, P0)) = Len(p)
        /\ Front(ParentPanel(p, P0)) = Front(p) /\ ParentPanel(p, P0)[Len(p)] = P0
    BY <1>2, <2>1, ParentIsPanel
  <2> QED
    BY <1>2, <2>2, SamePanel DEF LastNumber
<1> DEFINE A == Around(p)
<1>4. /\ \A i \in 0..2 : A[i] = nodes[ParentPanel(p, i)]
      /\ A[P0] = nodes[p]
  BY <1>2, <1>3 DEF Around
<1>5. \/ \E Q \in 0..2, y \in Slots : b = A[Q][y] /\ Linked(A, P0, t, Q, y)
      \/ \E i \in 0..1, y \in Slots : b = Under(p)[i][y] /\ First(Under(p), i, t, y, 1)
  BY StatesAre
<1> HIDE DEF A, P0, p, t
<1>6. ASSUME NEW Q \in 0..2, NEW y \in Slots, b = A[Q][y], Linked(A, P0, t, Q, y)
      PROVE  b \in Members \ {a} /\ a \in states[b]
  <2> DEFINE r == ParentPanel(p, Q)
  <2>1. r \in P!PanelsTo(depth) /\ b = nodes[r][y] /\ b # Nobody
    BY <1>2, <1>4, <1>6 DEF Linked, Has
  <2>2. b \in Members /\ node[b].panel = r /\ node[b].partner = y
    BY <1>1, <2>1, SlotHolds
  <2>3. Has(A, P0, t)
    BY <1>1, <1>4 DEF Has
  <2>4. CASE ~(Q = 2 /\ Len(p) > 1)
    <3>1. /\ IsPanel(r) /\ Len(r) = Len(p) /\ Front(r) = Front(p) /\ LastNumber(r) = Q
      BY <1>2, <2>4, ParentIsPanel DEF LastNumber
    <3>2. Around(r) = A
      <4>1. \A i \in 0..2 : ParentPanel(r, i) = ParentPanel(p, i)
        BY <3>1 DEF ParentPanel
      <4> QED
        BY <4>1 DEF Around, A
    <3>3. Linked(A, Q, y, P0, t)
      BY <1>2, <1>6, <1>1, <2>3, BothWays
    <3>4. a = Around(r)[P0][t]
      BY <1>1, <1>4, <3>2
    <3>5. a \in states[b]
      BY <1>1, <1>2, <2>2, <3>1, <3>2, <3>3, <3>4, StatesAre
    <3>6. b # a
      <4>1. CASE P0 = Q
        BY <1>6, <2>2, <4>1 DEF Linked, t
      <4>2. CASE P0 # Q
        <5>1. node[b].panel # node[a].panel
          BY <2>2, <3>1, <4>2 DEF P0, p
        <5> QED
          BY <5>1
      <4> QED
        BY <4>1, <4>2
    <3> QED
      BY <2>2, <3>5, <3>6
  <2>5. CASE Q = 2 /\ Len(p) > 1
    <3>1. r = Front(p) /\ P0 \in 0..1 /\ IsPanel(r) /\ Len(r) # Len(p)
      BY <1>2, <2>5, ParentIsPanel, FrontFacts DEF IsPanel
    <3>2. \A j \in Slots : Has(A, 2, j)
      <4>1. \A j \in Slots : nodes[r][j] # Nobody
        BY <1>1, <2>1, <2>5, <3>1, ConnectorsFull
      <4> QED
        BY <1>4, <2>5, <4>1 DEF Has
    <3>3. First(A, P0, y, t, 1)
      BY <1>1, <1>6, <2>3, <2>5, <3>1, <3>2, WithConnector
    <3>4. Append(r, P0) = p
      <4>1. /\ Append(r, P0) \in Seq(0..2) /\ Len(Append(r, P0)) = Len(r) + 1
            /\ Append(r, P0)[Len(r) + 1] = P0 /\ Front(Append(r, P0)) = r
            /\ IsPanel(Append(r, P0))
        BY <3>1, AppendFacts DEF IsPanel
      <4> QED
        BY <1>2, <3>1, <4>1, SamePanel DEF P0, LastNumber
    <3>5. Under(r)[P0] = nodes[p]
      <4>1. p \in DOMAIN nodes /\ nodes[p] = [j \in Slots |-> nodes[p][j]]
        BY <1>1 DEF IsTree
      <4>2. Under(r)[P0] = [j \in Slots |-> Shown(nodes, p, j)]
        BY <3>1, <3>4 DEF Under
      <4> QED
        BY <4>1, <4>2 DEF Shown
    <3>6. First(Under(r), P0, y, t, 1) /\ a = Under(r)[P0][t]
      BY <1>1, <1>4, <3>3, <3>5 DEF First, Has
    <3>7. a \in states[b]
      BY <1>1, <2>2, <3>1, <3>6, StatesAre
    <3>8. b # a
      BY <2>2, <3>1 DEF p
    <3> QED
      BY <2>2, <3>7, <3>8
  <2> QED
    BY <2>4, <2>5
<1>7. ASSUME NEW i \in 0..1, NEW y \in Slots, b = Under(p)[i][y], First(Under(p), i, t, y, 1)
      PROVE  b \in Members \ {a} /\ a \in states[b]
  <2> DEFINE r == Append(p, i)
             B == Around(r)
  <2>r. r = Append(p, i)
    OBVIOUS
  <2>1. b = Shown(nodes, r, y) /\ b # Nobody
    BY <1>7 DEF Under, First, Has
  <2>2. r \in P!PanelsTo(depth) /\ b = nodes[r][y]
    BY <1>1, <2>1 DEF Shown, IsTree
  <2> HIDE DEF r
  <2>3. b \in Members /\ node[b].panel = r /\ node[b].partner = y
    BY <1>1, <2>1, <2>2, SlotHolds
  <2>4. /\ IsPanel(r) /\ Len(r) = Len(p) + 1 /\ Front(r) = p /\ LastNumber(r) = i /\ Len(r) > 1
    BY <1>2, <2>r, AppendFacts DEF IsPanel, LastNumber
  <2>5. B[2] = nodes[p] /\ B[i] = nodes[r]
    <3>1. ParentPanel(r, 2) = p
      BY <2>4 DEF ParentPanel
    <3>2. ParentPanel(r, i) = Append(p, i)
      BY <2>4 DEF ParentPanel
    <3>3. 2 \in 0..2 /\ i \in 0..2
      OBVIOUS
    <3>4. \A k \in 0..2 : B[k] = nodes[ParentPanel(r, k)]
      BY DEF Around
    <3> HIDE DEF B
    <3> QED
      BY <2>r, <3>1, <3>2, <3>3, <3>4
  <2>6. \A j \in Slots : Has(B, 2, j)
    <3>1. \A j \in Slots : nodes[p][j] # Nobody
      BY <1>1, <2>1, <2>2, <2>4, ConnectorsFull
    <3> QED
      BY <2>5, <3>1 DEF Has
  <2>7. Under(p)[i] = nodes[r]
    <3>1. r \in DOMAIN nodes /\ nodes[r] = [j \in Slots |-> nodes[r][j]]
      BY <1>1, <2>2 DEF IsTree
    <3>2. Under(p)[i] = [j \in Slots |-> Shown(nodes, r, j)]
      BY DEF Under, r
    <3> QED
      BY <3>1, <3>2 DEF Shown
  <2>8. First(B, i, t, y, 1) /\ Has(B, i, y)
    BY <1>7, <2>5, <2>7 DEF First, Has
  <2> HIDE DEF B
  <2>9. Linked(B, i, y, 2, t)
    BY <1>1, <2>6, <2>8, WithConnector
  <2>10. a = B[2][t]
    BY <1>1, <2>5
  <2>11. a \in states[b]
    BY <1>1, <2>3, <2>4, <2>9, <2>10, StatesAre DEF B
  <2>12. b # a
    BY <1>2, <2>3, <2>4 DEF p, IsPanel
  <2> QED
    BY <2>3, <2>11, <2>12
<1> QED
  BY <1>5, <1>6, <1>7

(* LinksAgree: no client is told to keep a connection that the other end is *)
(* not told to keep (nodeStates of two node managers).                      *)
THEOREM LinksAlwaysAgree == Spec => [](depth <= 3 => LinksAgree)
<1>1. ViewsInv => (depth <= 3 => LinksAgree)
  BY LinksBack DEF LinksAgree
<1> QED
  BY <1>1, ViewsInvariant, PTL

===============================================================================
