------------------------- MODULE ClusterTreeProofs -------------------------
(***************************************************************************)
(* Theorems about the cluster tree, for every panel size, every set of     *)
(* NodeIDs and every number of connections.                                *)
(***************************************************************************)
EXTENDS ClusterTree, FiniteSetTheorems, TLAPS

(* A member of Level(d) is a sequence of length d over the panel numbers. *)
LEMMA LevelIsPath ==
  ASSUME NEW d \in Nat, NEW p \in Level(d)
  PROVE  /\ p \in Seq(0..2)
         /\ Len(p) = d
         /\ \A i \in 1..d : p[i] \in 0..2
         /\ \A i \in 2..d : p[i] # 2
BY DEF Level

(* The converse: these facts make a sequence a member of Level(d). *)
LEMMA PathIsLevel ==
  ASSUME NEW d \in Nat, NEW p \in Seq(0..2), Len(p) = d,
         \A i \in 2..d : p[i] # 2
  PROVE  p \in Level(d)
BY DEF Level

(* The panels of a tree of depth d, by their length. *)
LEMMA PanelsByLength ==
  ASSUME NEW d \in Nat
  PROVE  /\ \A p \in PanelsTo(d) : /\ p \in Seq(0..2)
                                   /\ Len(p) \in 1..d
                                   /\ p \in Level(Len(p))
         /\ \A i \in 1..d : \A p \in Level(i) : p \in PanelsTo(d)
BY LevelIsPath DEF PanelsTo

(* The child panels of a panel that is not on the last level. *)
LEMMA ChildPanel ==
  ASSUME depth \in Nat, NEW p \in Panels, Len(p) < depth, NEW k \in 0..1
  PROVE  /\ Append(p, k) \in Panels
         /\ Len(Append(p, k)) = Len(p) + 1
         /\ Above(p, Append(p, k))
<1>1. p \in Seq(0..2) /\ Len(p) \in 1..depth /\ p \in Level(Len(p))
  BY PanelsByLength DEF Panels
<1>2. \A i \in 2..Len(p) : p[i] # 2
  BY <1>1, LevelIsPath
<1>3. /\ Append(p, k) \in Seq(0..2)
      /\ Len(Append(p, k)) = Len(p) + 1
      /\ \A i \in 1..Len(p) : Append(p, k)[i] = p[i]
      /\ Append(p, k)[Len(p) + 1] = k
  BY <1>1
<1>4. \A i \in 2..(Len(p) + 1) : Append(p, k)[i] # 2
  BY <1>1, <1>2, <1>3
<1>5. Append(p, k) \in Level(Len(p) + 1)
  <2>1. Len(p) + 1 \in Nat
    BY <1>1
  <2> QED
    BY <2>1, <1>3, <1>4, PathIsLevel
<1> QED
  BY <1>1, <1>3, <1>5, PanelsByLength DEF Panels, Above

(* A panel has a panel above it on every shorter length. *)
LEMMA Ancestor ==
  ASSUME depth \in Nat, NEW q \in Panels, NEW m \in 1..Len(q)
  PROVE  /\ SubSeq(q, 1, m) \in Panels
         /\ Len(SubSeq(q, 1, m)) = m
         /\ \A i \in 1..m : SubSeq(q, 1, m)[i] = q[i]
<1>1. q \in Seq(0..2) /\ Len(q) \in 1..depth /\ q \in Level(Len(q))
  BY PanelsByLength DEF Panels
<1>2. \A i \in 2..Len(q) : q[i] # 2
  BY <1>1, LevelIsPath
<1>3. /\ SubSeq(q, 1, m) \in Seq(0..2)
      /\ Len(SubSeq(q, 1, m)) = m
      /\ \A i \in 1..m : SubSeq(q, 1, m)[i] = q[i]
  BY <1>1
<1>4. m \in Nat /\ m \in 1..depth
  BY <1>1
<1>5. \A i \in 2..m : SubSeq(q, 1, m)[i] # 2
  BY <1>1, <1>2, <1>3, <1>4
<1>6. SubSeq(q, 1, m) \in Level(m)
  BY <1>3, <1>4, <1>5, PathIsLevel
<1> QED
  BY <1>3, <1>4, <1>6, PanelsByLength DEF Panels

(* Two panels on the way to a third: the shorter one is above the longer. *)
LEMMA OnOneWay ==
  ASSUME depth \in Nat, NEW p \in Panels, NEW q \in Panels, NEW r \in Panels,
         AtOrAbove(p, r), AtOrAbove(q, r)
  PROVE  /\ Len(p) = Len(q) => p = q
         /\ Len(p) < Len(q) => Above(p, q)
<1>1. /\ p \in Seq(0..2) /\ Len(p) \in 1..depth
      /\ q \in Seq(0..2) /\ Len(q) \in 1..depth
      /\ r \in Seq(0..2) /\ Len(r) \in 1..depth
  BY PanelsByLength DEF Panels
<1>2. /\ Len(p) <= Len(r) /\ \A i \in 1..Len(p) : r[i] = p[i]
      /\ Len(q) <= Len(r) /\ \A i \in 1..Len(q) : r[i] = q[i]
  BY <1>1 DEF AtOrAbove, Above
<1>3. ASSUME Len(p) = Len(q) PROVE p = q
  BY <1>1, <1>2, <1>3
<1>4. ASSUME Len(p) < Len(q) PROVE Above(p, q)
  BY <1>1, <1>2, <1>4 DEF Above
<1> QED
  BY <1>3, <1>4

(* Above is transitive, and follows the lengths. *)
LEMMA AboveTransitive ==
  ASSUME depth \in Nat, NEW p \in Panels, NEW q \in Panels, NEW r \in Panels,
         Above(p, q), AtOrAbove(q, r)
  PROVE  Above(p, r)
<1>1. /\ p \in Seq(0..2) /\ Len(p) \in 1..depth
      /\ q \in Seq(0..2) /\ Len(q) \in 1..depth
      /\ r \in Seq(0..2) /\ Len(r) \in 1..depth
  BY PanelsByLength DEF Panels
<1> QED
  BY <1>1 DEF AtOrAbove, Above

(* The step of a promotion route from a panel that is not its last: the next *)
(* panel is one level down and on the route.                                 *)
LEMMA RouteStep ==
  ASSUME depth \in Nat, NEW top \in Panels, NEW last \in Panels,
         NEW p \in Route(top, last), p # last
  PROVE  /\ Toward(p, last) \in Route(top, last)
         /\ Len(Toward(p, last)) = Len(p) + 1
         /\ Above(p, Toward(p, last))
         /\ Above(top, Toward(p, last))
<1> DEFINE q == Toward(p, last)
<1>1. p \in Panels /\ AtOrAbove(top, p) /\ AtOrAbove(p, last)
  BY DEF Route
<1>2. /\ p \in Seq(0..2) /\ Len(p) \in 1..depth
      /\ last \in Seq(0..2) /\ Len(last) \in 1..depth
      /\ top \in Seq(0..2) /\ Len(top) \in 1..depth
  BY <1>1, PanelsByLength DEF Panels
<1>3. Above(p, last)
  BY <1>1 DEF AtOrAbove
<1>4. Len(p) + 1 \in 1..Len(last)
  BY <1>2, <1>3 DEF Above
<1>5. /\ q \in Panels
      /\ Len(q) = Len(p) + 1
      /\ \A i \in 1..(Len(p) + 1) : q[i] = last[i]
  BY <1>4, Ancestor DEF Toward
<1>6. Above(p, q)
  BY <1>2, <1>3, <1>5 DEF Above
<1>7. AtOrAbove(q, last)
  <2>1. q \in Seq(0..2)
    BY <1>5, PanelsByLength DEF Panels
  <2>2. CASE Len(q) = Len(last)
    BY <1>2, <1>5, <2>1, <2>2 DEF AtOrAbove
  <2>3. CASE Len(q) # Len(last)
    BY <1>2, <1>4, <1>5, <2>1, <2>3 DEF AtOrAbove, Above
  <2> QED
    BY <2>2, <2>3
<1>8. Above(top, q)
  BY <1>1, <1>5, <1>6, AboveTransitive DEF AtOrAbove
<1> QED
  BY <1>5, <1>6, <1>7, <1>8 DEF Route, AtOrAbove

(* Every panel of a route but its first is the step from another of them. *)
LEMMA RouteBack ==
  ASSUME depth \in Nat, NEW top \in Panels, NEW last \in Panels,
         NEW q \in Route(top, last), q # top
  PROVE  \E p \in Route(top, last) \ {last} : Toward(p, last) = q
<1> DEFINE p == SubSeq(q, 1, Len(q) - 1)
<1>1. q \in Panels /\ AtOrAbove(top, q) /\ AtOrAbove(q, last)
  BY DEF Route
<1>2. /\ q \in Seq(0..2) /\ Len(q) \in 1..depth
      /\ last \in Seq(0..2) /\ Len(last) \in 1..depth
      /\ top \in Seq(0..2) /\ Len(top) \in 1..depth
  BY <1>1, PanelsByLength DEF Panels
<1>3. Above(top, q)
  BY <1>1 DEF AtOrAbove
<1>4. Len(q) - 1 \in 1..Len(q)
  BY <1>2, <1>3 DEF Above
<1>5. /\ p \in Panels
      /\ Len(p) = Len(q) - 1
      /\ \A i \in 1..(Len(q) - 1) : p[i] = q[i]
  BY <1>1, <1>4, Ancestor
<1> HIDE DEF p
<1>6. Above(p, q)
  BY <1>2, <1>5 DEF Above
<1>7. Above(p, last)
  BY <1>1, <1>5, <1>6, AboveTransitive
<1>8. AtOrAbove(top, p)
  <2>1. AtOrAbove(p, q) /\ AtOrAbove(top, q)
    BY <1>1, <1>6 DEF AtOrAbove
  <2>2. Len(top) = Len(p) \/ Len(top) < Len(p)
    BY <1>2, <1>3, <1>5 DEF Above
  <2>3. (Len(top) = Len(p) => top = p) /\ (Len(top) < Len(p) => Above(top, p))
    BY <1>1, <1>5, <2>1, OnOneWay
  <2> QED
    BY <2>2, <2>3 DEF AtOrAbove
<1>9. p \in Route(top, last) \ {last}
  <2>1. p # last
    BY <1>2, <1>7 DEF Above
  <2> QED
    BY <1>5, <1>7, <1>8, <2>1 DEF Route, AtOrAbove
<1>10. Toward(p, last) = q
  <2>1. /\ Toward(p, last) \in Route(top, last)
        /\ Len(Toward(p, last)) = Len(p) + 1
    BY <1>9, RouteStep
  <2>2. Len(Toward(p, last)) = Len(q)
    BY <1>2, <1>5, <2>1
  <2> QED
    BY <1>1, <2>1, <2>2, OnOneWay DEF Route
<1> QED
  BY <1>9, <1>10

----------------------------------------------------------------------------
(* The invariant.  None of its parts is inductive alone: the promotions     *)
(* keep the slots and the nodes in step because FullAbove makes the removed *)
(* node's partner number the one every panel of the route but the last      *)
(* gives up.                                                                *)
TreeInv == TypeOK /\ SlotsMatchNodes /\ MapLeadsIntoTree /\ FullAbove

(* An empty pool satisfies the invariant. *)
LEMMA InitInv == Init => TreeInv
<1> SUFFICES ASSUME Init PROVE TreeInv
  OBVIOUS
<1>1. Panels = PanelsTo(1) /\ \A p \in Panels : Len(p) = 1
  <2>1. \A p \in PanelsTo(1) : Len(p) = 1
    BY PanelsByLength
  <2> QED
    BY <2>1 DEF Init, Panels
<1>2. TypeOK
  BY <1>1, TreeAssumption DEF Init, TypeOK, Nil
<1>3. SlotsMatchNodes
  BY <1>1 DEF Init, SlotsMatchNodes, Nil
<1>4. MapLeadsIntoTree
  BY DEF Init, MapLeadsIntoTree, Nil
<1>5. FullAbove
  BY <1>1 DEF Init, FullAbove, Above
<1> QED
  BY <1>2, <1>3, <1>4, <1>5 DEF TreeInv

(* AddNode keeps the invariant: the slot it takes is free, and every panel *)
(* above it is full.                                                      *)
LEMMA AddInv ==
  ASSUME TreeInv, NEW id \in NodeIDs, AddNode(id)
  PROVE  TreeInv'
<1> DEFINE n == made + 1
<1>1. /\ made \in Nat /\ made < MaxConns
      /\ depth \in Nat \ {0}
      /\ nodes \in [Panels -> [Partners -> 0..made]]
      /\ nodeMap \in [NodeIDs -> 0..made]
      /\ DOMAIN node \subseteq 1..made
      /\ \A c \in DOMAIN node :
            node[c] \in [id : NodeIDs, panel : Panels, partner : Partners]
  BY DEF TreeInv, TypeOK, AddNode
<1>a. PICK d \in 1..(depth + 1) :
        /\ FreeLevel(d)
        /\ \E p \in Level(d), j \in Partners : FreeSlot(d, p, j) /\ Place(id, d, p, j)
  BY DEF AddNode
<1>2. PICK p \in Level(d), j \in Partners : FreeSlot(d, p, j) /\ Place(id, d, p, j)
  BY <1>a
<1>3. /\ depth' \in Nat \ {0} /\ depth <= depth' /\ d <= depth'
      /\ d \in Nat
  BY <1>1, <1>2 DEF Place
<1>4. p \in Panels' /\ Len(p) = d
  <2>1. p \in PanelsTo(depth')
    BY <1>2, <1>3, PanelsByLength
  <2> QED
    BY <1>3, <2>1, LevelIsPath DEF Panels
<1>5. Panels \subseteq Panels' /\ \A q \in Panels' : Len(q) \in Nat
  <2>1. \A q \in PanelsTo(depth) : q \in PanelsTo(depth')
    BY <1>1, <1>3, PanelsByLength
  <2>2. \A q \in PanelsTo(depth') : Len(q) \in Nat
    BY <1>3, PanelsByLength
  <2> QED
    BY <2>1, <2>2 DEF Panels
<1>6. \A q \in Panels' : Len(q) < d => q \in Panels /\ Full(q)
  <2> SUFFICES ASSUME NEW q \in Panels', Len(q) < d PROVE q \in Panels /\ Full(q)
    OBVIOUS
  <2>1. q \in Level(Len(q)) /\ Len(q) \in 1..depth
    BY <1>1, <1>3, PanelsByLength DEF Panels
  <2>2. q \in Panels
    BY <1>1, <2>1, PanelsByLength DEF Panels
  <2> QED
    BY <1>a, <2>2 DEF FreeLevel
<1>7. p \in Panels => nodes[p][j] = Nil
  <2>1. p \in PanelsTo(d)
    BY <1>2, <1>3, PanelsByLength
  <2>2. p \in Panels => Len(p) <= depth
    BY <1>1, PanelsByLength DEF Panels
  <2> QED
    BY <1>2, <2>1, <2>2 DEF FreeSlot, Grown
<1>8. /\ made' = n /\ n \in 1..MaxConns /\ n \notin DOMAIN node
      /\ nodeMap' = [nodeMap EXCEPT ![id] = n]
      /\ DOMAIN node' = DOMAIN node \union {n}
      /\ node'[n] = [id |-> id, panel |-> p, partner |-> j]
      /\ \A c \in DOMAIN node : node'[c] = node[c]
  BY <1>1, <1>2, TreeAssumption DEF Place
<1>9. /\ nodes' \in [Panels' -> [Partners -> 0..made']]
      /\ nodes'[p][j] = n
      /\ \A q \in Panels', i \in Partners :
           (q # p \/ i # j) =>
              nodes'[q][i] = IF q \in Panels THEN nodes[q][i] ELSE Nil
  <2> DEFINE G == Grown(depth')
  <2>1. /\ G \in [Panels' -> [Partners -> 0..n]]
        /\ \A q \in Panels', i \in Partners :
              G[q][i] = IF q \in Panels THEN nodes[q][i] ELSE Nil
    <3>1. G = [q \in Panels' |-> IF q \in Panels THEN nodes[q] ELSE [i \in Partners |-> Nil]]
      <4>1. ASSUME NEW q \in Panels' PROVE (q \in Panels) <=> (Len(q) <= depth)
        BY <1>1, <1>3, PanelsByLength DEF Panels
      <4> QED
        BY <4>1 DEF Grown, Panels
    <3> HIDE DEF G
    <3>2. ASSUME NEW q \in Panels' PROVE G[q] \in [Partners -> 0..n]
      BY <1>1, <3>1 DEF Nil
    <3> QED
      BY <3>1, <3>2
  <2>2. nodes' = [G EXCEPT ![p][j] = n] /\ made' = n
    BY <1>2 DEF Place
  <2> HIDE DEF G
  <2> QED
    BY <1>1, <1>2, <1>4, <2>1, <2>2
<1> HIDE DEF n
<1>10. TypeOK'
  <2>1. made' \in 0..MaxConns
    BY <1>8
  <2>2. nodeMap' \in [NodeIDs -> 0..made']
    BY <1>1, <1>8 DEF n
  <2>3. DOMAIN node' \subseteq 1..made'
    BY <1>1, <1>8 DEF n
  <2>4. ASSUME NEW c \in DOMAIN node'
        PROVE  node'[c] \in [id : NodeIDs, panel : Panels', partner : Partners]
    BY <1>1, <1>2, <1>4, <1>5, <1>8, <2>4
  <2> QED
    BY <1>3, <1>9, <2>1, <2>2, <2>3, <2>4 DEF TypeOK
<1>11. SlotsMatchNodes'
  <2>1. ASSUME NEW c \in DOMAIN node'
        PROVE  nodes'[node'[c].panel][node'[c].partner] = c
    <3>1. CASE c = n
      BY <1>8, <1>9, <3>1
    <3>2. CASE c \in DOMAIN node
      <4>1. /\ nodes[node[c].panel][node[c].partner] = c
            /\ node[c].panel \in Panels /\ node[c].partner \in Partners
            /\ c # Nil /\ node'[c] = node[c]
        BY <1>1, <1>8, <3>2 DEF TreeInv, SlotsMatchNodes, Nil
      <4>2. node[c].panel # p \/ node[c].partner # j
        BY <1>7, <4>1
      <4> QED
        BY <1>5, <1>9, <4>1, <4>2
    <3> QED
      BY <1>8, <2>1, <3>1, <3>2
  <2>2. ASSUME NEW q \in Panels', NEW i \in Partners, nodes'[q][i] # Nil
        PROVE  /\ nodes'[q][i] \in DOMAIN node'
               /\ node'[nodes'[q][i]].panel = q
               /\ node'[nodes'[q][i]].partner = i
    <3>1. CASE q = p /\ i = j
      BY <1>8, <1>9, <3>1
    <3>2. CASE q # p \/ i # j
      BY <1>8, <1>9, <2>2, <3>2 DEF TreeInv, SlotsMatchNodes
    <3> QED
      BY <3>1, <3>2
  <2> QED
    BY <2>1, <2>2 DEF SlotsMatchNodes
<1>12. MapLeadsIntoTree'
  BY <1>1, <1>8 DEF TreeInv, MapLeadsIntoTree
<1>13. FullAbove'
  <2> SUFFICES ASSUME NEW a \in Panels', NEW b \in Panels', Above(a, b),
                      NEW i \in Partners, nodes'[b][i] # Nil
               PROVE  \A m \in Partners : nodes'[a][m] # Nil
    BY DEF FullAbove, Full
  <2>1. a \in Panels /\ Full(a)
    <3>1. CASE b = p
      BY <1>4, <1>6, <3>1 DEF Above
    <3>2. CASE b # p
      <4>1. b \in Panels /\ nodes[b][i] # Nil
        BY <1>9, <3>2
      <4>2. Len(b) \in 1..depth /\ Len(a) \in Nat /\ Len(a) < Len(b)
        BY <1>1, <1>5, <4>1, PanelsByLength DEF Panels, Above
      <4>3. a \in Panels
        <5>1. a \in Level(Len(a)) /\ Len(a) \in 1..depth
          BY <1>1, <1>3, <4>2, PanelsByLength DEF Panels
        <5> QED
          BY <1>1, <5>1, PanelsByLength DEF Panels
      <4> QED
        BY <4>1, <4>3 DEF TreeInv, FullAbove
    <3> QED
      BY <3>1, <3>2
  <2> QED
    BY <1>1, <1>8, <1>9, <2>1 DEF Full, Nil, n
<1> QED
  BY <1>10, <1>11, <1>12, <1>13 DEF TreeInv

(* What the invariant says of a promotion route: every panel of the route  *)
(* but the last is full and gives up the slot of the removed node's        *)
(* partner number, and the node that refills it comes from the next panel. *)
LEMMA RouteFacts ==
  ASSUME TreeInv, NEW n \in DOMAIN node, NEW last \in Panels,
         NEW from, PromotionRoute(n, last, from)
  PROVE  LET top   == node[n].panel
             s     == node[n].partner
             route == Route(top, last)
         IN /\ top \in Panels /\ s \in Partners
            /\ top \in route /\ last \in route
            /\ from \in [route -> Partners] /\ from[top] = s
            /\ \A p \in route \ {last} :
                 /\ Full(p) /\ from[p] = s
                 /\ Toward(p, last) \in route \ {top}
                 /\ Promoted(p, last, from) \in DOMAIN node \ {n}
                 /\ node[Promoted(p, last, from)].panel = Toward(p, last)
                 /\ node[Promoted(p, last, from)].partner = from[Toward(p, last)]
            /\ \A p, r \in route \ {last} : Toward(p, last) = Toward(r, last) => p = r
<1> DEFINE top   == node[n].panel
           s     == node[n].partner
           route == Route(top, last)
<1>1. /\ depth \in Nat /\ top \in Panels /\ s \in Partners
      /\ \A p \in Panels, i \in Partners : nodes[p][i] \in Nat
  BY DEF TreeInv, TypeOK
<1>2. /\ AtOrAbove(top, last) /\ from \in [route -> Partners] /\ from[top] = s
      /\ \A p \in route \ {last} :
           ~LoopEnds(p) /\ Promotes(p, s, Toward(p, last), from[Toward(p, last)])
  BY DEF PromotionRoute
<1> HIDE DEF top, s
<1>3. top \in route /\ last \in route
  BY <1>1, <1>2 DEF Route, AtOrAbove
<1>4. ASSUME NEW p \in route \ {last}
      PROVE  /\ Toward(p, last) \in route \ {top}
             /\ Len(Toward(p, last)) = Len(p) + 1
             /\ Above(p, Toward(p, last))
             /\ nodes[Toward(p, last)][from[Toward(p, last)]] # Nil
             /\ nodes[Toward(p, last)][s] = Nil \/ from[Toward(p, last)] = s
  <2>1. /\ Toward(p, last) \in route
        /\ Len(Toward(p, last)) = Len(p) + 1
        /\ Above(p, Toward(p, last)) /\ Above(top, Toward(p, last))
    BY <1>1, RouteStep
  <2>2. Toward(p, last) # top
    <3>1. Len(top) \in Nat
      BY <1>1, PanelsByLength DEF Panels
    <3> QED
      BY <2>1, <3>1 DEF Above
  <2> QED
    BY <1>2, <2>1, <2>2 DEF Promotes
<1>5. ASSUME NEW p \in route \ {last}
      PROVE  Full(p) /\ from[p] = s
  <2>1. p \in Panels /\ Toward(p, last) \in Panels /\ from[Toward(p, last)] \in Partners
    BY <1>2, <1>4 DEF Route
  <2>2. Full(p)
    BY <1>4, <2>1 DEF TreeInv, FullAbove
  <2>3. CASE p = top
    BY <1>2, <2>2, <2>3
  <2>4. CASE p # top
    <3>1. PICK r \in route \ {last} : Toward(r, last) = p
      BY <1>1, <2>4, RouteBack
    <3> QED
      BY <1>1, <1>4, <2>2, <3>1 DEF Full
  <2> QED
    BY <2>3, <2>4
<1>6. ASSUME NEW p \in route \ {last}
      PROVE  /\ Promoted(p, last, from) \in DOMAIN node \ {n}
             /\ node[Promoted(p, last, from)].panel = Toward(p, last)
             /\ node[Promoted(p, last, from)].partner = from[Toward(p, last)]
  <2>1. Toward(p, last) \in Panels /\ from[Toward(p, last)] \in Partners
    BY <1>2, <1>4 DEF Route
  <2>2. /\ Promoted(p, last, from) \in DOMAIN node
        /\ node[Promoted(p, last, from)].panel = Toward(p, last)
        /\ node[Promoted(p, last, from)].partner = from[Toward(p, last)]
    BY <1>4, <2>1 DEF TreeInv, SlotsMatchNodes, Promoted
  <2> QED
    BY <1>4, <2>2 DEF top
<1>7. ASSUME NEW p \in route \ {last}, NEW r \in route \ {last},
             Toward(p, last) = Toward(r, last)
      PROVE  p = r
  <2>1. /\ p \in Panels /\ r \in Panels
        /\ AtOrAbove(p, last) /\ AtOrAbove(r, last)
    BY DEF Route
  <2>2. Len(p) \in Nat /\ Len(r) \in Nat
    BY <1>1, <2>1, PanelsByLength DEF Panels
  <2>3. Len(p) = Len(r)
    BY <1>4, <1>7, <2>2
  <2> QED
    BY <1>1, <2>1, <2>3, OnOneWay
<1> QED
  BY <1>1, <1>2, <1>3, <1>4, <1>5, <1>6, <1>7 DEF top, s

(* RemoveNode keeps the invariant: every vacancy but the last is refilled. *)
LEMMA RemoveInv ==
  ASSUME TreeInv, NEW id \in NodeIDs, RemoveNode(id)
  PROVE  TreeInv'
<1> DEFINE n == nodeMap[id]
<1>1. n \in DOMAIN node /\ node[n].id = id
  BY DEF TreeInv, MapLeadsIntoTree, RemoveNode
<1>2. PICK last \in Panels :
        \E from \in [Route(node[n].panel, last) -> Partners] :
          PromotionRoute(n, last, from) /\ Unplace(id, last, from)
  BY DEF RemoveNode, Below
<1>3. PICK from : PromotionRoute(n, last, from) /\ Unplace(id, last, from)
  BY <1>2
<1> DEFINE top   == node[n].panel
           s     == node[n].partner
           route == Route(top, last)
           inner == route \ {last}
           up(p) == Promoted(p, last, from)
           next(p) == Toward(p, last)
<1>4. /\ top \in Panels /\ s \in Partners
      /\ top \in route /\ last \in route /\ route \subseteq Panels
      /\ from \in [route -> Partners] /\ from[top] = s
      /\ \A p \in inner :
           /\ Full(p) /\ from[p] = s
           /\ next(p) \in route \ {top}
           /\ up(p) \in DOMAIN node \ {n}
           /\ node[up(p)].panel = next(p)
           /\ node[up(p)].partner = from[next(p)]
      /\ \A p, r \in inner : next(p) = next(r) => p = r
  <2>1. route \subseteq Panels
    BY DEF Route
  <2> QED
    BY <1>1, <1>3, <2>1, RouteFacts
<1>5. \A q \in route : q # top => \E p \in inner : next(p) = q
  <2>1. depth \in Nat
    BY DEF TreeInv, TypeOK
  <2> QED
    BY <1>4, <2>1, RouteBack
<1>6. /\ made \in 0..MaxConns /\ depth \in Nat \ {0}
      /\ nodes \in [Panels -> [Partners -> 0..made]]
      /\ nodeMap \in [NodeIDs -> 0..made]
      /\ DOMAIN node \subseteq 1..made
      /\ \A c \in DOMAIN node :
            node[c] \in [id : NodeIDs, panel : Panels, partner : Partners]
  BY DEF TreeInv, TypeOK
<1>7. made' = made /\ depth' = depth /\ Panels' = Panels
  BY <1>3 DEF Unplace, Panels
<1>8. nodeMap' = [nodeMap EXCEPT ![id] = Nil]
  BY <1>3 DEF Unplace
<1>9. nodes' = [p \in Panels |->
                  IF p \notin route THEN nodes[p]
                  ELSE IF p = last THEN [nodes[p] EXCEPT ![from[p]] = Nil]
                  ELSE [nodes[p] EXCEPT ![from[p]] = Nil, ![s] = up(p)]]
  BY <1>3 DEF Unplace
<1>10. node' = [c \in DOMAIN node \ {n} |->
                  IF \E p \in inner : c = up(p)
                  THEN [node[c] EXCEPT !.panel = CHOOSE p \in inner : c = up(p),
                                       !.partner = s]
                  ELSE node[c]]
  BY <1>3 DEF Unplace
<1> HIDE DEF n, top, s, route, inner, up, next
<1>11. \A p \in Panels, i \in Partners :
         /\ p \notin route => nodes'[p][i] = nodes[p][i]
         /\ p = last => nodes'[p][i] = IF i = from[p] THEN Nil ELSE nodes[p][i]
         /\ p \in inner => nodes'[p][i] = IF i = s THEN up(p) ELSE nodes[p][i]
  BY <1>4, <1>6, <1>9 DEF inner
<1>12. /\ DOMAIN node' = DOMAIN node \ {n}
       /\ \A p \in inner : /\ node'[up(p)].id = node[up(p)].id
                            /\ node'[up(p)].panel = p
                            /\ node'[up(p)].partner = s
                            /\ node'[up(p)] \in [id : NodeIDs, panel : Panels, partner : Partners]
       /\ \A c \in DOMAIN node \ {n} :
             (\A p \in inner : c # up(p)) => node'[c] = node[c]
  <2>1. ASSUME NEW p \in inner
        PROVE  /\ node'[up(p)].id = node[up(p)].id
               /\ node'[up(p)].panel = p
               /\ node'[up(p)].partner = s
               /\ node'[up(p)] \in [id : NodeIDs, panel : Panels, partner : Partners]
    <3>1. \A r \in inner : up(p) = up(r) => p = r
      BY <1>4
    <3>2. (CHOOSE r \in inner : up(p) = up(r)) = p
      BY <3>1
    <3>3. node'[up(p)] = [node[up(p)] EXCEPT !.panel = p, !.partner = s]
      BY <1>4, <1>10, <3>2
    <3>4. p \in Panels
      BY <1>4 DEF inner
    <3>5. node[up(p)] \in [id : NodeIDs, panel : Panels, partner : Partners]
      BY <1>4, <1>6
    <3> QED
      BY <1>4, <3>3, <3>4, <3>5
  <2> QED
    BY <1>10, <2>1
<1>13. \A p \in inner : p \in route /\ p \in Panels /\ p # last
  BY <1>4 DEF inner
<1>14. TypeOK'
  <2>1. nodes' \in [Panels -> [Partners -> 0..made]]
    <3>1. ASSUME NEW p \in Panels PROVE nodes'[p] \in [Partners -> 0..made]
      <4>1. CASE p \notin route
        BY <1>6, <1>9, <4>1
      <4>2. CASE p = last
        BY <1>4, <1>6, <1>9, <4>2 DEF Nil
      <4>3. CASE p \in inner
        <5>1. up(p) \in 0..made
          BY <1>4, <1>6, <4>3
        <5> QED
          BY <1>4, <1>6, <1>9, <1>13, <4>3, <5>1 DEF Nil
      <4> QED
        BY <4>1, <4>2, <4>3 DEF inner
    <3> QED
      BY <1>9, <3>1
  <2>2. nodeMap' \in [NodeIDs -> 0..made]
    BY <1>6, <1>8 DEF Nil
  <2>3. \A c \in DOMAIN node' :
          node'[c] \in [id : NodeIDs, panel : Panels, partner : Partners]
    BY <1>6, <1>12
  <2> QED
    BY <1>6, <1>7, <1>12, <2>1, <2>2, <2>3 DEF TypeOK
<1>15. \A c \in DOMAIN node :
         /\ node[c].panel \in Panels /\ node[c].partner \in Partners
         /\ nodes[node[c].panel][node[c].partner] = c
         /\ c # Nil
  BY <1>6 DEF TreeInv, SlotsMatchNodes, Nil
<1>16. \A p \in Panels, i \in Partners :
         nodes[p][i] # Nil => /\ nodes[p][i] \in DOMAIN node
                              /\ node[nodes[p][i]].panel = p
                              /\ node[nodes[p][i]].partner = i
  BY DEF TreeInv, SlotsMatchNodes
<1>17. SlotsMatchNodes'
  <2>1. ASSUME NEW c \in DOMAIN node'
        PROVE  nodes'[node'[c].panel][node'[c].partner] = c
    <3>1. CASE \E p \in inner : c = up(p)
      BY <1>4, <1>11, <1>12, <1>13, <3>1
    <3>2. CASE \A p \in inner : c # up(p)
      <4> DEFINE q == node[c].panel
                 i == node[c].partner
      <4>1. /\ c \in DOMAIN node /\ c # n /\ node'[c] = node[c]
            /\ q \in Panels /\ i \in Partners /\ nodes[q][i] = c
        BY <1>12, <1>15, <2>1, <3>2
      <4>2. ASSUME q \in route PROVE i # from[q]
        <5>1. CASE q = top
          BY <1>1, <1>4, <1>15, <4>1, <5>1 DEF top, s
        <5>2. CASE q # top
          <6>1. PICK p \in inner : next(p) = q
            BY <1>5, <4>2, <5>2
          <6>2. up(p) \in DOMAIN node /\ node[up(p)].panel = q /\ node[up(p)].partner = from[q]
            BY <1>4, <6>1
          <6>3. nodes[q][from[q]] = up(p)
            BY <1>15, <6>2
          <6> QED
            BY <3>2, <4>1, <6>3
        <5> QED
          BY <5>1, <5>2
      <4>3. nodes'[q][i] = nodes[q][i]
        BY <1>4, <1>11, <4>1, <4>2 DEF inner
      <4> QED
        BY <4>1, <4>3
    <3> QED
      BY <3>1, <3>2
  <2>2. ASSUME NEW p \in Panels, NEW i \in Partners, nodes'[p][i] # Nil
        PROVE  /\ nodes'[p][i] \in DOMAIN node'
               /\ node'[nodes'[p][i]].panel = p
               /\ node'[nodes'[p][i]].partner = i
    <3>1. CASE p \in inner /\ i = s
      BY <1>4, <1>11, <1>12, <3>1
    <3>2. CASE ~(p \in inner /\ i = s)
      <4>1. nodes'[p][i] = nodes[p][i] /\ (p \in route => i # from[p])
        BY <1>4, <1>11, <2>2, <3>2 DEF inner
      <4>2. /\ nodes[p][i] \in DOMAIN node
            /\ node[nodes[p][i]].panel = p
            /\ node[nodes[p][i]].partner = i
        BY <1>16, <2>2, <4>1
      <4>3. nodes[p][i] # n
        BY <1>4, <4>1, <4>2 DEF top, s
      <4>4. \A r \in inner : nodes[p][i] # up(r)
        BY <1>4, <4>1, <4>2
      <4> QED
        BY <1>12, <4>1, <4>2, <4>3, <4>4
    <3> QED
      BY <3>1, <3>2
  <2> QED
    BY <1>7, <2>1, <2>2 DEF SlotsMatchNodes
<1>18. MapLeadsIntoTree'
  <2> SUFFICES ASSUME NEW x \in NodeIDs, nodeMap'[x] # Nil
               PROVE  nodeMap'[x] \in DOMAIN node' /\ node'[nodeMap'[x]].id = x
    BY DEF MapLeadsIntoTree
  <2>1. x # id /\ nodeMap'[x] = nodeMap[x]
    BY <1>6, <1>8
  <2>2. nodeMap[x] \in DOMAIN node /\ node[nodeMap[x]].id = x
    BY <2>1 DEF TreeInv, MapLeadsIntoTree
  <2>3. nodeMap[x] # n
    BY <1>1, <2>1, <2>2
  <2> QED
    BY <1>12, <2>1, <2>2, <2>3
<1>19. FullAbove'
  <2> SUFFICES ASSUME NEW a \in Panels, NEW b \in Panels, Above(a, b),
                      NEW i \in Partners, nodes'[b][i] # Nil
               PROVE  \A m \in Partners : nodes'[a][m] # Nil
    BY <1>7 DEF FullAbove, Full
  <2>0. depth \in Nat
    BY <1>6
  <2>1. Full(a)
    <3>1. CASE b \in inner /\ i = s
      <4>1. /\ next(b) \in Panels
            /\ \E j \in Partners : nodes[next(b)][j] # Nil
        BY <1>4, <1>15, <3>1
      <4>2. Above(b, next(b))
        BY <1>4, <2>0, <3>1, RouteStep DEF inner, next, route
      <4>3. Above(a, next(b))
        BY <2>0, <4>1, <4>2, AboveTransitive DEF AtOrAbove
      <4> QED
        BY <4>1, <4>3 DEF TreeInv, FullAbove
    <3>2. CASE ~(b \in inner /\ i = s)
      <4>1. nodes[b][i] # Nil
        BY <1>4, <1>11, <3>2 DEF inner
      <4> QED
        BY <4>1 DEF TreeInv, FullAbove
    <3> QED
      BY <3>1, <3>2
  <2>2. a # last
    <3> SUFFICES ASSUME a = last PROVE FALSE
      OBVIOUS
    <3>1. /\ Len(b) \in 1..depth /\ Len(last) \in 1..depth /\ Len(last) < Len(b)
          /\ last \in Seq(0..2) /\ b \in Level(Len(b))
      BY <2>0, PanelsByLength DEF Panels, Above
    <3>2. LoopEnds(last)
      BY <1>3 DEF PromotionRoute
    <3>3. PICK k \in 0..1 : AtOrAbove(Append(last, k), b)
      <4>1. b[Len(last) + 1] \in 0..1
        BY <3>1, LevelIsPath
      <4>2. AtOrAbove(Append(last, b[Len(last) + 1]), b)
        <5> DEFINE k == b[Len(last) + 1]
                   c == Append(last, k)
        <5>1. /\ c \in Seq(0..2) /\ Len(c) = Len(last) + 1
              /\ \A m \in 1..Len(last) : c[m] = last[m]
              /\ c[Len(last) + 1] = k
          BY <3>1, <4>1
        <5>2. \A m \in 1..Len(c) : c[m] = b[m]
          BY <3>1, <5>1 DEF Above
        <5>3. b \in Seq(0..2)
          BY <2>0, PanelsByLength DEF Panels
        <5> HIDE DEF c, k
        <5>4. Len(c) <= Len(b)
          BY <3>1, <5>1
        <5>5. CASE Len(c) = Len(b)
          BY <5>1, <5>2, <5>3, <5>5 DEF AtOrAbove
        <5>6. CASE Len(c) # Len(b)
          BY <3>1, <5>1, <5>2, <5>4, <5>6 DEF AtOrAbove, Above
        <5> QED
          BY <5>5, <5>6 DEF c, k
      <4> QED
        BY <4>1, <4>2
    <3>4. nodes[b][i] = Nil
      <4>1. ChildNodes(Append(last, k)) = {}
        BY <3>1, <3>2 DEF LoopEnds
      <4> DEFINE slot == <<b, i>>
      <4>2. slot \in Below(Append(last, k)) \X Partners
        BY <3>3 DEF Below
      <4>3. slot[1] = b /\ slot[2] = i
        OBVIOUS
      <4> HIDE DEF slot
      <4>4. ~(nodes[slot[1]][slot[2]] # Nil)
        BY <4>1, <4>2 DEF ChildNodes
      <4> QED
        BY <4>3, <4>4
    <3>5. b \notin route
      BY <3>1 DEF route, Route, AtOrAbove, Above
    <3> QED
      BY <1>11, <3>4, <3>5
  <2>3. ASSUME NEW m \in Partners PROVE nodes'[a][m] # Nil
    BY <1>4, <1>11, <1>15, <2>1, <2>2 DEF Full, inner
  <2> QED
    BY <2>3
<1> QED
  BY <1>14, <1>17, <1>18, <1>19 DEF TreeInv

(* Every step keeps the invariant. *)
LEMMA StepInv == TreeInv /\ [Next]_vars => TreeInv'
<1> SUFFICES ASSUME TreeInv, [Next]_vars PROVE TreeInv'
  OBVIOUS
<1>1. ASSUME NEW id \in NodeIDs, AddNode(id) PROVE TreeInv'
  BY <1>1, AddInv
<1>2. ASSUME NEW id \in NodeIDs, RemoveNode(id) PROVE TreeInv'
  BY <1>2, RemoveInv
<1>3. CASE UNCHANGED vars
  BY <1>3 DEF vars, TreeInv, TypeOK, SlotsMatchNodes, MapLeadsIntoTree,
              FullAbove, Full, Panels
<1> QED
  BY <1>1, <1>2, <1>3 DEF Next

(* The fields of a pool's tree keep their shape through every sequence of  *)
(* AddNode and RemoveNode (pool.go), duplicated NodeIDs included.          *)
THEOREM TreeInvariant == Spec => []TreeInv
<1>1. Init => TreeInv
  BY InitInv
<1>2. TreeInv /\ [Next]_vars => TreeInv'
  BY StepInv
<1> QED
  BY <1>1, <1>2, PTL DEF Spec

(* The shape of ClusterTree, NodeMap and the nodes' fields, whatever connects *)
(* and disconnects.                                                           *)
THEOREM TypeCorrect == Spec => []TypeOK
<1>1. TreeInv => TypeOK
  BY DEF TreeInv
<1> QED
  BY <1>1, TreeInvariant, PTL

(* ContainerNodePanel/PartnerInt and the panels' slots never disagree.     *)
THEOREM SlotsAlwaysMatch == Spec => []SlotsMatchNodes
<1>1. TreeInv => SlotsMatchNodes
  BY DEF TreeInv
<1> QED
  BY <1>1, TreeInvariant, PTL

(* A node is below a panel only while that panel has no free slot.         *)
THEOREM AlwaysFullAbove == Spec => []FullAbove
<1>1. TreeInv => FullAbove
  BY DEF TreeInv
<1> QED
  BY <1>1, TreeInvariant, PTL

(* NodeMap never leads to a node that RemoveNode took out of the tree, nor to *)
(* the node of another device.                                               *)
THEOREM MapAlwaysLeadsIntoTree == Spec => []MapLeadsIntoTree
<1>1. TreeInv => MapLeadsIntoTree
  BY DEF TreeInv
<1> QED
  BY <1>1, TreeInvariant, PTL

(* When RemoveNode's loop goes on because the subtrees below a panel hold a  *)
(* node, one of the two panels right below holds one.                        *)
LEMMA CandidateFromInv == TreeInv => PromotionHasCandidate
<1> SUFFICES ASSUME TreeInv, NEW p \in Panels, ~LoopEnds(p)
             PROVE  \E k \in 0..1, j \in Partners : nodes[Append(p, k)][j] # Nil
  BY DEF PromotionHasCandidate
<1>1. depth \in Nat
  BY DEF TreeInv, TypeOK
<1>2. Len(p) # depth /\ \E k \in 0..1 : ChildNodes(Append(p, k)) # {}
  BY DEF LoopEnds
<1>3. PICK k \in 0..1 : ChildNodes(Append(p, k)) # {}
  BY <1>2
<1> DEFINE c == Append(p, k)
<1>4. c \in Panels
  <2>1. Len(p) < depth
    BY <1>1, <1>2, PanelsByLength DEF Panels
  <2> QED
    BY <1>1, <2>1, ChildPanel
<1> HIDE DEF c
<1>5. PICK slot \in Below(c) \X Partners : nodes[slot[1]][slot[2]] # Nil
  BY <1>3 DEF ChildNodes, c
<1>6. slot[1] \in Panels /\ AtOrAbove(c, slot[1]) /\ slot[2] \in Partners
  BY <1>5 DEF Below
<1>7. CASE slot[1] = c
  BY <1>5, <1>6, <1>7 DEF c
<1>8. CASE slot[1] # c
  <2>1. Full(c)
    BY <1>4, <1>5, <1>6, <1>8 DEF TreeInv, FullAbove, AtOrAbove
  <2>2. 0 \in Partners
    BY TreeAssumption DEF Partners
  <2> QED
    BY <2>1, <2>2 DEF Full, c
<1> QED
  BY <1>7, <1>8

(* RemoveNode never dereferences a nil target_node: getChildNodeAmount looks *)
(* at whole subtrees, the choice of target_node only at the panels below.    *)
THEOREM RemovalAlwaysHasCandidate == Spec => []PromotionHasCandidate
<1>1. TreeInv => PromotionHasCandidate
  BY CandidateFromInv
<1> QED
  BY <1>1, TreeInvariant, PTL

(* The effect of one step on a node that is in the tree before and after it. *)
LEMMA StepLifts == TreeInv /\ [Next]_vars => [Lifts]_vars
<1> SUFFICES ASSUME TreeInv, Next,
                    NEW c \in DOMAIN node \intersect DOMAIN node'
             PROVE  \/ node'[c] = node[c]
                    \/ /\ Above(node'[c].panel, node[c].panel)
                       /\ Len(node[c].panel) = Len(node'[c].panel) + 1
  BY DEF Lifts
<1>1. /\ depth \in Nat /\ made \in Nat /\ DOMAIN node \subseteq 1..made
      /\ \A x \in DOMAIN node :
            node[x] \in [id : NodeIDs, panel : Panels, partner : Partners]
  BY DEF TreeInv, TypeOK
<1>2. ASSUME NEW id \in NodeIDs, AddNode(id) PROVE node'[c] = node[c]
  <2>1. PICK d \in 1..(depth + 1) :
          \E p \in Level(d), j \in Partners : FreeSlot(d, p, j) /\ Place(id, d, p, j)
    BY <1>2 DEF AddNode
  <2>2. PICK p \in Level(d), j \in Partners : FreeSlot(d, p, j) /\ Place(id, d, p, j)
    BY <2>1
  <2> QED
    BY <1>1, <2>2 DEF Place
<1>3. ASSUME NEW id \in NodeIDs, RemoveNode(id)
      PROVE  \/ node'[c] = node[c]
             \/ /\ Above(node'[c].panel, node[c].panel)
                /\ Len(node[c].panel) = Len(node'[c].panel) + 1
  <2> DEFINE n == nodeMap[id]
             top == node[n].panel
  <2>1. n \in DOMAIN node
    BY <1>3 DEF TreeInv, MapLeadsIntoTree, RemoveNode
  <2>2. PICK last \in Panels :
          \E from \in [Route(top, last) -> Partners] :
            PromotionRoute(n, last, from) /\ Unplace(id, last, from)
    BY <1>3 DEF RemoveNode, Below
  <2>3. PICK from : PromotionRoute(n, last, from) /\ Unplace(id, last, from)
    BY <2>2
  <2> DEFINE inner == Route(top, last) \ {last}
  <2>4. \A p \in inner : node[Promoted(p, last, from)].panel = Toward(p, last)
    BY <2>1, <2>3, RouteFacts
  <2>5. node' = [x \in DOMAIN node \ {n} |->
                   IF \E p \in inner : x = Promoted(p, last, from)
                   THEN [node[x] EXCEPT
                           !.panel = CHOOSE p \in inner : x = Promoted(p, last, from),
                           !.partner = node[n].partner]
                   ELSE node[x]]
    BY <2>3 DEF Unplace
  <2>6. top \in Panels
    BY <1>1, <2>1
  <2>7. \A p \in inner : /\ Above(p, Toward(p, last))
                         /\ Len(Toward(p, last)) = Len(p) + 1
    BY <1>1, <2>6, RouteStep
  <2> HIDE DEF inner, n, top
  <2>8. CASE \E p \in inner : c = Promoted(p, last, from)
    <3> DEFINE q == CHOOSE p \in inner : c = Promoted(p, last, from)
    <3>1. q \in inner /\ c = Promoted(q, last, from)
      BY <2>8
    <3>2. node'[c].panel = q
      <4>1. node'[c] = [node[c] EXCEPT !.panel = q, !.partner = node[n].partner]
        BY <2>5, <2>8
      <4>2. node[c] \in [id : NodeIDs, panel : Panels, partner : Partners]
        BY <1>1
      <4> HIDE DEF q
      <4> QED
        BY <4>1, <4>2
    <3> HIDE DEF q
    <3> QED
      BY <2>4, <2>7, <3>1, <3>2
  <2>9. CASE ~\E p \in inner : c = Promoted(p, last, from)
    BY <2>5, <2>9
  <2> QED
    BY <2>8, <2>9
<1> QED
  BY <1>2, <1>3 DEF Next

(* A node that stays connected only ever rises, and by one level at a time.  *)
THEOREM RemovalLiftsOneLevel == Spec => OneLevelUp
<1>1. TreeInv /\ [Next]_vars => [Lifts]_vars
  BY StepLifts
<1> QED
  BY <1>1, TreeInvariant, PTL DEF Spec, OneLevelUp

----------------------------------------------------------------------------
(* AddNode and RemoveNode always find what they look for: no nil is        *)
(* dereferenced in pool.go.  The invariant above is shown to be enough.    *)
(*                                                                         *)
(* Instead of induction over the levels, the proofs take a least number:   *)
(* of the levels still below the loop, of an amount, of a slot.            *)

(* A set of numbers that is not empty has a least one. *)
LEMMA LeastNumber ==
  ASSUME NEW S, S \subseteq Nat, S # {}
  PROVE  \E x \in S : \A y \in S : x <= y
<1> DEFINE T == {1..n : n \in S}
           R == StrictSubsetOrdering(Nat)
<1>1. T \subseteq FiniteSubsetsOf(Nat) /\ T # {}
  <2>1. \A n \in S : IsFiniteSet(1..n) /\ 1..n \subseteq Nat
    BY FS_Interval
  <2> QED
    BY <2>1 DEF FiniteSubsetsOf
<1>2. IsWellFoundedOn(R, FiniteSubsetsOf(Nat))
  BY FS_StrictSubsetOrderingWellFounded
<1>3. PICK t \in T : \A u \in T : ~(<<u, t>> \in R)
  <2> HIDE DEF R, T
  <2> QED
    BY <1>1, <1>2, WFMin
<1>4. PICK x \in S : t = 1..x
  OBVIOUS
<1>5. ASSUME NEW y \in S, y < x PROVE FALSE
  <2>1. 1..y \in T /\ 1..y \subseteq 1..x /\ x \in 1..x /\ x \notin 1..y
    BY <1>5
  <2>2. <<1..y, 1..x>> \in R
    BY <2>1, <1>4, <1>1 DEF StrictSubsetOrdering
  <2> QED
    BY <1>3, <1>4, <2>1, <2>2
<1> QED
  BY <1>5

(* Of the paths of one length in a set, one comes last in the loops. *)
LEMMA LatestOf ==
  ASSUME NEW d \in Nat, NEW S, S \subseteq [1..d -> 0..2], S # {}
  PROVE  \E x \in S : \A y \in S : ~Later(y, x)
<1> DEFINE Digits == 0..2
           R == {ss \in Digits \X Digits : ss[1] > ss[2]}
           Lex == LexProductOrdering(R, Digits, d)
<1>1. IsWellFoundedOn(R, Digits)
  <2>1. ASSUME NEW T \in SUBSET Digits, T # {}
        PROVE  \E x \in T : \A y \in T : ~(<<y, x>> \in R)
    <3>1. CASE 2 \in T
      BY <3>1
    <3>2. CASE 2 \notin T /\ 1 \in T
      BY <3>2
    <3>3. CASE 2 \notin T /\ 1 \notin T
      <4>1. \A y \in T : y \in 0..2 /\ y # 1 /\ y # 2
        BY <2>1, <3>3
      <4>2. \A y \in T : y = 0
        BY <4>1
      <4>3. <<0, 0>> \notin R
        OBVIOUS
      <4> HIDE DEF R
      <4> QED
        BY <2>1, <4>2, <4>3
    <3> QED
      BY <3>1, <3>2, <3>3
  <2> HIDE DEF R, Digits
  <2> QED
    BY <2>1, MinWF
<1>2. IsWellFoundedOn(Lex, [1..d -> Digits])
  <2> HIDE DEF R, Digits
  <2> QED
    BY <1>1, WFLexProductOrdering
<1>3. \E x \in S : \A y \in S : ~(<<y, x>> \in Lex)
  <2> HIDE DEF Lex
  <2> QED
    BY <1>2, WFMin
<1>4. ASSUME NEW x \in S, NEW y \in S, Later(y, x)
      PROVE  <<y, x>> \in Lex
  <2>1. x \in [1..d -> Digits] /\ y \in [1..d -> Digits] /\ Len(y) = d
    OBVIOUS
  <2>2. PICK i \in 1..d : y[i] > x[i] /\ \A k \in 1..(i - 1) : y[k] = x[k]
    BY <1>4, <2>1 DEF Later
  <2>3. <<y[i], x[i]>> \in R
    BY <2>1, <2>2
  <2> QED
    BY <2>1, <2>2, <2>3 DEF LexProductOrdering
<1> QED
  BY <1>3, <1>4

(* Of two paths of one length, one comes after the other. *)
LEMMA LaterIsTotal ==
  ASSUME NEW d \in Nat, NEW p \in [1..d -> 0..2], NEW q \in [1..d -> 0..2], p # q
  PROVE  Later(p, q) \/ Later(q, p)
<1> DEFINE D == {i \in 1..d : p[i] # q[i]}
<1>1. D # {} /\ D \subseteq Nat
  OBVIOUS
<1>2. PICK i \in D : \A k \in D : i <= k
  BY <1>1, LeastNumber
<1>3. i \in 1..d /\ p[i] # q[i] /\ \A k \in 1..(i - 1) : p[k] = q[k]
  BY <1>2
<1>4. Len(p) = d /\ Len(q) = d /\ p[i] \in 0..2 /\ q[i] \in 0..2
  BY <1>3
<1> QED
  BY <1>3, <1>4 DEF Later

(* A loop with <= over panels or clusters finds an entry, and only one. *)
LEMMA OneLastLowest ==
  ASSUME NEW d \in Nat, NEW S, S \subseteq [1..d -> 0..2], S # {}, NEW amount \in [S -> Nat]
  PROVE  /\ \E x \in S : LastLowest(x, amount)
         /\ \A x, y \in S : LastLowest(x, amount) /\ LastLowest(y, amount) => x = y
<1>1. \E x \in S : LastLowest(x, amount)
  <2> DEFINE A == {amount[x] : x \in S}
  <2>1. A \subseteq Nat /\ A # {}
    OBVIOUS
  <2>2. PICK a \in A : \A b \in A : a <= b
    BY <2>1, LeastNumber
  <2> DEFINE L == {x \in S : amount[x] = a}
  <2>3. L \subseteq [1..d -> 0..2] /\ L # {}
    BY <2>2
  <2>4. PICK x \in L : \A y \in L : ~Later(y, x)
    BY <2>3, LatestOf
  <2>5. x \in S /\ amount[x] = a
    BY <2>4
  <2>6. ASSUME NEW y \in S
        PROVE  \/ amount[x] < amount[y]
               \/ amount[x] = amount[y] /\ ~Later(y, x)
    <3>1. amount[y] \in A /\ amount[y] \in Nat /\ a \in Nat /\ a <= amount[y]
      BY <2>1, <2>2
    <3>2. amount[y] = a => ~Later(y, x)
      BY <2>4
    <3> QED
      BY <2>5, <3>1, <3>2
  <2> QED
    BY <2>5, <2>6 DEF LastLowest
<1>2. ASSUME NEW x \in S, NEW y \in S, LastLowest(x, amount), LastLowest(y, amount)
      PROVE  x = y
  <2>1. DOMAIN amount = S /\ amount[x] \in Nat /\ amount[y] \in Nat
    OBVIOUS
  <2>2. ~Later(y, x) /\ ~Later(x, y)
    BY <1>2, <2>1 DEF LastLowest
  <2> QED
    BY <2>2, LaterIsTotal
<1> QED
  BY <1>1, <1>2

----------------------------------------------------------------------------
(* Removal *)

(* getChildNodeAmount counts finitely many nodes: a node is in one slot. *)
LEMMA CountedNodes ==
  ASSUME TreeInv, NEW p \in Panels
  PROVE  ChildNodeAmount(p) \in Nat
<1> DEFINE f == [s \in ChildNodes(p) |-> nodes[s[1]][s[2]]]
<1>1. /\ made \in Nat
      /\ nodes \in [Panels -> [Partners -> 0..made]]
      /\ DOMAIN node \subseteq 1..made
  BY DEF TreeInv, TypeOK
<1>2. \A s \in ChildNodes(p) : /\ s \in Panels \X Partners
                               /\ nodes[s[1]][s[2]] # Nil
  BY DEF ChildNodes, Below
<1>3. ASSUME NEW s \in ChildNodes(p)
      PROVE  /\ nodes[s[1]][s[2]] \in DOMAIN node
             /\ node[nodes[s[1]][s[2]]].panel = s[1]
             /\ node[nodes[s[1]][s[2]]].partner = s[2]
  <2>1. s[1] \in Panels /\ s[2] \in Partners /\ nodes[s[1]][s[2]] # Nil
    BY <1>2
  <2> QED
    BY <2>1 DEF TreeInv, SlotsMatchNodes
<1>4. f \in Injection(ChildNodes(p), 1..made)
  <2>1. f \in [ChildNodes(p) -> 1..made]
    BY <1>1, <1>3
  <2>2. ASSUME NEW s \in ChildNodes(p), NEW t \in ChildNodes(p), f[s] = f[t]
        PROVE  s = t
    <3>1. s[1] = t[1] /\ s[2] = t[2]
      BY <1>3, <2>2
    <3>2. s = <<s[1], s[2]>> /\ t = <<t[1], t[2]>>
      BY <1>2
    <3> QED
      BY <3>1, <3>2
  <2> QED
    BY <2>1, <2>2 DEF Injection, IsInjective
<1>5. IsFiniteSet(1..made)
  BY <1>1, FS_Interval
<1> HIDE DEF f
<1>6. IsFiniteSet(ChildNodes(p))
  BY <1>4, <1>5, FS_Injection
<1> QED
  BY <1>6, FS_CardinalityType DEF ChildNodeAmount

(* Of the slots in a set, one holds the node that was created last. *)
LEMMA LatestNode ==
  ASSUME TreeInv, NEW S, S \subseteq Panels \X Partners, S # {}
  PROVE  \E s \in S : \A t \in S : nodes[t[1]][t[2]] <= nodes[s[1]][s[2]]
<1> DEFINE A == {made - nodes[s[1]][s[2]] : s \in S}
<1>1. /\ made \in Nat
      /\ \A s \in S : nodes[s[1]][s[2]] \in 0..made
  <2>1. made \in Nat /\ nodes \in [Panels -> [Partners -> 0..made]]
    BY DEF TreeInv, TypeOK
  <2>2. \A s \in S : s[1] \in Panels /\ s[2] \in Partners
    OBVIOUS
  <2> QED
    BY <2>1, <2>2
<1>2. A \subseteq Nat /\ A # {}
  BY <1>1
<1>3. PICK a \in A : \A b \in A : a <= b
  BY <1>2, LeastNumber
<1>4. PICK s \in S : a = made - nodes[s[1]][s[2]]
  BY <1>3
<1>5. ASSUME NEW t \in S PROVE nodes[t[1]][t[2]] <= nodes[s[1]][s[2]]
  <2>1. made - nodes[s[1]][s[2]] <= made - nodes[t[1]][t[2]]
    BY <1>3, <1>4
  <2> QED
    BY <1>1, <2>1
<1> QED
  BY <1>5

(* Where the loop goes on, it finds a node to promote, whatever the partner *)
(* number: two nodes with it never tie, since they are different nodes.     *)
LEMMA SomePromotes ==
  ASSUME TreeInv, NEW p \in Panels, ~LoopEnds(p), NEW s \in Partners
  PROVE  \E k \in 0..1, j \in Partners : Promotes(p, s, Append(p, k), j)
<1> DEFINE A == Append(p, 0)
           B == Append(p, 1)
<1>1. /\ depth \in Nat /\ made \in Nat
      /\ nodes \in [Panels -> [Partners -> 0..made]]
  BY DEF TreeInv, TypeOK
<1>2. A \in Panels /\ B \in Panels /\ A # B
  <2>1. p \in Seq(0..2) /\ Len(p) < depth
    BY <1>1, PanelsByLength DEF Panels, LoopEnds
  <2>2. A \in Panels /\ B \in Panels
    BY <1>1, <2>1, ChildPanel
  <2>3. A[Len(p) + 1] = 0 /\ B[Len(p) + 1] = 1
    BY <2>1
  <2> QED
    BY <2>2, <2>3
<1>3. \E k \in 0..1, j \in Partners : nodes[Append(p, k)][j] # Nil
  BY CandidateFromInv DEF PromotionHasCandidate
<1>4. ASSUME NEW k \in 0..1, nodes[Append(p, k)][s] # Nil, nodes[Append(p, 1 - k)][s] = Nil
      PROVE  Promotes(p, s, Append(p, k), s)
  BY <1>4 DEF Promotes
<1>5. CASE nodes[A][s] # Nil /\ nodes[B][s] # Nil
  <2>1. ChildNodeAmount(A) \in Nat /\ ChildNodeAmount(B) \in Nat
    BY <1>2, CountedNodes
  <2>2. nodes[A][s] # nodes[B][s]
    <3>1. \A q \in Panels : nodes[q][s] # Nil => node[nodes[q][s]].panel = q
      BY DEF TreeInv, SlotsMatchNodes
    <3> HIDE DEF A, B
    <3> QED
      BY <1>2, <1>5, <3>1
  <2>3. nodes[A][s] \in Nat /\ nodes[B][s] \in Nat
    BY <1>1, <1>2
  <2> DEFINE Wins(q, other) ==
        \/ ChildNodeAmount(q) > ChildNodeAmount(other)
        \/ /\ ChildNodeAmount(q) = ChildNodeAmount(other)
           /\ nodes[q][s] > nodes[other][s]
  <2>4. Wins(A, B) \/ Wins(B, A)
    BY <2>1, <2>2, <2>3
  <2>5. ASSUME NEW k \in 0..1, Wins(Append(p, k), Append(p, 1 - k))
        PROVE  Promotes(p, s, Append(p, k), s)
    <3>1. nodes[Append(p, k)][s] # Nil /\ nodes[Append(p, 1 - k)][s] # Nil
      BY <1>5
    <3> QED
      BY <2>5, <3>1 DEF Promotes
  <2> HIDE DEF Wins
  <2>6. 1 - 0 = 1 /\ 1 - 1 = 0
    OBVIOUS
  <2> QED
    BY <2>4, <2>5, <2>6
<1>6. CASE nodes[A][s] = Nil /\ nodes[B][s] = Nil
  <2> DEFINE S == {A, B} \X Partners
  <2>1. S \subseteq Panels \X Partners /\ S # {}
    <3>1. <<A, s>> \in S
      OBVIOUS
    <3> HIDE DEF A, B
    <3> QED
      BY <1>2, <3>1
  <2>2. PICK t \in S : \A u \in S : nodes[u[1]][u[2]] <= nodes[t[1]][t[2]]
    BY <2>1, LatestNode
  <2>3. t[1] \in {A, B} /\ t[2] \in Partners
    OBVIOUS
  <2>4. \A q \in {A, B}, i \in Partners : nodes[q][i] <= nodes[t[1]][t[2]]
    <3>1. ASSUME NEW q \in {A, B}, NEW i \in Partners
          PROVE  nodes[q][i] <= nodes[t[1]][t[2]]
      <4>1. <<q, i>> \in S
        OBVIOUS
      <4> QED
        BY <2>2, <4>1
    <3> QED
      BY <3>1
  <2>5. nodes[t[1]][t[2]] # Nil
    <3>1. PICK q \in {A, B}, i \in Partners : nodes[q][i] # Nil
      BY <1>3
    <3>2. nodes[q][i] \in Nat
      <4>1. q \in Panels
        BY <1>2
      <4> QED
        BY <1>1, <4>1
    <3>3. nodes[q][i] <= nodes[t[1]][t[2]]
      BY <2>4
    <3> QED
      BY <3>1, <3>2, <3>3 DEF Nil
  <2>6. ASSUME NEW k \in 0..1, t[1] = Append(p, k)
        PROVE  Promotes(p, s, Append(p, k), t[2])
    <3>1. Append(p, k) \in {A, B} /\ Append(p, 1 - k) \in {A, B}
      OBVIOUS
    <3>2. nodes[Append(p, k)][s] = Nil /\ nodes[Append(p, 1 - k)][s] = Nil
      BY <1>6
    <3>3. \A i \in Partners : /\ nodes[Append(p, k)][i] <= nodes[Append(p, k)][t[2]]
                              /\ nodes[Append(p, 1 - k)][i] <= nodes[Append(p, k)][t[2]]
      BY <2>4, <2>6, <3>1
    <3> QED
      BY <2>3, <2>5, <2>6, <3>2, <3>3 DEF Promotes
  <2> QED
    BY <2>3, <2>6
<1>7. CASE (nodes[A][s] = Nil) # (nodes[B][s] = Nil)
  <2>1. CASE nodes[A][s] # Nil
    BY <1>4, <1>7, <2>1
  <2>2. CASE nodes[B][s] # Nil
    BY <1>4, <1>7, <2>2
  <2> QED
    BY <1>7, <2>1, <2>2
<1> QED
  BY <1>5, <1>6, <1>7

(* The route to a child panel is the route to its connector and the child. *)
LEMMA RouteGrows ==
  ASSUME depth \in Nat, NEW top \in Panels, NEW p \in Panels, AtOrAbove(top, p),
         NEW k \in 0..1, Append(p, k) \in Panels
  PROVE  LET q == Append(p, k) IN
         /\ AtOrAbove(top, q) /\ top # q /\ q \notin Route(top, p)
         /\ Route(top, q) = Route(top, p) \union {q}
         /\ Toward(p, q) = q
         /\ \A r \in Route(top, p) \ {p} : Toward(r, q) = Toward(r, p)
<1> DEFINE q == Append(p, k)
<1>1. /\ p \in Seq(0..2) /\ Len(q) = Len(p) + 1
      /\ Above(p, q)
      /\ \A i \in 1..Len(p) : q[i] = p[i]
  <2>1. p \in Seq(0..2)
    BY PanelsByLength DEF Panels
  <2> QED
    BY <2>1 DEF Above
<1>2. q \in Panels /\ q \in Seq(0..2)
  BY PanelsByLength DEF Panels
<1>3. Toward(p, q) = q
  BY <1>1, <1>2 DEF Toward
<1> HIDE DEF q
<1>4. Above(top, q)
  BY <1>1, <1>2, AboveTransitive DEF AtOrAbove
<1>5. AtOrAbove(top, q) /\ top # q
  BY <1>1, <1>2, <1>4 DEF AtOrAbove, Above
<1>6. \A r \in Panels : AtOrAbove(r, q) <=> AtOrAbove(r, p) \/ r = q
  <2>1. ASSUME NEW r \in Panels, AtOrAbove(r, p) PROVE AtOrAbove(r, q)
    BY <1>1, <1>2, <2>1, AboveTransitive DEF AtOrAbove
  <2>2. ASSUME NEW r \in Panels, Above(r, q) PROVE AtOrAbove(r, p)
    <3>1. r \in Seq(0..2) /\ Len(r) <= Len(p)
      BY <1>1, <2>2, PanelsByLength DEF Panels, Above
    <3>2. Len(r) < Len(p) => Above(r, p)
      BY <1>2, <1>1, <2>2, OnOneWay DEF AtOrAbove
    <3>3. Len(r) = Len(p) => r = p
      BY <1>2, <1>1, <2>2, OnOneWay DEF AtOrAbove
    <3> QED
      BY <1>1, <3>1, <3>2, <3>3 DEF AtOrAbove
  <2>3. AtOrAbove(q, q)
    BY DEF AtOrAbove
  <2> QED
    BY <2>1, <2>2, <2>3 DEF AtOrAbove
<1>7. q \notin Route(top, p)
  <2>1. ~AtOrAbove(q, p)
    BY <1>1, <1>2 DEF AtOrAbove, Above
  <2> QED
    BY <2>1 DEF Route
<1>8. Route(top, q) = Route(top, p) \union {q}
  BY <1>2, <1>5, <1>6 DEF Route
<1>9. ASSUME NEW r \in Route(top, p), r # p
      PROVE  Toward(r, q) = Toward(r, p)
  <2>1. r \in Route(top, q) /\ r # q
    BY <1>7, <1>8, <1>9
  <2>2. Toward(r, q) \in Route(top, q) /\ Len(Toward(r, q)) = Len(r) + 1
    BY <1>2, <2>1, RouteStep
  <2>3. Toward(r, p) \in Route(top, p) /\ Len(Toward(r, p)) = Len(r) + 1
    BY <1>9, RouteStep
  <2>4. Toward(r, p) \in Route(top, q)
    BY <1>8, <2>3
  <2>5. /\ Toward(r, q) \in Panels /\ AtOrAbove(Toward(r, q), q)
        /\ Toward(r, p) \in Panels /\ AtOrAbove(Toward(r, p), q)
    BY <2>2, <2>4 DEF Route
  <2> HIDE DEF Toward
  <2> QED
    BY <1>2, <2>2, <2>3, <2>5, OnOneWay
<1> QED
  BY <1>3, <1>5, <1>7, <1>8, <1>9 DEF q

(* The loop of RemoveNode for n has got to panel p, having emptied from[q] in *)
(* every panel q it passed.                                                   *)
ReachedBy(n, p, from) ==
  LET top == node[n].panel
      s   == node[n].partner
  IN /\ AtOrAbove(top, p)
     /\ from \in [Route(top, p) -> Partners]
     /\ from[top] = s
     /\ \A r \in Route(top, p) \ {p} :
          ~LoopEnds(r) /\ Promotes(r, s, Toward(r, p), from[Toward(r, p)])

(* The loop goes on from a panel to one a level further down. *)
LEMMA Onward ==
  ASSUME TreeInv, NEW n \in DOMAIN node, NEW p \in Panels, NEW from,
         ReachedBy(n, p, from), ~LoopEnds(p)
  PROVE  \E q \in Panels : Len(q) = Len(p) + 1 /\ \E onward : ReachedBy(n, q, onward)
<1> DEFINE top == node[n].panel
           s == node[n].partner
<1>1. depth \in Nat /\ top \in Panels /\ s \in Partners
  BY DEF TreeInv, TypeOK
<1>2. /\ AtOrAbove(top, p)
      /\ from \in [Route(top, p) -> Partners]
      /\ from[top] = s
      /\ \A r \in Route(top, p) \ {p} :
           ~LoopEnds(r) /\ Promotes(r, s, Toward(r, p), from[Toward(r, p)])
  BY DEF ReachedBy
<1> HIDE DEF top, s
<1>3. PICK k \in 0..1, j \in Partners : Promotes(p, s, Append(p, k), j)
  BY <1>1, SomePromotes
<1> DEFINE q == Append(p, k)
<1>4. q \in Panels /\ Len(q) = Len(p) + 1
  <2>1. Len(p) < depth
    BY <1>1, PanelsByLength DEF Panels, LoopEnds
  <2> QED
    BY <1>1, <2>1, ChildPanel
<1>5. /\ AtOrAbove(top, q) /\ top # q /\ q \notin Route(top, p)
      /\ Route(top, q) = Route(top, p) \union {q}
      /\ Toward(p, q) = q
      /\ \A r \in Route(top, p) \ {p} : Toward(r, q) = Toward(r, p)
  BY <1>1, <1>2, <1>4, RouteGrows
<1>6. Promotes(p, s, q, j)
  BY <1>3
<1> HIDE DEF q
<1> DEFINE onward == [r \in Route(top, q) |-> IF r = q THEN j ELSE from[r]]
<1>7. onward \in [Route(top, q) -> Partners]
  BY <1>2, <1>5
<1>8. onward[top] = s
  <2>1. top \in Route(top, p)
    BY <1>1, <1>2 DEF Route, AtOrAbove
  <2> QED
    BY <1>2, <1>5, <2>1
<1>9. ASSUME NEW r \in Route(top, q) \ {q}
      PROVE  ~LoopEnds(r) /\ Promotes(r, s, Toward(r, q), onward[Toward(r, q)])
  <2>1. CASE r = p
    <3>1. onward[q] = j
      BY <1>5
    <3> QED
      BY <1>5, <1>6, <2>1, <3>1
  <2>2. CASE r # p
    <3>1. r \in Route(top, p) \ {p}
      BY <1>5, <2>2
    <3>2. Toward(r, q) = Toward(r, p) /\ Toward(r, p) \in Route(top, p)
      BY <1>1, <1>5, <3>1, RouteStep
    <3>3. onward[Toward(r, q)] = from[Toward(r, p)]
      BY <1>5, <3>2
    <3> QED
      BY <1>2, <3>1, <3>2, <3>3
  <2> QED
    BY <2>1, <2>2
<1>10. ReachedBy(n, q, onward)
  BY <1>5, <1>7, <1>8, <1>9 DEF ReachedBy, top, s
<1> QED
  BY <1>4, <1>10

(* Of the panels that the loop reaches, it ends in the lowest. *)
LEMMA RemovalFromInv == TreeInv => RemovalDefined
<1> SUFFICES ASSUME TreeInv, NEW id \in NodeIDs, nodeMap[id] # Nil
             PROVE  \E last \in Below(node[nodeMap[id]].panel) :
                      \E from \in [Route(node[nodeMap[id]].panel, last) -> Partners] :
                        PromotionRoute(nodeMap[id], last, from)
  BY DEF RemovalDefined
<1> DEFINE n == nodeMap[id]
           top == node[n].panel
           s == node[n].partner
           Reached == {p \in Panels : \E from : ReachedBy(n, p, from)}
           Left == {depth - Len(p) : p \in Reached}
<1>1. n \in DOMAIN node
  BY DEF TreeInv, MapLeadsIntoTree
<1>2. depth \in Nat /\ top \in Panels /\ s \in Partners
  BY <1>1 DEF TreeInv, TypeOK
<1> HIDE DEF n
<1>3. top \in Reached
  <2>1. Route(top, top) = {top}
    <3>1. \A q \in Panels : AtOrAbove(top, q) /\ AtOrAbove(q, top) => q = top
      BY <1>2, PanelsByLength DEF AtOrAbove, Above, Panels
    <3> QED
      BY <1>2, <3>1 DEF Route, AtOrAbove
  <2>2. ReachedBy(n, top, [q \in {top} |-> s])
    BY <1>2, <2>1 DEF ReachedBy, AtOrAbove
  <2> QED
    BY <1>2, <2>2
<1>4. Left \subseteq Nat /\ Left # {}
  <2>1. \A p \in Panels : Len(p) \in 1..depth
    BY <1>2, PanelsByLength DEF Panels
  <2> QED
    BY <1>2, <1>3, <2>1
<1>5. PICK l \in Left : \A m \in Left : l <= m
  BY <1>4, LeastNumber
<1>6. PICK last \in Reached : l = depth - Len(last)
  BY <1>5
<1>7. PICK from : ReachedBy(n, last, from)
  BY <1>6
<1>8. LoopEnds(last)
  <2> SUFFICES ASSUME ~LoopEnds(last) PROVE FALSE
    OBVIOUS
  <2>1. PICK q \in Panels : Len(q) = Len(last) + 1 /\ \E onward : ReachedBy(n, q, onward)
    BY <1>1, <1>7, Onward
  <2>2. depth - Len(q) \in Left
    BY <2>1
  <2>3. Len(last) \in Nat
    BY <1>2, PanelsByLength DEF Panels
  <2>4. l <= depth - Len(q)
    BY <1>5, <2>2
  <2> HIDE DEF Left, Reached
  <2> QED
    BY <1>2, <1>6, <2>1, <2>3, <2>4
<1>9. PromotionRoute(n, last, from) /\ last \in Below(top) /\ from \in [Route(top, last) -> Partners]
  BY <1>7, <1>8 DEF ReachedBy, PromotionRoute, Below
<1> QED
  BY <1>9 DEF n

(* The promotion loop of RemoveNode runs to its end for every node in    *)
(* NodeMap: target_node is never nil, and one of the two child panels is *)
(* chosen in every case of the comparison.                               *)
THEOREM RemovalAlwaysDefined == Spec => []RemovalDefined
<1>1. TreeInv => RemovalDefined
  BY RemovalFromInv
<1> QED
  BY <1>1, TreeInvariant, PTL

----------------------------------------------------------------------------
(* Placement *)

(* Clusters are named by paths, and no level is without one. *)
LEMMA ClusterIsPath ==
  ASSUME NEW d \in Nat \ {0}
  PROVE  /\ Clusters(d) \subseteq [1..(d - 1) -> 0..2] /\ Clusters(d) # {}
         /\ \A c \in Clusters(d) : /\ c \in Seq(0..2) /\ Len(c) = d - 1
                                   /\ \A i \in 2..(d - 1) : c[i] # 2
<1>1. CASE d = 1
  BY <1>1 DEF Clusters
<1>2. CASE d # 1
  <2>1. Clusters(d) = Level(d - 1) /\ d - 1 \in Nat
    BY <1>2 DEF Clusters
  <2>2. [i \in 1..(d - 1) |-> 0] \in Level(d - 1)
    BY DEF Level
  <2>3. \A c \in Level(d - 1) : /\ c \in Seq(0..2) /\ Len(c) = d - 1
                                /\ \A i \in 2..(d - 1) : c[i] # 2
    BY <2>1, LevelIsPath
  <2>4. Level(d - 1) \subseteq [1..(d - 1) -> 0..2]
    BY DEF Level
  <2> QED
    BY <2>1, <2>2, <2>3, <2>4
<1> QED
  BY <1>1, <1>2

(* The numbers that panels of one cluster have: panels_num of AddNode. *)
PanelNumbers(d) == IF d = 1 THEN 0..2 ELSE 0..1

(* The own panels of a cluster, by their number. *)
LEMMA OwnPanelsByNumber ==
  ASSUME NEW d \in Nat \ {0}, NEW c \in Clusters(d)
  PROVE  /\ OwnPanels(c) \subseteq Level(d)
         /\ \A k \in PanelNumbers(d) : Append(c, k) \in OwnPanels(c)
         /\ \A p \in OwnPanels(c) : p[d] \in PanelNumbers(d) /\ p = Append(c, p[d])
<1>1. /\ c \in Seq(0..2) /\ Len(c) = d - 1
      /\ \A i \in 2..(d - 1) : c[i] # 2
  BY ClusterIsPath
<1>2. OwnPanels(c) \subseteq Level(d) /\ \A p \in OwnPanels(c) : \A i \in 1..(d - 1) : p[i] = c[i]
  BY <1>1 DEF OwnPanels
<1>3. ASSUME NEW k \in PanelNumbers(d)
      PROVE  Append(c, k) \in OwnPanels(c)
  <2> DEFINE p == Append(c, k)
  <2>1. p \in Seq(0..2) /\ Len(p) = d /\ p[d] = k /\ \A i \in 1..(d - 1) : p[i] = c[i]
    BY <1>1 DEF PanelNumbers
  <2> HIDE DEF p
  <2>2. \A i \in 2..d : p[i] # 2
    <3>1. ASSUME NEW i \in 2..d PROVE p[i] # 2
      <4>1. CASE i = d
        BY <2>1, <4>1 DEF PanelNumbers
      <4>2. CASE i # d
        BY <1>1, <2>1, <4>2
      <4> QED
        BY <4>1, <4>2
    <3> QED
      BY <3>1
  <2>3. p \in Level(d)
    BY <2>1, <2>2, PathIsLevel
  <2>4. p \in OwnPanels(c)
    BY <1>1, <2>1, <2>3 DEF OwnPanels
  <2> QED
    BY <2>4 DEF p
<1>4. ASSUME NEW p \in OwnPanels(c)
      PROVE  p[d] \in PanelNumbers(d) /\ p = Append(c, p[d])
  <2>1. /\ p \in Seq(0..2) /\ Len(p) = d /\ p[d] \in 0..2
        /\ \A i \in 2..d : p[i] # 2
        /\ \A i \in 1..(d - 1) : p[i] = c[i]
    BY <1>2, LevelIsPath
  <2>2. p[d] \in PanelNumbers(d)
    BY <2>1 DEF PanelNumbers
  <2> DEFINE q == Append(c, p[d])
  <2>3. q \in Seq(0..2) /\ Len(q) = d /\ q[d] = p[d] /\ \A i \in 1..(d - 1) : q[i] = c[i]
    BY <1>1, <2>1
  <2> HIDE DEF q
  <2>4. \A i \in 1..d : q[i] = p[i]
    <3>1. \A i \in 1..d : i = d \/ i \in 1..(d - 1)
      OBVIOUS
    <3> QED
      BY <2>1, <2>3, <3>1
  <2>5. p = q
    BY <2>1, <2>3, <2>4
  <2> QED
    BY <2>2, <2>5 DEF q
<1> QED
  BY <1>2, <1>3, <1>4

(* Every panel is an own panel of a cluster. *)
LEMMA PanelInCluster ==
  ASSUME NEW d \in Nat \ {0}, NEW p \in Level(d)
  PROVE  \E c \in Clusters(d) : p \in OwnPanels(c)
<1>1. p \in Seq(0..2) /\ Len(p) = d /\ \A i \in 2..d : p[i] # 2
  BY LevelIsPath
<1>2. CASE d = 1
  <2>1. p \in OwnPanels(<<>>)
    BY <1>2 DEF OwnPanels
  <2> QED
    BY <1>2, <2>1 DEF Clusters
<1>3. CASE d # 1
  <2> DEFINE c == SubSeq(p, 1, d - 1)
  <2>1. c \in Seq(0..2) /\ Len(c) = d - 1 /\ \A i \in 1..(d - 1) : c[i] = p[i]
    BY <1>1
  <2> HIDE DEF c
  <2>2. c \in Level(d - 1)
    BY <1>1, <1>3, <2>1, PathIsLevel
  <2>3. p \in OwnPanels(c)
    BY <1>1, <2>1 DEF OwnPanels
  <2> QED
    BY <1>3, <2>2, <2>3 DEF Clusters
<1> QED
  BY <1>2, <1>3

(* The clusters of one level have the same number of slots. *)
LEMMA ClusterSizes ==
  ASSUME NEW d \in Nat \ {0}, NEW c \in Clusters(d)
  PROVE  /\ IsFiniteSet(OwnPanels(c) \X Partners)
         /\ Cardinality(OwnPanels(c) \X Partners) =
              Cardinality(PanelNumbers(d)) * Cardinality(Partners)
<1> DEFINE f == [k \in PanelNumbers(d) |-> Append(c, k)]
<1>1. f \in Bijection(PanelNumbers(d), OwnPanels(c))
  <2>1. f \in [PanelNumbers(d) -> OwnPanels(c)]
    BY OwnPanelsByNumber
  <2>2. \A p \in OwnPanels(c) : p[d] \in PanelNumbers(d) /\ f[p[d]] = p
    BY OwnPanelsByNumber
  <2>3. ASSUME NEW k \in PanelNumbers(d), NEW m \in PanelNumbers(d), f[k] = f[m]
        PROVE  k = m
    <3>1. c \in Seq(0..2) /\ Len(c) = d - 1
      BY ClusterIsPath
    <3>2. Append(c, k)[d] = k /\ Append(c, m)[d] = m
      BY <3>1 DEF PanelNumbers
    <3> QED
      BY <2>3, <3>2
  <2>4. \A p \in OwnPanels(c) : \E k \in PanelNumbers(d) : f[k] = p
    BY <2>2
  <2> HIDE DEF f
  <2> QED
    BY <2>1, <2>3, <2>4 DEF Bijection, Injection, Surjection, IsInjective
<1>2. IsFiniteSet(PanelNumbers(d)) /\ IsFiniteSet(Partners)
  <2>1. PanelSize - 1 \in Int
    BY TreeAssumption
  <2>2. \A a, b \in Int : IsFiniteSet(a..b)
    BY FS_Interval
  <2>0. 0 \in Int /\ 1 \in Int /\ 2 \in Int
    OBVIOUS
  <2>3. IsFiniteSet(0..2)
    BY <2>0, <2>2, Zenon
  <2>4. IsFiniteSet(0..1)
    BY <2>0, <2>2, Zenon
  <2>5. IsFiniteSet(Partners)
    BY <2>1, <2>2 DEF Partners
  <2>6. IsFiniteSet(PanelNumbers(d))
    BY <2>3, <2>4 DEF PanelNumbers
  <2> QED
    BY <2>5, <2>6
<1>3. IsFiniteSet(OwnPanels(c)) /\ Cardinality(OwnPanels(c)) = Cardinality(PanelNumbers(d))
  <2> HIDE DEF f
  <2> QED
    BY <1>1, <1>2, FS_Bijection DEF ExistsBijection
<1> QED
  BY <1>2, <1>3, FS_Product

(* A panel's amount is the highest there is when the panel is full. *)
LEMMA PanelAmounts ==
  ASSUME NEW tree, NEW p
  PROVE  /\ PanelAmount(tree, p) \in Nat
         /\ PanelAmount(tree, p) <= Cardinality(Partners)
         /\ PanelAmount(tree, p) = Cardinality(Partners) <=> \A j \in Partners : tree[p][j] # Nil
<1> DEFINE T == {j \in Partners : tree[p][j] # Nil}
<1>1. IsFiniteSet(Partners)
  BY FS_Interval, TreeAssumption DEF Partners
<1>2. T \in SUBSET Partners
  OBVIOUS
<1> HIDE DEF T
<1>3. /\ IsFiniteSet(T) /\ Cardinality(T) <= Cardinality(Partners)
      /\ Cardinality(Partners) = Cardinality(T) => Partners = T
  BY <1>1, <1>2, FS_Subset
<1>4. Cardinality(T) \in Nat
  BY <1>3, FS_CardinalityType
<1> USE DEF T
<1>5. T = Partners <=> \A j \in Partners : tree[p][j] # Nil
  OBVIOUS
<1> QED
  BY <1>3, <1>4, <1>5 DEF PanelAmount

(* A cluster's amount is the highest there is when its panels are full. *)
LEMMA ClusterAmounts ==
  ASSUME NEW d \in Nat \ {0}, NEW c \in Clusters(d), NEW tree
  PROVE  LET most == Cardinality(PanelNumbers(d)) * Cardinality(Partners) IN
         /\ ClusterAmount(tree, c) \in Nat
         /\ most \in Nat
         /\ ClusterAmount(tree, c) <= most
         /\ ClusterAmount(tree, c) = most <=>
              \A p \in OwnPanels(c), j \in Partners : tree[p][j] # Nil
<1> DEFINE All == OwnPanels(c) \X Partners
           T == {s \in All : tree[s[1]][s[2]] # Nil}
<1>1. /\ IsFiniteSet(All)
      /\ Cardinality(All) = Cardinality(PanelNumbers(d)) * Cardinality(Partners)
  BY ClusterSizes
<1>2. T \in SUBSET All
  OBVIOUS
<1>3. T = All <=> \A p \in OwnPanels(c), j \in Partners : tree[p][j] # Nil
  <2>1. ASSUME T = All, NEW p \in OwnPanels(c), NEW j \in Partners
        PROVE  tree[p][j] # Nil
    <3>1. <<p, j>> \in T
      BY <2>1
    <3> QED
      BY <3>1
  <2>2. ASSUME \A p \in OwnPanels(c), j \in Partners : tree[p][j] # Nil
        PROVE  T = All
    <3>1. \A s \in All : s[1] \in OwnPanels(c) /\ s[2] \in Partners
      OBVIOUS
    <3> QED
      BY <2>2, <3>1
  <2> QED
    BY <2>1, <2>2
<1> HIDE DEF T, All
<1>4. /\ IsFiniteSet(T) /\ Cardinality(T) <= Cardinality(All)
      /\ Cardinality(All) = Cardinality(T) => All = T
  BY <1>1, <1>2, FS_Subset
<1>5. Cardinality(T) \in Nat /\ Cardinality(All) \in Nat
  BY <1>1, <1>4, FS_CardinalityType
<1>6. ClusterAmount(tree, c) = Cardinality(T)
  BY DEF ClusterAmount, T, All
<1> QED
  BY <1>1, <1>3, <1>4, <1>5, <1>6

(* There is a level for AddNode, the last one or one before it, and a free *)
(* slot on that level.                                                     *)
LEMMA LevelIsFree ==
  ASSUME depth \in Nat \ {0}
  PROVE  \E d \in 1..(depth + 1) :
           FreeLevel(d) /\ \E p \in Level(d), j \in Partners : Grown(d)[p][j] = Nil
<1> DEFINE D == {d \in 1..(depth + 1) : d = depth + 1 \/ ~\A q \in Level(d) : Full(q)}
<1>1. D \subseteq Nat /\ depth + 1 \in D
  OBVIOUS
<1>2. PICK d \in D : \A e \in D : d <= e
  BY <1>1, LeastNumber
<1>3. d \in 1..(depth + 1) /\ (d <= depth => ~\A q \in Level(d) : Full(q))
  BY <1>2
<1>4. ASSUME NEW q \in Panels, Len(q) < d PROVE Full(q)
  <2>1. Len(q) \in 1..depth /\ q \in Level(Len(q))
    BY PanelsByLength DEF Panels
  <2>2. Len(q) \notin D
    BY <1>2, <1>3, <1>4, <2>1
  <2> QED
    BY <2>1, <2>2
<1> HIDE DEF D
<1>5. FreeLevel(d)
  BY <1>3, <1>4 DEF FreeLevel
<1>6. \A p \in Level(d) : p \in PanelsTo(d) /\ Len(p) = d
  BY <1>3, PanelsByLength, LevelIsPath
<1>7. CASE d <= depth
  <2>1. PICK p \in Level(d), j \in Partners : nodes[p][j] = Nil
    BY <1>3, <1>7 DEF Full
  <2>2. Grown(d)[p] = nodes[p]
    BY <1>6, <1>7, <2>1 DEF Grown
  <2> QED
    BY <1>3, <1>5, <2>1, <2>2
<1>8. CASE ~(d <= depth)
  <2>1. PICK c \in Clusters(d) : TRUE
    BY <1>3, ClusterIsPath
  <2>2. 0 \in PanelNumbers(d) /\ 0 \in Partners
    BY TreeAssumption DEF PanelNumbers, Partners
  <2>3. Append(c, 0) \in Level(d)
    BY <1>3, <2>2, OwnPanelsByNumber
  <2>4. Grown(d)[Append(c, 0)] = [j \in Partners |-> Nil]
    BY <1>6, <1>8, <2>3, <1>3 DEF Grown
  <2> QED
    BY <1>3, <1>5, <2>2, <2>3, <2>4
<1> QED
  BY <1>7, <1>8

(* On a level with a free slot, AddNode takes exactly one: the emptiest      *)
(* cluster is not full when any is not, since all have the same size; nor is *)
(* its emptiest panel.                                                       *)
LEMMA SlotIsFound ==
  ASSUME NEW d \in Nat \ {0}, NEW q \in Level(d), NEW i \in Partners, Grown(d)[q][i] = Nil
  PROVE  Cardinality({s \in Level(d) \X Partners : FreeSlot(d, s[1], s[2])}) = 1
<1> DEFINE tree == Grown(d)
           amounts == [e \in Clusters(d) |-> ClusterAmount(tree, e)]
           own(c) == [p \in OwnPanels(c) |-> PanelAmount(tree, p)]
           most == Cardinality(PanelNumbers(d)) * Cardinality(Partners)
<1>1. PICK c \in Clusters(d) :
        LastLowest(c, amounts) /\ \A e \in Clusters(d) : LastLowest(e, amounts) => e = c
  <2>1. amounts \in [Clusters(d) -> Nat]
    BY ClusterAmounts
  <2>2. Clusters(d) \subseteq [1..(d - 1) -> 0..2] /\ Clusters(d) # {}
    BY ClusterIsPath
  <2>3. d - 1 \in Nat
    OBVIOUS
  <2> HIDE DEF amounts
  <2>4. /\ \E x \in Clusters(d) : LastLowest(x, amounts)
        /\ \A x, y \in Clusters(d) : LastLowest(x, amounts) /\ LastLowest(y, amounts) => x = y
    BY <2>1, <2>2, <2>3, OneLastLowest
  <2> QED
    BY <2>4
<1>2. \E p \in OwnPanels(c), j \in Partners : tree[p][j] = Nil
  <2>1. PICK e \in Clusters(d) : q \in OwnPanels(e)
    BY PanelInCluster
  <2>2. ClusterAmount(tree, e) # most
    BY <2>1, ClusterAmounts
  <2>3. amounts[c] <= amounts[e]
    <3>1. amounts[c] < amounts[e] \/ amounts[c] = amounts[e]
      BY <1>1 DEF LastLowest
    <3>2. amounts[c] \in Nat /\ amounts[e] \in Nat
      BY ClusterAmounts
    <3> QED
      BY <3>1, <3>2
  <2>4. ClusterAmount(tree, c) # most
    <3>1. /\ ClusterAmount(tree, e) \in Nat /\ ClusterAmount(tree, c) \in Nat /\ most \in Nat
          /\ ClusterAmount(tree, e) <= most
      BY ClusterAmounts
    <3>2. ClusterAmount(tree, c) <= ClusterAmount(tree, e)
      BY <2>3
    <3> HIDE DEF most, tree
    <3> QED
      BY <2>2, <3>1, <3>2
  <2> QED
    BY <2>4, ClusterAmounts
<1>3. OwnPanels(c) \subseteq Level(d) /\ OwnPanels(c) \subseteq [1..d -> 0..2] /\ OwnPanels(c) # {}
  <2>1. OwnPanels(c) \subseteq Level(d)
    BY OwnPanelsByNumber
  <2> QED
    BY <1>2, <2>1 DEF Level
<1>4. PICK p \in OwnPanels(c) :
        LastLowest(p, own(c)) /\ \A r \in OwnPanels(c) : LastLowest(r, own(c)) => r = p
  <2> DEFINE mine == own(c)
  <2>1. mine \in [OwnPanels(c) -> Nat]
    BY PanelAmounts
  <2> HIDE DEF mine
  <2>2. /\ \E x \in OwnPanels(c) : LastLowest(x, mine)
        /\ \A x, y \in OwnPanels(c) : LastLowest(x, mine) /\ LastLowest(y, mine) => x = y
    BY <1>3, <2>1, OneLastLowest
  <2>3. PICK p \in OwnPanels(c) :
          LastLowest(p, mine) /\ \A r \in OwnPanels(c) : LastLowest(r, mine) => r = p
    BY <2>2
  <2> QED
    BY <2>3 DEF mine
<1>5. \E j \in Partners : tree[p][j] = Nil
  <2>1. PICK r \in OwnPanels(c), j \in Partners : tree[r][j] = Nil
    BY <1>2
  <2>2. own(c)[p] < own(c)[r] \/ own(c)[p] = own(c)[r]
    BY <1>4 DEF LastLowest
  <2>3. /\ PanelAmount(tree, p) \in Nat /\ PanelAmount(tree, r) \in Nat
        /\ PanelAmount(tree, r) <= Cardinality(Partners)
        /\ PanelAmount(tree, r) # Cardinality(Partners)
        /\ PanelAmount(tree, p) = Cardinality(Partners) <=> \A k \in Partners : tree[p][k] # Nil
    BY <2>1, PanelAmounts
  <2>4. Cardinality(Partners) \in Nat
    <3>1. PanelSize - 1 \in Int /\ \A a, b \in Int : IsFiniteSet(a..b)
      BY FS_Interval, TreeAssumption
    <3>2. IsFiniteSet(Partners)
      BY <3>1 DEF Partners
    <3> QED
      BY <3>2, FS_CardinalityType
  <2>5. PanelAmount(tree, p) < PanelAmount(tree, r) \/ PanelAmount(tree, p) = PanelAmount(tree, r)
    BY <2>2
  <2>6. PanelAmount(tree, p) # Cardinality(Partners)
    <3> HIDE DEF tree
    <3> QED
      BY <2>3, <2>4, <2>5
  <2> QED
    BY <2>3, <2>6
<1> DEFINE F == {j \in Partners : tree[p][j] = Nil}
<1>6. PICK j \in F : \A k \in F : j <= k
  <2>1. F \subseteq Nat /\ F # {}
    BY <1>5 DEF Partners
  <2> HIDE DEF F
  <2> QED
    BY <2>1, LeastNumber
<1>7. j \in Partners /\ tree[p][j] = Nil /\ \A k \in 0..(j - 1) : tree[p][k] # Nil
  <2>1. j \in 0..(PanelSize - 1) /\ PanelSize \in Nat
    BY TreeAssumption DEF Partners
  <2>2. ASSUME NEW k \in 0..(j - 1), tree[p][k] = Nil PROVE FALSE
    <3>1. k \in F
      BY <2>1, <2>2 DEF Partners
    <3>2. j <= k
      BY <1>6, <3>1
    <3> QED
      BY <2>1, <3>2
  <2> QED
    BY <2>2
<1>8. FreeSlot(d, p, j)
  BY <1>1, <1>4, <1>7 DEF FreeSlot
<1>9. ASSUME NEW r \in Level(d), NEW k \in Partners, FreeSlot(d, r, k)
      PROVE  r = p /\ k = j
  <2>1. PICK e \in Clusters(d) : LastLowest(e, amounts) /\ r \in OwnPanels(e) /\ LastLowest(r, own(e))
    BY <1>9 DEF FreeSlot
  <2>2. e = c
    BY <1>1, <2>1
  <2>3. r = p
    BY <1>4, <2>1, <2>2
  <2>4. tree[p][k] = Nil /\ \A m \in 0..(k - 1) : tree[p][m] # Nil
    BY <1>9, <2>3 DEF FreeSlot
  <2>5. j \in Nat /\ k \in Nat
    BY <1>7 DEF Partners
  <2>6. ~(j < k) /\ ~(k < j)
    BY <1>7, <2>4, <2>5
  <2> QED
    BY <2>3, <2>5, <2>6
<1> DEFINE S == {s \in Level(d) \X Partners : FreeSlot(d, s[1], s[2])}
<1>10. S = {<<p, j>>}
  <2>1. <<p, j>> \in S
    BY <1>3, <1>7, <1>8
  <2>2. ASSUME NEW s \in S PROVE s = <<p, j>>
    <3>1. s \in Level(d) \X Partners /\ FreeSlot(d, s[1], s[2])
      OBVIOUS
    <3>2. s[1] = p /\ s[2] = j
      BY <1>9, <3>1
    <3> QED
      BY <3>1, <3>2
  <2> HIDE DEF S
  <2> QED
    BY <2>1, <2>2
<1> QED
  BY <1>10, FS_Singleton

(* Every well-formed tree has a place for the next node. *)
LEMMA PlacementFromInv == TreeInv => PlacementDefined
<1> SUFFICES ASSUME TreeInv PROVE PlacementDefined
  OBVIOUS
<1>1. depth \in Nat \ {0}
  BY DEF TreeInv, TypeOK
<1>2. PICK d \in 1..(depth + 1) :
        FreeLevel(d) /\ \E p \in Level(d), j \in Partners : Grown(d)[p][j] = Nil
  BY <1>1, LevelIsFree
<1>3. Cardinality({s \in Level(d) \X Partners : FreeSlot(d, s[1], s[2])}) = 1
  BY <1>1, <1>2, SlotIsFound
<1> QED
  BY <1>2, <1>3 DEF PlacementDefined

(* AddNode finds one slot, and only one, in every tree there can be:       *)
(* new_node is never left nil, and a new level is added when it is needed. *)
THEOREM PlacementAlwaysDefined == Spec => []PlacementDefined
<1>1. TreeInv => PlacementDefined
  BY PlacementFromInv
<1> QED
  BY <1>1, TreeInvariant, PTL
=============================================================================
