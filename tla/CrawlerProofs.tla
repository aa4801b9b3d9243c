----------------------------- MODULE CrawlerProofs -----------------------------
(***************************************************************************)
(* Proofs about Crawler, for every world, every list of patterns and every *)
(* order of the edges.  The history variable label names the root above    *)
(* each zone, which neither find's path halving nor its walk changes; the  *)
(* invariant says that the forest agrees with it, that merged edges join   *)
(* zones of one label, and that labels never join what the edges part.     *)
(***************************************************************************)
EXTENDS Crawler, FiniteSetTheorems, FunctionTheorems, WellFoundedInduction, TLAPS

Z == NodeZones(built)
E == built.edges

\* The edges of the crawl join two different included zones, of finitely many.
EdgesJoin ==
    /\ Z \subseteq Zones
    /\ \A e \in E : e.a \in Z /\ e.b \in Z /\ e.a # e.b

\* The forest agrees with the labels.
ForestOK ==
    /\ label \in [Z -> Z]
    /\ \A z \in Z : label[parent[z]] = label[z]
    /\ \A z \in Z : label[z] = z <=> parent[z] = z
    /\ \A z \in Z : label[label[z]] = label[z]

\* No cycles: whatever the parents do not lead out of holds a root.
Enclosed(S) == \A z \in S : parent[z] \in S
Grounded == \A S \in SUBSET Z : S # {} /\ Enclosed(S) => \E z \in S : parent[z] = z

\* Edges that are merged, or are in the middle of it.
Merging == IF pc \in {"findA", "findB"} THEN {edge} ELSE {}
Joined == \A e \in E \ (todo \cup Merging) : label[e.a] = label[e.b]

\* A set that no edge leaves holds a zone together with its label.
NothingElseJoined ==
    \A S \in SUBSET Z : Closed(S, E) => \A z \in Z : z \in S <=> label[z] \in S

\* Where find has got to.
WalkOK ==
    /\ pc = "findA" => edge \in E /\ walk \in Z /\ label[walk] = label[edge.a]
    /\ pc = "findB" =>
           /\ edge \in E /\ walk \in Z /\ label[walk] = label[edge.b]
           /\ root \in Z /\ label[root] = root /\ label[edge.a] = root
    /\ pc = "findZone" => walk \in Z

\* The zones are counted after the edges; a zone that is counted has its root
\* counted, all but the one that is being looked up.
LookedUp == IF pc = "findZone" THEN {label[walk]} ELSE {}
CountOK ==
    /\ todo # {} \/ pc \in {"findA", "findB"} => rest = Z /\ roots = {}
    /\ pc = "findZone" => todo = {}
    /\ \A r \in roots : label[r] = r
    /\ \A z \in Z \ rest : label[z] \in roots \cup LookedUp

Done ==
    IF pc = "done"
    THEN /\ graph.nodes = built.nodes /\ graph.edges = built.edges
         /\ graph.components = Cardinality(roots)
         /\ todo = {} /\ rest = {}
    ELSE graph = NoGraph

IInv ==
    /\ TypeOK /\ EdgesJoin /\ ForestOK /\ Grounded /\ Joined /\ NothingElseJoined
    /\ WalkOK /\ CountOK /\ Done

---------------------------------------------------------------------------
LEMMA InitInv == Init => IInv
<1> SUFFICES ASSUME Init PROVE IInv OBVIOUS
<1>1. Z = {} /\ E = {}  BY DEF Init, Z, E, NodeZones, NoGraph
<1>2. NodeZones(NoGraph) = {}  BY DEF NodeZones, NoGraph
<1>3. parent \in [Z -> Z] /\ label \in [Z -> Z]
  BY <1>1, <1>2 DEF Init, Singletons
<1>4. TypeOK  BY <1>1, <1>3 DEF Init, TypeOK, Z, E
<1> QED  BY <1>1, <1>3, <1>4
     DEF Init, IInv, EdgesJoin, ForestOK, Grounded, Joined, NothingElseJoined, WalkOK, CountOK, Done

LEMMA PairOrdered ==
  ASSUME NEW y \in Nat, NEW z \in Nat, y # z
  PROVE  /\ CanonicalPair(y, z)[1] < CanonicalPair(y, z)[2]
         /\ CanonicalPair(y, z)[1] \in {y, z} /\ CanonicalPair(y, z)[2] \in {y, z}
BY DEF CanonicalPair

\* Edges of a crawl: between two included zones, in name order.
LEMMA EdgesOfWorld ==
  ASSUME NEW w \in Worlds, NEW zones \in SUBSET w.zones, NEW secret,
         NEW e \in BuildEdges(w, zones, secret)
  PROVE  e.a \in zones /\ e.b \in zones /\ e.a < e.b
<1>1. PICK x \in Crossing(w, zones, secret) :
          e = [a |-> Border(w, x)[1], b |-> Border(w, x)[2],
               weight |-> Cardinality({y \in Crossing(w, zones, secret) :
                                           Border(w, y) = Border(w, x)})]
  BY Zenon DEF BuildEdges
<1> DEFINE ex == w.exits[x]
<1>2. /\ ex.from \in DOMAIN RoomZone(w, zones) /\ ex.to \in DOMAIN RoomZone(w, zones)
      /\ RoomZone(w, zones)[ex.from] # RoomZone(w, zones)[ex.to]
  BY DEF Crossing
<1>3. /\ w.zoneOf[ex.from] \in zones /\ w.zoneOf[ex.to] \in zones
      /\ w.zoneOf[ex.from] # w.zoneOf[ex.to]
  BY <1>2 DEF RoomZone
<1>4. zones \subseteq Nat  BY WorldsAssumption, ZonesAssumption
<1>5. e.a = Border(w, x)[1] /\ e.b = Border(w, x)[2]  BY <1>1
<1>6. Border(w, x) = CanonicalPair(w.zoneOf[ex.from], w.zoneOf[ex.to])  BY DEF Border
<1> DEFINE y == w.zoneOf[ex.from]
<1> DEFINE z == w.zoneOf[ex.to]
<1>7. y \in zones /\ z \in zones /\ y # z /\ y \in Nat /\ z \in Nat  BY <1>3, <1>4
<1>8. Border(w, x) = CanonicalPair(y, z)  BY <1>6
<1> HIDE DEF y, z
<1>9. /\ CanonicalPair(y, z)[1] < CanonicalPair(y, z)[2]
      /\ CanonicalPair(y, z)[1] \in {y, z} /\ CanonicalPair(y, z)[2] \in {y, z}
  BY <1>7, PairOrdered
<1> QED  BY <1>5, <1>7, <1>8, <1>9

LEMMA CrawlStep ==
  ASSUME NEW w \in Worlds, NEW o \in Options, Crawl(w, o)
  PROVE  /\ Z' = IncludedZones(w, o) /\ Z' \subseteq w.zones
         /\ E' = BuildEdges(w, Z', o.secret)
         /\ todo' = E' /\ rest' = Z' /\ roots' = {}
         /\ parent' = [z \in Z' |-> z] /\ label' = [z \in Z' |-> z]
<1>1. Z' = IncludedZones(w, o)
  <2> DEFINE zones == IncludedZones(w, o)
  <2>1. built' = [nodes |-> BuildNodes(w, zones), edges |-> BuildEdges(w, zones, o.secret),
                 components |-> 0]
    BY Zenon DEF Crawl
  <2>2. ASSUME NEW z \in zones  PROVE  \E n \in BuildNodes(w, zones) : n.zone = z
    <3> DEFINE n == [zone |-> z, biome |-> w.biome[z], rooms |-> Cardinality(RoomIDs(w, z)),
                     outdoor |-> RoomIDs(w, z) \cap w.loads \cap w.outdoor # {}]
    <3>1. n \in BuildNodes(w, zones)  BY Zenon DEF BuildNodes
    <3>2. n.zone = z  OBVIOUS
    <3> QED  BY <3>1, <3>2
  <2>3. \A n \in BuildNodes(w, zones) : n.zone \in zones  BY DEF BuildNodes
  <2> QED  BY <2>1, <2>2, <2>3 DEF Z, NodeZones
<1>2. Z' \subseteq w.zones  BY <1>1 DEF IncludedZones
<1>3. E' = BuildEdges(w, Z', o.secret)  BY <1>1 DEF Crawl, E
<1>4. parent' = [z \in Z' |-> z] /\ label' = [z \in Z' |-> z]
  BY DEF Crawl, Singletons, Z
<1> QED  BY <1>1, <1>2, <1>3, <1>4 DEF Crawl

LEMMA CrawlKeeps ==
  ASSUME IInv, NEW w \in Worlds, NEW o \in Options, Crawl(w, o)
  PROVE  IInv'
<1>0. /\ Z' = IncludedZones(w, o) /\ Z' \subseteq w.zones
      /\ E' = BuildEdges(w, Z', o.secret)
      /\ todo' = E' /\ rest' = Z' /\ roots' = {}
      /\ parent' = [z \in Z' |-> z] /\ label' = [z \in Z' |-> z]
  BY CrawlStep
<1>1. pc' = "merge"  BY DEF Crawl
<1>2. E' = built'.edges /\ Z' = NodeZones(built')  BY <1>0 DEF E, Z
<1>3. TypeOK'  BY <1>0, <1>1, <1>2 DEF TypeOK
<1>11. Z' \subseteq Nat  BY <1>0, WorldsAssumption, ZonesAssumption
<1>13. Z' \subseteq Zones  BY <1>0, WorldsAssumption
<1>4. EdgesJoin'  BY <1>0, <1>11, <1>13, EdgesOfWorld DEF EdgesJoin
<1>5. ForestOK'  BY <1>0 DEF ForestOK
<1>6. Joined'  BY <1>0 DEF Joined
<1>12. Grounded'  BY <1>0 DEF Grounded
<1>7. NothingElseJoined'  BY <1>0 DEF NothingElseJoined
<1>8. WalkOK'  BY <1>0, <1>1 DEF WalkOK
<1>9. CountOK'  BY <1>0, <1>1 DEF CountOK
<1>10. Done'  BY <1>0, <1>1 DEF Done, IInv, Crawl
<1> QED  BY <1>3, <1>4, <1>5, <1>6, <1>7, <1>8, <1>9, <1>10, <1>12 DEF IInv

\* The steps of find and of the loops around it work on the forest alone.
Same == UNCHANGED <<graph, built>>

LEMMA SameGraph ==
  ASSUME Same  PROVE  Z' = Z /\ E' = E /\ NodeZones(built)' = NodeZones(built)
BY DEF Same, Z, E, NodeZones

LEMMA TakeEdgeKeeps == ASSUME IInv, TakeEdge PROVE IInv'
<1> USE DEF IInv
<1>1. Z' = Z /\ E' = E /\ built' = built  BY SameGraph DEF Same, TakeEdge
<1>2. /\ pc = "merge" /\ pc' = "findA" /\ edge' \in todo
      /\ todo' = todo \ {edge'} /\ walk' = edge'.a
      /\ rest' = rest /\ roots' = roots /\ parent' = parent /\ label' = label
      /\ graph' = graph
  BY DEF TakeEdge, forest
<1>3. E = built.edges /\ Z = NodeZones(built)  BY DEF E, Z
<1>4. edge' \in E  BY <1>2, <1>3 DEF TypeOK
<1>5. TypeOK'  BY <1>1, <1>2, <1>3 DEF TypeOK
<1>6. EdgesJoin' /\ ForestOK' /\ Grounded' /\ NothingElseJoined'
  BY <1>1, <1>2 DEF EdgesJoin, ForestOK, Grounded, Enclosed, NothingElseJoined
<1>7. Joined'  BY <1>1, <1>2 DEF Joined, Merging
<1>8. WalkOK'  BY <1>1, <1>2, <1>4 DEF WalkOK, EdgesJoin
<1>9. CountOK'  BY <1>1, <1>2 DEF CountOK, LookedUp
<1>10. Done'  BY <1>2 DEF Done
<1> QED  BY <1>5, <1>6, <1>7, <1>8, <1>9, <1>10

\* Path halving moves a zone up its own tree: labels see nothing of it.
LEMMA HalveKeeps == ASSUME IInv, Halve PROVE IInv'
<1> USE DEF IInv
<1>1. Z' = Z /\ E' = E /\ built' = built  BY SameGraph DEF Same, Halve
<1>2. /\ pc \in {"findA", "findB", "findZone"} /\ parent[walk] # walk
      /\ parent' = [parent EXCEPT ![walk] = parent[parent[walk]]]
      /\ walk' = parent'[walk]
      /\ UNCHANGED <<graph, pc, todo, rest, edge, root, roots, label>>
  BY DEF Halve
<1>3. E = built.edges /\ Z = NodeZones(built)  BY DEF E, Z
<1>4. walk \in Z  BY <1>2 DEF WalkOK
<1>5. parent \in [Z -> Z] /\ label \in [Z -> Z]  BY <1>3 DEF TypeOK, ForestOK
<1>6. parent' \in [Z -> Z] /\ walk' = parent[parent[walk]] /\ walk' \in Z
  BY <1>2, <1>4, <1>5
<1>7. label[walk'] = label[walk]  BY <1>4, <1>5, <1>6 DEF ForestOK
<1>8. TypeOK'  BY <1>1, <1>2, <1>3, <1>6 DEF TypeOK
<1>9. ForestOK'
  <2>1. \A z \in Z : parent'[z] = IF z = walk THEN walk' ELSE parent[z]
    BY <1>2, <1>4, <1>5, <1>6
  <2>2. \A z \in Z : label[parent'[z]] = label[z]
    BY <2>1, <1>7 DEF ForestOK
  <2>3. label[walk] # walk  BY <1>2, <1>4 DEF ForestOK
  <2>4. walk' # walk
    <3> SUFFICES ASSUME parent[parent[walk]] = walk PROVE FALSE  BY <1>6
    <3> DEFINE S == {walk, parent[walk]}
    <3>1. S \in SUBSET Z /\ S # {} /\ Enclosed(S)  BY <1>4, <1>5 DEF Enclosed
    <3>2. \E z \in S : parent[z] = z  BY <3>1 DEF Grounded
    <3> QED  BY <3>2, <1>2
  <2> QED  BY <2>1, <2>2, <2>3, <2>4, <1>1, <1>2, <1>5 DEF ForestOK
<1>15. Grounded'
  <2> SUFFICES ASSUME NEW S \in SUBSET Z, S # {}, \A z \in S : parent'[z] \in S
               PROVE  \E z \in S : parent'[z] = z
    BY <1>1 DEF Grounded, Enclosed
  <2>1. \A z \in Z : parent'[z] = IF z = walk THEN walk' ELSE parent[z]
    BY <1>2, <1>4, <1>5, <1>6
  <2>2. CASE walk \notin S
    <3>1. Enclosed(S)  BY <2>1, <2>2 DEF Enclosed
    <3> QED  BY <3>1, <2>1, <2>2 DEF Grounded
  <2>3. CASE walk \in S
    <3> DEFINE T == S \cup {parent[walk]}
    <3>1. walk' \in S  BY <2>1, <2>3, <1>4
    <3>2. Enclosed(T)  BY <2>1, <2>3, <3>1, <1>6 DEF Enclosed
    <3>3. T \in SUBSET Z /\ T # {}  BY <2>3, <1>4, <1>5
    <3>4. PICK r \in T : parent[r] = r  BY <3>2, <3>3 DEF Grounded
    <3>5. r \in S  BY <3>1, <3>4, <1>6
    <3> QED  BY <3>4, <3>5, <2>1, <1>2
  <2> QED  BY <2>2, <2>3
<1>10. EdgesJoin' /\ NothingElseJoined'
  BY <1>1, <1>2 DEF EdgesJoin, NothingElseJoined
<1>11. Joined'  BY <1>1, <1>2 DEF Joined, Merging
<1>12. WalkOK'  BY <1>1, <1>2, <1>6, <1>7 DEF WalkOK
<1>13. CountOK'  BY <1>1, <1>2, <1>7 DEF CountOK, LookedUp
<1>14. Done'  BY <1>1, <1>2 DEF Done
<1> QED  BY <1>8, <1>9, <1>10, <1>11, <1>12, <1>13, <1>14, <1>15

LEMMA FoundAKeeps == ASSUME IInv, FoundA PROVE IInv'
<1> USE DEF IInv
<1>1. Z' = Z /\ E' = E /\ built' = built  BY SameGraph DEF Same, FoundA
<1>2. /\ pc = "findA" /\ pc' = "findB" /\ parent[walk] = walk
      /\ root' = walk /\ walk' = edge.b
      /\ UNCHANGED <<graph, todo, rest, edge, roots, parent, label>>
  BY DEF FoundA, forest
<1>3. E = built.edges /\ Z = NodeZones(built)  BY DEF E, Z
<1>4. TypeOK'  BY <1>1, <1>2, <1>3 DEF TypeOK
<1>5. EdgesJoin' /\ ForestOK' /\ Grounded' /\ NothingElseJoined'
  BY <1>1, <1>2 DEF EdgesJoin, ForestOK, Grounded, Enclosed, NothingElseJoined
<1>6. Joined'  BY <1>1, <1>2 DEF Joined, Merging
<1>7. WalkOK'  BY <1>1, <1>2 DEF WalkOK, EdgesJoin, ForestOK
<1>8. CountOK'  BY <1>1, <1>2 DEF CountOK, LookedUp
<1>9. Done'  BY <1>1, <1>2 DEF Done
<1> QED  BY <1>4, <1>5, <1>6, <1>7, <1>8, <1>9

\* Hanging one root under another renames one label everywhere.
LEMMA UnionKeeps ==
  ASSUME IInv, Merge, root # walk, Union(root, walk)
  PROVE  ForestOK' /\ Grounded' /\ Joined' /\ NothingElseJoined'
         /\ parent' \in [Z -> Z]
<1> USE DEF IInv
<1>1. Z' = Z /\ E' = E  BY SameGraph DEF Same, Merge
<1>2. pc = "findB" /\ parent[walk] = walk /\ pc' = "merge" /\ todo' = todo /\ edge' = edge
  BY DEF Merge
<1>3. E = built.edges /\ Z = NodeZones(built)  BY DEF E, Z
<1>4. parent \in [Z -> Z] /\ label \in [Z -> Z]  BY <1>3 DEF TypeOK, ForestOK
<1>5. /\ edge \in E /\ walk \in Z /\ label[walk] = walk /\ label[edge.b] = walk
      /\ root \in Z /\ label[root] = root /\ parent[root] = root /\ label[edge.a] = root
  BY <1>2 DEF WalkOK, ForestOK
<1>6. \A z \in Z : parent'[z] = IF z = root THEN walk ELSE parent[z]
  BY <1>4 DEF Union
<1>7. \A z \in Z : label'[z] = IF label[z] = root THEN walk ELSE label[z]
  BY <1>4 DEF Union
<1>8. parent' \in [Z -> Z] /\ label' \in [Z -> Z]  BY <1>4, <1>5 DEF Union
<1>9. ForestOK'
  <2>1. \A z \in Z : label'[parent'[z]] = label'[z]
    BY <1>4, <1>5, <1>6, <1>7 DEF ForestOK
  <2>2. \A z \in Z : label'[z] = z <=> parent'[z] = z
    BY <1>4, <1>5, <1>6, <1>7 DEF ForestOK
  <2>3. \A z \in Z : label'[label'[z]] = label'[z]
    BY <1>4, <1>5, <1>7 DEF ForestOK
  <2> QED  BY <2>1, <2>2, <2>3, <1>1, <1>8 DEF ForestOK
<1>10. Grounded'
  <2> SUFFICES ASSUME NEW S \in SUBSET Z, S # {}, \A z \in S : parent'[z] \in S
               PROVE  \E z \in S : parent'[z] = z
    BY <1>1 DEF Grounded, Enclosed
  <2>1. CASE root \in S
    BY <2>1, <1>2, <1>5, <1>6
  <2>2. CASE root \notin S
    <3>1. Enclosed(S)  BY <2>2, <1>6 DEF Enclosed
    <3> QED  BY <3>1, <2>2, <1>6 DEF Grounded
  <2> QED  BY <2>1, <2>2
<1>11. Joined'
  <2> SUFFICES ASSUME NEW e \in E, e \notin todo  PROVE label'[e.a] = label'[e.b]
    BY <1>1, <1>2 DEF Joined
  <2>1. e.a \in Z /\ e.b \in Z /\ edge.a \in Z /\ edge.b \in Z  BY <1>5 DEF EdgesJoin
  <2>2. CASE e = edge  BY <2>1, <2>2, <1>5, <1>7
  <2>3. CASE e # edge
    <3>1. label[e.a] = label[e.b]  BY <2>3, <1>2 DEF Joined, Merging
    <3> QED  BY <3>1, <2>1, <1>7
  <2> QED  BY <2>2, <2>3
<1>12. NothingElseJoined'
  <2> SUFFICES ASSUME NEW S \in SUBSET Z, Closed(S, E), NEW z \in Z
               PROVE  z \in S <=> label'[z] \in S
    BY <1>1 DEF NothingElseJoined, Closed
  <2>1. edge.a \in Z /\ edge.b \in Z  BY <1>5 DEF EdgesJoin
  <2>2. edge.a \in S <=> edge.b \in S  BY <1>5 DEF Closed
  <2>3. root \in S <=> walk \in S  BY <2>1, <2>2, <1>5 DEF NothingElseJoined
  <2>4. z \in S <=> label[z] \in S  BY DEF NothingElseJoined
  <2> QED  BY <2>3, <2>4, <1>7
<1> QED  BY <1>8, <1>9, <1>10, <1>11, <1>12

LEMMA MergeKeeps == ASSUME IInv, Merge PROVE IInv'
<1> USE DEF IInv
<1>1. Z' = Z /\ E' = E /\ built' = built  BY SameGraph DEF Same, Merge
<1>2. /\ pc = "findB" /\ pc' = "merge"
      /\ UNCHANGED <<graph, todo, rest, edge, walk, root, roots>>
  BY DEF Merge
<1>3. E = built.edges /\ Z = NodeZones(built)  BY DEF E, Z
<1>4. rest = Z /\ roots = {}  BY <1>2 DEF CountOK
<1>5. ForestOK' /\ Grounded' /\ Joined' /\ NothingElseJoined' /\ parent' \in [Z -> Z]
  <2>1. CASE root # walk
    <3>1. Union(root, walk)  BY <2>1 DEF Merge
    <3> QED  BY <2>1, <3>1, UnionKeeps
  <2>2. CASE root = walk
    <3>1. parent' = parent /\ label' = label  BY <2>2 DEF Merge, forest
    <3>2. ForestOK' /\ Grounded' /\ NothingElseJoined'
      BY <3>1, <1>1 DEF ForestOK, Grounded, Enclosed, NothingElseJoined
    <3>3. label[edge.a] = label[edge.b]
      <4>1. parent[walk] = walk /\ walk \in Z  BY <1>2 DEF Merge, WalkOK
      <4> QED  BY <4>1, <2>2, <1>2 DEF WalkOK, ForestOK
    <3>4. Joined'  BY <3>1, <3>3, <1>1, <1>2 DEF Joined, Merging
    <3> QED  BY <3>1, <3>2, <3>4, <1>3 DEF TypeOK
  <2> QED  BY <2>1, <2>2
<1>6. TypeOK'  BY <1>1, <1>2, <1>3, <1>5 DEF TypeOK
<1>7. EdgesJoin'  BY <1>1 DEF EdgesJoin
<1>8. WalkOK'  BY <1>2 DEF WalkOK
<1>9. CountOK'  BY <1>1, <1>2, <1>4 DEF CountOK, LookedUp
<1>10. Done'  BY <1>1, <1>2 DEF Done
<1> QED  BY <1>5, <1>6, <1>7, <1>8, <1>9, <1>10

LEMMA TakeZoneKeeps == ASSUME IInv, TakeZone PROVE IInv'
<1> USE DEF IInv
<1>1. Z' = Z /\ E' = E /\ built' = built  BY SameGraph DEF Same, TakeZone
<1>2. /\ pc = "merge" /\ pc' = "findZone" /\ todo = {} /\ walk' \in rest
      /\ rest' = rest \ {walk'}
      /\ UNCHANGED <<graph, todo, edge, root, roots, parent, label>>
  BY DEF TakeZone, forest
<1>3. E = built.edges /\ Z = NodeZones(built)  BY DEF E, Z
<1>4. TypeOK'  BY <1>1, <1>2, <1>3 DEF TypeOK
<1>5. EdgesJoin' /\ ForestOK' /\ Grounded' /\ NothingElseJoined'
  BY <1>1, <1>2 DEF EdgesJoin, ForestOK, Grounded, Enclosed, NothingElseJoined
<1>6. Joined'  BY <1>1, <1>2 DEF Joined, Merging
<1>7. WalkOK'  BY <1>1, <1>2, <1>3 DEF WalkOK, TypeOK
<1>8. CountOK'  BY <1>1, <1>2 DEF CountOK, LookedUp
<1>9. Done'  BY <1>1, <1>2 DEF Done
<1> QED  BY <1>4, <1>5, <1>6, <1>7, <1>8, <1>9

LEMMA CountRootKeeps == ASSUME IInv, CountRoot PROVE IInv'
<1> USE DEF IInv
<1>1. Z' = Z /\ E' = E /\ built' = built  BY SameGraph DEF Same, CountRoot
<1>2. /\ pc = "findZone" /\ pc' = "merge" /\ parent[walk] = walk
      /\ roots' = roots \cup {walk}
      /\ UNCHANGED <<graph, todo, rest, edge, walk, root, parent, label>>
  BY DEF CountRoot, forest
<1>3. E = built.edges /\ Z = NodeZones(built)  BY DEF E, Z
<1>4. walk \in Z /\ label[walk] = walk  BY <1>2 DEF WalkOK, ForestOK
<1>5. TypeOK'  BY <1>1, <1>2, <1>3, <1>4 DEF TypeOK
<1>6. EdgesJoin' /\ ForestOK' /\ Grounded' /\ NothingElseJoined'
  BY <1>1, <1>2 DEF EdgesJoin, ForestOK, Grounded, Enclosed, NothingElseJoined
<1>7. Joined'  BY <1>1, <1>2 DEF Joined, Merging
<1>8. WalkOK'  BY <1>2 DEF WalkOK
<1>9. CountOK'  BY <1>1, <1>2, <1>4 DEF CountOK, LookedUp
<1>10. Done'  BY <1>1, <1>2 DEF Done
<1> QED  BY <1>5, <1>6, <1>7, <1>8, <1>9, <1>10

LEMMA FinishKeeps == ASSUME IInv, Finish PROVE IInv'
<1> USE DEF IInv
<1>1. Z' = Z /\ E' = E /\ built' = built  BY SameGraph DEF Same, Finish, Z, E
<1>2. /\ pc = "merge" /\ pc' = "done" /\ todo = {} /\ rest = {}
      /\ graph' = [nodes |-> built.nodes, edges |-> built.edges,
                  components |-> Cardinality(roots)]
      /\ UNCHANGED <<todo, rest, edge, walk, root, roots, parent, label>>
  BY DEF Finish, forest
<1>3. TypeOK'  BY <1>1, <1>2 DEF TypeOK
<1>4. EdgesJoin' /\ ForestOK' /\ Grounded' /\ NothingElseJoined'
  BY <1>1, <1>2 DEF EdgesJoin, ForestOK, Grounded, Enclosed, NothingElseJoined
<1>5. Joined'  BY <1>1, <1>2 DEF Joined, Merging
<1>6. WalkOK'  BY <1>2 DEF WalkOK
<1>7. CountOK'  BY <1>1, <1>2 DEF CountOK, LookedUp
<1>8. Done'  BY <1>1, <1>2 DEF Done
<1> QED  BY <1>3, <1>4, <1>5, <1>6, <1>7, <1>8

LEMMA NextInv == ASSUME IInv, [Next]_vars PROVE IInv'
<1>1. ASSUME NEW w \in Worlds, NEW o \in Options, Crawl(w, o)  PROVE IInv'
  BY <1>1, CrawlKeeps
<1>2. ASSUME NEW w \in Worlds, NEW o \in Options, CrawlFails(w, o)  PROVE IInv'
  <2>1. Z' = Z /\ E' = E /\ built' = built  BY <1>2, SameGraph DEF Same, CrawlFails
  <2>2. /\ pc = "idle" /\ pc' = "failed"
        /\ UNCHANGED <<graph, todo, rest, edge, walk, root, roots, parent, label>>
    BY <1>2 DEF CrawlFails, forest
  <2>3. TypeOK'  BY <2>1, <2>2 DEF TypeOK, IInv
  <2>4. EdgesJoin' /\ ForestOK' /\ Grounded' /\ NothingElseJoined'
    BY <2>1, <2>2 DEF EdgesJoin, ForestOK, Grounded, Enclosed, NothingElseJoined, IInv
  <2>5. Joined' /\ WalkOK'  BY <2>1, <2>2 DEF Joined, Merging, WalkOK, IInv
  <2>6. CountOK' /\ Done'  BY <2>1, <2>2 DEF CountOK, LookedUp, Done, IInv
  <2> QED  BY <2>3, <2>4, <2>5, <2>6 DEF IInv
<1>3. CASE Counting
  BY <1>3, TakeEdgeKeeps, HalveKeeps, FoundAKeeps, MergeKeeps, TakeZoneKeeps,
     CountRootKeeps, FinishKeeps DEF Counting
<1>4. CASE UNCHANGED vars
  <2>1. Z' = Z /\ E' = E /\ built' = built  BY <1>4, SameGraph DEF Same, vars
  <2>2. UNCHANGED <<graph, pc, todo, rest, edge, walk, root, roots, parent, label>>
    BY <1>4 DEF vars
  <2>3. TypeOK'  BY <2>1, <2>2 DEF TypeOK, IInv
  <2>4. EdgesJoin' /\ ForestOK' /\ Grounded' /\ NothingElseJoined'
    BY <2>1, <2>2 DEF EdgesJoin, ForestOK, Grounded, Enclosed, NothingElseJoined, IInv
  <2>5. Joined' /\ WalkOK'  BY <2>1, <2>2 DEF Joined, Merging, WalkOK, IInv
  <2>6. CountOK' /\ Done'  BY <2>1, <2>2 DEF CountOK, LookedUp, Done, IInv
  <2> QED  BY <2>3, <2>4, <2>5, <2>6 DEF IInv
<1> QED  BY <1>1, <1>2, <1>3, <1>4 DEF Next

\* The forest is one over the included zones, and what is counted are zones.
THEOREM TypeCorrect == Spec => []TypeOK
<1>1. IInv => TypeOK  BY DEF IInv
<1> QED  BY <1>1, InitInv, NextInv, PTL DEF Spec
---------------------------------------------------------------------------
\* When every edge is merged, two zones have one label exactly if they are
\* connected.
LEMMA LabelsAreComponents ==
  ASSUME IInv, todo = {}, pc \notin {"findA", "findB"}, NEW y \in Z, NEW z \in Z
  PROVE  label[y] = label[z] <=> Connected(Z, E, y, z)
<1> USE DEF IInv
<1>1. ASSUME label[y] = label[z]  PROVE Connected(Z, E, y, z)
  BY <1>1 DEF NothingElseJoined, Connected
<1>2. ASSUME Connected(Z, E, y, z)  PROVE label[y] = label[z]
  <2> DEFINE S == {x \in Z : label[x] = label[y]}
  <2>1. Closed(S, E)  BY DEF Joined, Merging, EdgesJoin, Closed
  <2> QED  BY <1>2, <2>1 DEF Connected
<1> QED  BY <1>1, <1>2

LEMMA RootsMatchComponents ==
  ASSUME IInv, pc = "done"
  PROVE  Cardinality(roots) = Cardinality({ComponentOf(Z, E, z) : z \in Z})
<1> USE DEF IInv
<1> DEFINE C == {ComponentOf(Z, E, z) : z \in Z}
<1>1. todo = {} /\ rest = {}  BY DEF Done
<1>2. roots \subseteq Z  BY DEF TypeOK, Z
<1>3. \A z \in Z : label[z] \in roots  BY <1>1 DEF CountOK, LookedUp
<1>4. \A r \in roots : label[r] = r  BY DEF CountOK
<1>5. \A y, z \in Z : ComponentOf(Z, E, y) = ComponentOf(Z, E, z) <=> label[y] = label[z]
  <2> SUFFICES ASSUME NEW y \in Z, NEW z \in Z
               PROVE ComponentOf(Z, E, y) = ComponentOf(Z, E, z) <=> label[y] = label[z]
    OBVIOUS
  <2>1. \A v, x \in Z : Connected(Z, E, v, x) <=> label[v] = label[x]
    BY <1>1, LabelsAreComponents
  <2>2. ComponentOf(Z, E, y) = {x \in Z : label[y] = label[x]}  BY <2>1 DEF ComponentOf
  <2>3. ComponentOf(Z, E, z) = {x \in Z : label[z] = label[x]}  BY <2>1 DEF ComponentOf
  <2> QED  BY <2>2, <2>3
<1> DEFINE f == [r \in roots |-> ComponentOf(Z, E, r)]
<1>6. f \in [roots -> C]  BY <1>2
<1>7. \A q, r \in roots : f[q] = f[r] => q = r  BY <1>2, <1>4, <1>5
<1>8. \A c \in C : \E r \in roots : f[r] = c
  <2> SUFFICES ASSUME NEW z \in Z PROVE \E r \in roots : f[r] = ComponentOf(Z, E, z)
    OBVIOUS
  <2>1. label[z] \in roots /\ label[z] \in Z /\ label[label[z]] = label[z]
    BY <1>2, <1>3, <1>4
  <2> QED  BY <2>1, <1>5
<1> HIDE DEF f, C
<1>9. f \in Bijection(roots, C)
  BY <1>6, <1>7, <1>8, Fun_IsBij
<1>10. ExistsBijection(roots, C)  BY <1>9 DEF ExistsBijection
<1>11. IsFiniteSet(roots)
  <2>1. roots \subseteq Zones  BY <1>2 DEF EdgesJoin
  <2> QED  BY <2>1, ZonesAssumption, FS_Subset
<1> QED  BY <1>10, <1>11, FS_Bijection DEF C

\* The number Build returns is the number of connected components, for every
\* graph and every order in which the edges are merged and the zones counted.
THEOREM CountsComponents == Spec => []ComponentsCounted
<1>1. IInv => ComponentsCounted
  <2> SUFFICES ASSUME IInv PROVE ComponentsCounted  OBVIOUS
  <2>1. CASE pc = "done"
    <3>1. NodeZones(graph) = Z /\ graph.edges = E /\ graph.components = Cardinality(roots)
      BY <2>1 DEF IInv, Done, NodeZones, Z, E
    <3>2. ConnectedComponents(graph) = {ComponentOf(Z, E, z) : z \in Z}
      BY <3>1 DEF ConnectedComponents
    <3> QED  BY <2>1, <3>1, <3>2, RootsMatchComponents DEF ComponentsCounted
  <2>2. CASE pc # "done"
    <3>1. graph = NoGraph  BY <2>2 DEF IInv, Done
    <3>2. NodeZones(graph) = {}  BY <3>1 DEF NoGraph, NodeZones
    <3>3. ConnectedComponents(graph) = {}  BY <3>2 DEF ConnectedComponents
    <3>4. graph.components = 0  BY <3>1 DEF NoGraph
    <3> QED  BY <3>3, <3>4, FS_EmptySet DEF ComponentsCounted
  <2> QED  BY <2>1, <2>2
<1> QED  BY <1>1, InitInv, NextInv, PTL DEF Spec
---------------------------------------------------------------------------
(***************************************************************************)
(* What was read from the world                                            *)
(***************************************************************************)
\* What is built is what the crawl that runs has read.
ReadOK ==
    IF read = <<>>
    THEN Z = {} /\ E = {}
    ELSE /\ read.world \in Worlds /\ read.opts \in Options
         /\ \A z \in read.world.zones : ~Malformed(read.opts.patterns, z)
         /\ Z = IncludedZones(read.world, read.opts)
         /\ E = BuildEdges(read.world, Z, read.opts.secret)

LEMMA ReadStep == ASSUME ReadOK, [Next]_vars PROVE ReadOK'
<1>1. ASSUME NEW w \in Worlds, NEW o \in Options, Crawl(w, o)  PROVE ReadOK'
  <2>1. read' = [world |-> w, opts |-> o]  BY <1>1 DEF Crawl
  <2>2. read' # <<>> /\ read'.world = w /\ read'.opts = o  BY <2>1
  <2>3. \A z \in w.zones : ~Malformed(o.patterns, z)  BY <1>1 DEF Crawl
  <2>4. Z' = IncludedZones(w, o) /\ E' = BuildEdges(w, Z', o.secret)  BY <1>1, CrawlStep
  <2> QED  BY <2>2, <2>3, <2>4 DEF ReadOK
<1>2. ASSUME UNCHANGED <<built, read>>  PROVE ReadOK'
  BY <1>2 DEF ReadOK, Z, E, NodeZones
<1> QED
  BY <1>1, <1>2 DEF Next, vars, CrawlFails, Counting, TakeEdge, Halve, FoundA, Merge,
     TakeZone, CountRoot, Finish

LEMMA ReadAlways == Spec => []ReadOK
<1>1. Init => ReadOK  BY DEF Init, ReadOK, Z, E, NodeZones, NoGraph
<1> QED  BY <1>1, ReadStep, PTL DEF Spec

\* Some pattern decides whenever one stops at the zone.
LEMMA SomeDecides ==
  ASSUME NEW ps \in Seq(Pattern), NEW z, NEW i \in DOMAIN ps, Stops(ps[i], z)
  PROVE  \E k \in Deciding(ps, z) : TRUE
<1> DEFINE T == {j \in DOMAIN ps : Stops(ps[j], z)}
<1>1. T \subseteq Nat /\ T # {}  OBVIOUS
<1>2. PICK k \in T : \A j \in T : <<j, k>> \notin OpToRel(<, Nat)
  BY <1>1, NatLessThanWellFounded, WFMin, Zenon
<1>3. \A j \in T : ~(j < k)  BY <1>1, <1>2 DEF OpToRel
<1>4. \A j \in 1 .. k - 1 : ~Stops(ps[j], z)
  <2> SUFFICES ASSUME NEW j \in 1 .. k - 1, Stops(ps[j], z) PROVE FALSE  OBVIOUS
  <2>1. j \in DOMAIN ps /\ j < k  BY <1>1
  <2> QED  BY <2>1, <1>3
<1> QED  BY <1>4 DEF Deciding

\* However the malformed patterns stand in the list, a crawl that succeeds has
\* left out exactly the zones that some pattern matches.
THEOREM BadPatternsDecideNothing == Spec => []BadPatternsNeverCount
<1>1. ReadOK => BadPatternsNeverCount
  <2> SUFFICES ASSUME ReadOK, read # <<>> PROVE BadPatternsNeverCount
    BY DEF BadPatternsNeverCount
  <2> DEFINE ps == read.opts.patterns
  <2> DEFINE zs == read.world.zones
  <2>1. ps \in Seq(Pattern)  BY OptionsAssumption DEF ReadOK
  <2>2. \A z \in zs : ~Malformed(ps, z)  BY DEF ReadOK
  <2>3. Z = {z \in zs : ~IsExcluded(ps, z)}  BY DEF ReadOK, IncludedZones
  <2> HIDE DEF ps, zs
  <2>4. ASSUME NEW z \in zs, IsExcluded(ps, z)
        PROVE  \E i \in DOMAIN ps : ~ps[i].bad /\ z \in ps[i].matches
    BY <2>4 DEF IsExcluded, Deciding, Stops
  <2>5. ASSUME NEW z \in zs, NEW i \in DOMAIN ps, ~ps[i].bad, z \in ps[i].matches
        PROVE  IsExcluded(ps, z)
    <3>1. Stops(ps[i], z)  BY <2>5 DEF Stops
    <3>2. PICK k \in Deciding(ps, z) : TRUE  BY <2>1, <3>1, SomeDecides
    <3> QED  BY <3>2, <2>2 DEF Malformed, IsExcluded
  <2> QED  BY <2>3, <2>4, <2>5 DEF BadPatternsNeverCount, Z, ps, zs
<1> QED  BY <1>1, ReadAlways, PTL
---------------------------------------------------------------------------
(***************************************************************************)
(* The edges                                                               *)
(***************************************************************************)
Weight(w, zones, secret, x) ==
    Cardinality({y \in Crossing(w, zones, secret) : Border(w, y) = Border(w, x)})
EdgeAt(w, zones, secret, x) ==
    [a |-> Border(w, x)[1], b |-> Border(w, x)[2], weight |-> Weight(w, zones, secret, x)]

LEMMA EdgesAreCrossed ==
  ASSUME NEW w, NEW zones, NEW secret
  PROVE  BuildEdges(w, zones, secret) =
             {EdgeAt(w, zones, secret, x) : x \in Crossing(w, zones, secret)}
BY Zenon DEF BuildEdges, EdgeAt, Weight

\* A border is a pair, so its two ends are all there is to it.
LEMMA BorderEnds ==
  ASSUME NEW w, NEW x, NEW y,
         Border(w, x)[1] = Border(w, y)[1], Border(w, x)[2] = Border(w, y)[2]
  PROVE  Border(w, x) = Border(w, y)
<1>1. ASSUME NEW p, NEW q  PROVE CanonicalPair(p, q) = <<CanonicalPair(p, q)[1], CanonicalPair(p, q)[2]>>
  BY DEF CanonicalPair
<1>2. \A v : Border(w, v) = <<Border(w, v)[1], Border(w, v)[2]>>
  BY <1>1 DEF Border
<1> QED  BY <1>2

LEMMA OneEdgePerBorder ==
  ASSUME NEW w, NEW zones, NEW secret,
         NEW e \in BuildEdges(w, zones, secret), NEW f \in BuildEdges(w, zones, secret),
         e.a = f.a, e.b = f.b
  PROVE  e = f
<1>1. PICK x \in Crossing(w, zones, secret) : e = EdgeAt(w, zones, secret, x)
  BY EdgesAreCrossed
<1>2. PICK y \in Crossing(w, zones, secret) : f = EdgeAt(w, zones, secret, y)
  BY EdgesAreCrossed
<1>3. e.a = Border(w, x)[1] /\ e.b = Border(w, x)[2]  BY <1>1 DEF EdgeAt
<1>4. f.a = Border(w, y)[1] /\ f.b = Border(w, y)[2]  BY <1>2 DEF EdgeAt
<1>5. Border(w, x) = Border(w, y)  BY <1>3, <1>4, BorderEnds
<1>6. Weight(w, zones, secret, x) = Weight(w, zones, secret, y)  BY <1>5 DEF Weight
<1> QED  BY <1>1, <1>2, <1>5, <1>6 DEF EdgeAt

\* The graph the simulation walks on is one in which neighbours see each other
\* alike, once each, and nobody is their own neighbour.
THEOREM NeighborsMutual == Spec => []NeighborsAgree
<1>1. ReadOK => NeighborsAgree
  <2> SUFFICES ASSUME ReadOK, NEW z \in Z, NEW n \in Neighbors(built, z)
               PROVE  /\ n.zone \in Z \ {z}
                      /\ [zone |-> z, weight |-> n.weight] \in Neighbors(built, n.zone)
                      /\ \A k \in Neighbors(built, z) : k.zone = n.zone => k = n
    BY DEF NeighborsAgree, Z
  <2>1. read # <<>>  BY DEF ReadOK
  <2> PICK w \in Worlds : \E s : Z \subseteq w.zones /\ E = BuildEdges(w, Z, s)
    BY <2>1 DEF ReadOK, IncludedZones
  <2>2. PICK secret : Z \subseteq w.zones /\ E = BuildEdges(w, Z, secret)
    OBVIOUS
  <2>3. \A e \in E : e.a \in Z /\ e.b \in Z /\ e.a < e.b
    BY <2>2, EdgesOfWorld
  <2>4. \A e, f \in E : e.a = f.a /\ e.b = f.b => e = f
    BY <2>2, OneEdgePerBorder
  <2>5. Z \subseteq Nat  BY <2>2, WorldsAssumption, ZonesAssumption
  <2> DEFINE out == {[zone |-> e.b, weight |-> e.weight] : e \in {f \in E : f.a = z}}
  <2> DEFINE in == {[zone |-> e.a, weight |-> e.weight] : e \in {f \in E : f.b = z /\ f.b # f.a}}
  <2>6. Neighbors(built, z) = out \cup in  BY DEF Neighbors, E
  <2>7. \A k \in Neighbors(built, z) : \E e \in E :
            /\ k = [zone |-> k.zone, weight |-> e.weight]
            /\ (e.a = z /\ e.b = k.zone) \/ (e.b = z /\ e.a = k.zone)
    BY <2>6
  <2> HIDE DEF out, in
  <2>8. PICK e \in E : /\ n = [zone |-> n.zone, weight |-> e.weight]
                       /\ (e.a = z /\ e.b = n.zone) \/ (e.b = z /\ e.a = n.zone)
    BY <2>7
  <2>9. n.zone \in Z /\ n.zone # z
    BY <2>3, <2>5, <2>8
  <2>10. [zone |-> z, weight |-> n.weight] \in Neighbors(built, n.zone)
    <3>1. n.weight = e.weight  BY <2>8
    <3>2. CASE e.a = z /\ e.b = n.zone
      <4>1. e \in {f \in built.edges : f.b = n.zone /\ f.b # f.a}  BY <3>2, <2>9 DEF E
      <4> QED  BY <4>1, <3>1, <3>2 DEF Neighbors
    <3>3. CASE e.b = z /\ e.a = n.zone
      <4>1. e \in {f \in built.edges : f.a = n.zone}  BY <3>3 DEF E
      <4> QED  BY <4>1, <3>1, <3>3 DEF Neighbors
    <3> QED  BY <2>8, <3>2, <3>3
  <2>11. ASSUME NEW k \in Neighbors(built, z), k.zone = n.zone  PROVE k = n
    <3>1. PICK f \in E : /\ k = [zone |-> k.zone, weight |-> f.weight]
                         /\ (f.a = z /\ f.b = k.zone) \/ (f.b = z /\ f.a = k.zone)
      BY <2>7
    <3>2. f.a = e.a /\ f.b = e.b  BY <2>3, <2>5, <2>8, <2>11, <3>1
    <3>3. f = e  BY <2>4, <3>2
    <3> QED  BY <2>8, <2>11, <3>1, <3>3
  <2> QED  BY <2>9, <2>10, <2>11
<1> QED  BY <1>1, ReadAlways, PTL

\* An exit crosses between the included zones if it crosses at all and both
\* ends of its border are included.
LEMMA CrossingWithin ==
  ASSUME NEW w \in Worlds, NEW zones \in SUBSET w.zones, NEW secret, NEW x
  PROVE  x \in Crossing(w, zones, secret) <=>
             /\ x \in Crossing(w, w.zones, secret)
             /\ Border(w, x)[1] \in zones /\ Border(w, x)[2] \in zones
<1> DEFINE ex == w.exits[x]
<1> DEFINE y == w.zoneOf[ex.from]
<1> DEFINE z == w.zoneOf[ex.to]
<1>1. ASSUME NEW zs \in SUBSET w.zones
      PROVE  x \in Crossing(w, zs, secret) <=>
                 /\ x \in DOMAIN w.exits /\ ex.from \in w.loads /\ (ex.secret => secret)
                 /\ ex.from \in DOMAIN w.zoneOf /\ ex.to \in DOMAIN w.zoneOf
                 /\ y \in zs /\ z \in zs /\ y # z
  BY DEF Crossing, RoomZone
<1>2. ASSUME x \in Crossing(w, w.zones, secret)
      PROVE  /\ Border(w, x)[1] \in {y, z} /\ Border(w, x)[2] \in {y, z}
             /\ Border(w, x)[1] # Border(w, x)[2]
  <2>1. y \in Nat /\ z \in Nat /\ y # z  BY <1>1, <1>2, WorldsAssumption, ZonesAssumption
  <2>2. Border(w, x) = CanonicalPair(y, z)  BY DEF Border
  <2> HIDE DEF y, z
  <2>3. /\ CanonicalPair(y, z)[1] \in {y, z} /\ CanonicalPair(y, z)[2] \in {y, z}
        /\ CanonicalPair(y, z)[1] # CanonicalPair(y, z)[2]
    BY <2>1 DEF CanonicalPair
  <2> QED  BY <2>2, <2>3
<1> HIDE DEF ex, y, z
<1>3. w.zones \in SUBSET w.zones  OBVIOUS
<1>4. CASE x \in Crossing(w, w.zones, secret)
  BY <1>1, <1>2, <1>3, <1>4
<1>5. CASE x \notin Crossing(w, w.zones, secret)
  BY <1>1, <1>3, <1>5
<1> QED  BY <1>4, <1>5

\* Leaving zones out cuts their edges off and changes no other, not even its
\* weight.
THEOREM ExclusionIsInduced == Spec => []ExclusionInduces
<1>1. ReadOK => ExclusionInduces
  <2> SUFFICES ASSUME ReadOK, read # <<>>,
                      NEW w \in Worlds, w = read.world, NEW secret, secret = read.opts.secret
               PROVE  E = {e \in BuildEdges(w, w.zones, secret) : e.a \in Z /\ e.b \in Z}
    BY DEF ExclusionInduces, ReadOK, Z, E
  <2>1. Z \in SUBSET w.zones /\ E = BuildEdges(w, Z, secret)  BY DEF ReadOK, IncludedZones
  <2>2. ASSUME NEW x, Border(w, x)[1] \in Z, Border(w, x)[2] \in Z
        PROVE  EdgeAt(w, Z, secret, x) = EdgeAt(w, w.zones, secret, x)
    <3>1. ASSUME NEW y, Border(w, y) = Border(w, x)
          PROVE  y \in Crossing(w, Z, secret) <=> y \in Crossing(w, w.zones, secret)
      BY <2>1, <2>2, <3>1, CrossingWithin
    <3>2. {y \in Crossing(w, Z, secret) : Border(w, y) = Border(w, x)} =
          {y \in Crossing(w, w.zones, secret) : Border(w, y) = Border(w, x)}
      BY <3>1
    <3> QED  BY <3>2 DEF EdgeAt, Weight
  <2>3. E = {EdgeAt(w, Z, secret, x) : x \in Crossing(w, Z, secret)}
    BY <2>1, EdgesAreCrossed
  <2>4. BuildEdges(w, w.zones, secret) =
            {EdgeAt(w, w.zones, secret, x) : x \in Crossing(w, w.zones, secret)}
    BY EdgesAreCrossed
  <2>5. ASSUME NEW e \in E
        PROVE  e \in BuildEdges(w, w.zones, secret) /\ e.a \in Z /\ e.b \in Z
    <3>1. PICK x \in Crossing(w, Z, secret) : e = EdgeAt(w, Z, secret, x)  BY <2>3
    <3>2. /\ x \in Crossing(w, w.zones, secret)
          /\ Border(w, x)[1] \in Z /\ Border(w, x)[2] \in Z
      BY <2>1, CrossingWithin
    <3>3. e = EdgeAt(w, w.zones, secret, x)  BY <3>1, <3>2, <2>2
    <3> QED  BY <3>2, <3>3, <2>4 DEF EdgeAt
  <2>6. ASSUME NEW e \in BuildEdges(w, w.zones, secret), e.a \in Z, e.b \in Z
        PROVE  e \in E
    <3>1. PICK x \in Crossing(w, w.zones, secret) : e = EdgeAt(w, w.zones, secret, x)  BY <2>4
    <3>2. Border(w, x)[1] \in Z /\ Border(w, x)[2] \in Z  BY <2>6, <3>1 DEF EdgeAt
    <3>3. x \in Crossing(w, Z, secret)  BY <2>1, <3>2, CrossingWithin
    <3> QED  BY <3>1, <3>2, <3>3, <2>2, <2>3
  <2> QED  BY <2>5, <2>6
<1> QED  BY <1>1, ReadAlways, PTL
---------------------------------------------------------------------------
(***************************************************************************)
(* How far the crawl still has to go                                       *)
(***************************************************************************)
\* The zones above one: what its parents lead to, itself included.
Above(z) == {y \in Z : \A S \in SUBSET Z : Enclosed(S) /\ z \in S => y \in S}

LEMMA AboveClosed ==
  ASSUME parent \in [Z -> Z], NEW z \in Z
  PROVE  z \in Above(z) /\ Enclosed(Above(z)) /\ Above(z) \subseteq Z
BY DEF Above, Enclosed

LEMMA AboveLeast ==
  ASSUME NEW z \in Z, NEW S \in SUBSET Z, Enclosed(S), z \in S
  PROVE  Above(z) \subseteq S
BY DEF Above

\* Above a zone are the zone and what is above its parent.
LEMMA AboveParent ==
  ASSUME parent \in [Z -> Z], NEW z \in Z
  PROVE  Above(z) = {z} \cup Above(parent[z])
<1>1. parent[z] \in Z  OBVIOUS
<1>2. Above(z) \subseteq {z} \cup Above(parent[z])
  <2> DEFINE S == {z} \cup Above(parent[z])
  <2>1. S \in SUBSET Z /\ Enclosed(S) /\ z \in S
    BY <1>1, AboveClosed DEF Enclosed
  <2> HIDE DEF S
  <2>2. Above(z) \subseteq S  BY <2>1, AboveLeast
  <2> QED  BY <2>2 DEF S
<1>3. Above(parent[z]) \subseteq Above(z)
  <2>1. parent[z] \in Above(z)  BY AboveClosed DEF Enclosed
  <2> QED  BY <1>1, <2>1, AboveClosed, AboveLeast
<1>4. z \in Above(z)  BY AboveClosed
<1> QED  BY <1>2, <1>3, <1>4

\* No way up comes back to a zone that is not a root.
LEMMA NoWayBack ==
  ASSUME parent \in [Z -> Z], Grounded, NEW w \in Z, parent[w] # w,
         NEW z \in Above(w), parent[z] = w
  PROVE  FALSE
<1> DEFINE S == {y \in Above(w) : w \in Above(y)}
<1>1. z \in Z /\ parent[w] \in Z /\ z # w  BY AboveClosed
<1>2. w \in Above(parent[w])
  <2>1. z \in Above(parent[w])  BY <1>1, AboveParent
  <2> QED  BY <1>1, <2>1, AboveClosed DEF Enclosed
<1>3. Enclosed(S)
  <2> SUFFICES ASSUME NEW y \in S PROVE parent[y] \in S  BY DEF Enclosed
  <2>1. y \in Z /\ parent[y] \in Above(w)  BY AboveClosed DEF Enclosed
  <2>2. CASE y = w  BY <1>2, <2>1, <2>2
  <2>3. CASE y # w  BY <2>1, <2>3, AboveParent
  <2> QED  BY <2>2, <2>3
<1>4. S \in SUBSET Z /\ w \in S  BY AboveClosed
<1> HIDE DEF S
<1>5. PICK r \in S : parent[r] = r  BY <1>3, <1>4 DEF Grounded
<1>6. r \in Z /\ w \in Above(r)  BY <1>4, <1>5 DEF S
<1>7. {r} \in SUBSET Z /\ Enclosed({r})  BY <1>5, <1>6 DEF Enclosed
<1>8. Above(r) \subseteq {r}  BY <1>6, <1>7, AboveLeast
<1> QED  BY <1>5, <1>6, <1>8

\* A round of find leaves the zone it was at below, and brings none in.
LEMMA HalveClimbs ==
  ASSUME IInv, Halve
  PROVE  Above(walk)' \subseteq Above(walk) \ {walk} /\ walk \in Above(walk)
<1>1. Z' = Z  BY SameGraph DEF Same, Halve
<1>2. /\ walk \in Z /\ parent \in [Z -> Z] /\ parent[walk] # walk
      /\ parent' = [parent EXCEPT ![walk] = parent[parent[walk]]]
      /\ walk' = parent'[walk] /\ Grounded
  BY DEF IInv, Halve, WalkOK, TypeOK, Z
<1>3. walk' = parent[parent[walk]] /\ walk' \in Z  BY <1>2
<1> DEFINE T == Above(walk) \ {walk}
<1>4. walk \in Above(walk) /\ Enclosed(Above(walk)) /\ Above(walk) \subseteq Z
  BY <1>2, AboveClosed
<1>5. \A z \in Above(walk) : parent[z] # walk  BY <1>2, NoWayBack
<1>6. parent[walk] \in Above(walk) /\ walk' \in T
  BY <1>2, <1>3, <1>4, <1>5 DEF Enclosed
<1>7. \A z \in T : parent'[z] \in T
  BY <1>2, <1>4, <1>5 DEF Enclosed
<1>8. T \in SUBSET Z  BY <1>4
<1> HIDE DEF T
<1>9. Above(walk)' = {y \in Z : \A S \in SUBSET Z :
                          (\A z \in S : parent'[z] \in S) /\ walk' \in S => y \in S}
  BY <1>1 DEF Above, Enclosed
<1>10. Above(walk)' \subseteq T  BY <1>6, <1>7, <1>8, <1>9
<1> QED  BY <1>4, <1>10 DEF T

\* What is left to do: edges to merge, zones to count, the part of the loop's
\* body, and the zones above the one find is at.
Part == IF pc = "findA" THEN 3 ELSE IF pc \in {"findB", "findZone"} THEN 2
        ELSE IF pc = "merge" THEN 1 ELSE 0
Left == <<Cardinality(todo), Cardinality(rest), Part, Cardinality(Above(walk))>>

\* The order of the words, from the first number that differs.
Less(p, q) == \E i \in 1 .. 4 : p[i] < q[i] /\ \A j \in 1 .. i - 1 : p[j] = q[j]

LEMMA EdgesFinite == ReadOK => IsFiniteSet(E)
<1> SUFFICES ASSUME ReadOK, read # <<>> PROVE IsFiniteSet(E)
  BY FS_EmptySet DEF ReadOK
<1> DEFINE w == read.world
<1> DEFINE X == Crossing(w, Z, read.opts.secret)
<1> DEFINE f == [x \in X |-> EdgeAt(w, Z, read.opts.secret, x)]
<1>1. IsFiniteSet(X)
  <2>1. X \subseteq DOMAIN w.exits  BY DEF Crossing
  <2>2. IsFiniteSet(DOMAIN w.exits)  BY WorldsAssumption DEF ReadOK
  <2> QED  BY <2>1, <2>2, FS_Subset
<1>2. E = {EdgeAt(w, Z, read.opts.secret, x) : x \in X}
  BY EdgesAreCrossed DEF ReadOK
<1>3. E = {f[x] : x \in X}  BY <1>2
<1>4. f \in Surjection(X, E)
  <2> HIDE DEF X
  <2> QED  BY <1>3, Fun_IsSurj
<1> QED  BY <1>1, <1>4, FS_Surjection

LEMMA SetsFinite ==
  ASSUME IInv, ReadOK
  PROVE  IsFiniteSet(todo) /\ IsFiniteSet(rest) /\ IsFiniteSet(Above(walk))
<1>1. IsFiniteSet(Z)  BY ZonesAssumption, FS_Subset DEF IInv, EdgesJoin
<1>2. Above(walk) \subseteq Z  BY DEF Above
<1>3. todo \subseteq E /\ rest \subseteq Z  BY DEF IInv, TypeOK, E, Z
<1> QED  BY <1>1, <1>2, <1>3, EdgesFinite, FS_Subset

Numbered ==
    /\ Cardinality(todo) \in Nat /\ Cardinality(rest) \in Nat
    /\ Part \in Nat /\ Cardinality(Above(walk)) \in Nat

LEMMA LeftIsNatural == IInv /\ ReadOK => Numbered
BY SetsFinite, FS_CardinalityType DEF Numbered, Part

LEMMA SmallerSet ==
  ASSUME NEW S, IsFiniteSet(S), NEW T \in SUBSET S, NEW x \in S, x \notin T
  PROVE  Cardinality(T) < Cardinality(S)
<1>1. T # S  OBVIOUS
<1>2. Cardinality(T) \in Nat /\ Cardinality(S) \in Nat
  BY FS_Subset, FS_CardinalityType
<1> QED  BY <1>1, <1>2, FS_Subset

LEMMA EachStepLess ==
  ASSUME IInv, ReadOK, Numbered', Counting
  PROVE  Less(Left', Left)
<1> DEFINE a == Cardinality(todo)
           b == Cardinality(rest)
           c == Part
           d == Cardinality(Above(walk))
<1>1. a \in Nat /\ b \in Nat /\ c \in Nat /\ d \in Nat  BY LeftIsNatural DEF Numbered
<1>2. a' \in Nat /\ b' \in Nat /\ c' \in Nat /\ d' \in Nat  BY DEF Numbered
<1>3. \/ a' < a
      \/ a' = a /\ b' < b
      \/ a' = a /\ b' = b /\ c' < c
      \/ a' = a /\ b' = b /\ c' = c /\ d' < d
  <2>1. CASE TakeEdge
    <3>1. PICK e \in todo : todo' = todo \ {e}  BY <2>1 DEF TakeEdge
    <3>2. a' < a  BY <3>1, SetsFinite, SmallerSet
    <3> QED  BY <3>2
  <2>2. CASE Halve
    <3>1. todo' = todo /\ rest' = rest /\ pc' = pc  BY <2>2 DEF Halve
    <3>2. d' < d  BY <2>2, HalveClimbs, SetsFinite, SmallerSet
    <3> QED  BY <3>1, <3>2 DEF Part
  <2>3. CASE FoundA \/ Merge \/ CountRoot \/ Finish
    <3>1. todo' = todo /\ rest' = rest  BY <2>3 DEF FoundA, Merge, CountRoot, Finish
    <3>2. c' < c  BY <2>3 DEF FoundA, Merge, CountRoot, Finish, Part
    <3> QED  BY <3>1, <3>2
  <2>4. CASE TakeZone
    <3>1. PICK z \in rest : todo' = todo /\ rest' = rest \ {z}  BY <2>4 DEF TakeZone
    <3>2. b' < b  BY <3>1, SetsFinite, SmallerSet
    <3> QED  BY <3>1, <3>2
  <2> QED  BY <2>1, <2>2, <2>3, <2>4 DEF Counting
<1>4. Left = <<a, b, c, d>> /\ Left' = <<a', b', c', d'>>  BY DEF Left
<1> HIDE DEF a, b, c, d
<1> QED
  <2>1. CASE a' < a  BY <1>4, <2>1 DEF Less
  <2>2. CASE a' = a /\ b' < b  BY <1>4, <2>2 DEF Less
  <2>3. CASE a' = a /\ b' = b /\ c' < c  BY <1>4, <2>3 DEF Less
  <2>4. CASE a' = a /\ b' = b /\ c' = c /\ d' < d  BY <1>4, <2>4 DEF Less
  <2> QED  BY <1>3, <2>1, <2>2, <2>3, <2>4

\* The crawl cannot go on for ever: every step of the count comes strictly
\* nearer to its end, also the steps of find, whose path halving rewrites the
\* forest they climb (countComponents, find).
THEOREM CountsDown ==
  Spec => [](Left \in Nat \X Nat \X Nat \X Nat) /\ [][Counting => Less(Left', Left)]_vars
<1>1. Numbered => Left \in Nat \X Nat \X Nat \X Nat
  BY DEF Left, Numbered
<1>2. IInv /\ ReadOK /\ Numbered' => (Counting => Less(Left', Left))
  BY EachStepLess
<1>3. Spec => []IInv  BY InitInv, NextInv, PTL DEF Spec
<1> QED  BY <1>1, <1>2, <1>3, LeftIsNatural, ReadAlways, PTL DEF Spec
---------------------------------------------------------------------------
(***************************************************************************)
(* What the simulation is given                                            *)
(***************************************************************************)
\* The graph as sim walks on it: zones, and for any zone its neighbours.
Walked(g) ==
    [nodes |-> NodeZones(g),
     nbrs |-> [z \in Zones |-> {n.zone : n \in Neighbors(g, z)}]]

\* Whatever graph Build returns is one that WeatherSim is stated for, and every
\* way on it leads back (Build, buildAdjacency, Neighbors).
THEOREM ServesTheSimulation ==
  Spec => [](/\ IsZoneGraph(Walked(graph), Zones)
             /\ \A y, z \in Zones :
                    y \in Walked(graph).nbrs[z] => z \in Walked(graph).nbrs[y])
<1> DEFINE nb == [z \in Zones |-> {n.zone : n \in Neighbors(graph, z)}]
           Serves == /\ IsZoneGraph(Walked(graph), Zones)
                     /\ \A y, z \in Zones :
                           y \in Walked(graph).nbrs[z] => z \in Walked(graph).nbrs[y]
<1>1. ASSUME IInv  PROVE Serves
  <2>1. /\ NodeZones(graph) \subseteq Zones
        /\ \A e \in graph.edges : e.a \in NodeZones(graph) /\ e.b \in NodeZones(graph) /\ e.a # e.b
    <3>1. CASE pc = "done"  BY <1>1, <3>1 DEF IInv, Done, EdgesJoin, Z, E, NodeZones
    <3>2. CASE pc # "done"  BY <1>1, <3>2 DEF IInv, Done, NoGraph, NodeZones
    <3> QED  BY <3>1, <3>2
  <2>2. \A y, z \in Zones : y \in nb[z] <=>
            \E e \in graph.edges : (e.a = z /\ e.b = y) \/ (e.b = z /\ e.a = y)
    <3> SUFFICES ASSUME NEW y \in Zones, NEW z \in Zones
                 PROVE  y \in nb[z] <=>
                    \E e \in graph.edges : (e.a = z /\ e.b = y) \/ (e.b = z /\ e.a = y)
      OBVIOUS
    <3>1. ASSUME NEW n \in Neighbors(graph, z)
          PROVE  \E e \in graph.edges : (e.a = z /\ e.b = n.zone) \/ (e.b = z /\ e.a = n.zone)
      BY DEF Neighbors
    <3>2. ASSUME NEW e \in graph.edges, (e.a = z /\ e.b = y) \/ (e.b = z /\ e.a = y)
          PROVE  [zone |-> y, weight |-> e.weight] \in Neighbors(graph, z)
      <4>1. CASE e.a = z /\ e.b = y
        <5>1. e \in {f \in graph.edges : f.a = z}  BY <4>1
        <5> QED  BY <4>1, <5>1 DEF Neighbors
      <4>2. CASE e.b = z /\ e.a = y
        <5>1. e \in {f \in graph.edges : f.b = z /\ f.b # f.a}  BY <2>1, <4>2
        <5> QED  BY <4>2, <5>1 DEF Neighbors
      <4> QED  BY <3>2, <4>1, <4>2
    <3>3. ASSUME y \in nb[z]
          PROVE  \E e \in graph.edges : (e.a = z /\ e.b = y) \/ (e.b = z /\ e.a = y)
      <4>1. PICK n \in Neighbors(graph, z) : y = n.zone  BY <3>3
      <4> QED  BY <3>1, <4>1
    <3>4. ASSUME NEW e \in graph.edges, (e.a = z /\ e.b = y) \/ (e.b = z /\ e.a = y)
          PROVE  y \in nb[z]
      <4> DEFINE n == [zone |-> y, weight |-> e.weight]
      <4>1. n \in Neighbors(graph, z) /\ n.zone = y  BY <3>2, <3>4
      <4> QED  BY <4>1
    <3> QED  BY <3>3, <3>4
  <2>3. \A z \in Zones : nb[z] \subseteq Zones
    <3> SUFFICES ASSUME NEW z \in Zones, NEW n \in Neighbors(graph, z) PROVE n.zone \in Zones
      OBVIOUS
    <3> QED  BY <2>1 DEF Neighbors
  <2> HIDE DEF nb
  <2>4. nb \in [Zones -> SUBSET Zones]  BY <2>3 DEF nb
  <2>5. \A z \in Zones \ NodeZones(graph) : nb[z] = {}  BY <2>1, <2>2, <2>3
  <2>6. \A z \in Zones : z \notin nb[z]  BY <2>1, <2>2
  <2>7. \A y, z \in Zones : y \in nb[z] => z \in nb[y]  BY <2>2
  <2>8. Walked(graph).nodes = NodeZones(graph) /\ Walked(graph).nbrs = nb
    BY DEF Walked, nb
  <2> QED  BY <2>1, <2>4, <2>5, <2>6, <2>7, <2>8 DEF IsZoneGraph
<1> HIDE DEF Serves
<1>2. Spec => []IInv  BY InitInv, NextInv, PTL DEF Spec
<1>3. Spec => []Serves  BY <1>1, <1>2, PTL
<1> QED  BY <1>3 DEF Serves
=============================================================================
