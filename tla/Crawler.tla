-------------------------------- MODULE Crawler --------------------------------
(***************************************************************************)
(* The crawl that builds the zone graph (package crawler), and the index   *)
(* of neighbours the simulation reads it through (sim/graph.go).  One      *)
(* behaviour is one call of Build: it runs on the game loop from the first *)
(* zone to the last, so the world and the options stay as they are.        *)
(* Reading the world is one step; the union-find that counts components    *)
(* is taken apart, since its find rewrites the forest while it walks it.   *)
(*                                                                         *)
(* Abstractions.  Zone names are naturals in name order.  A glob pattern   *)
(* is the set of zones it matches, or malformed.  The code takes edges in  *)
(* name order and zones in map order; here both come in any order.         *)
(***************************************************************************)
EXTENDS Naturals, Sequences, FiniteSets, ZoneGraph

CONSTANTS
    Zones,      \* every zone name, as its rank in name order
    Rooms,      \* room ids
    Exits,      \* identities of exits
    Worlds,     \* the worlds a crawl can find
    Options     \* the crawl options: [secret, patterns]

Pattern == [matches : SUBSET Zones, bad : BOOLEAN]

ASSUME ZonesAssumption == Zones \subseteq Nat /\ IsFiniteSet(Zones)

\* zones: ZoneNames; zoneOf: the zone that lists a room; loads: the rooms
\* LoadRoom finds; exits: those of the rooms that load.
ASSUME WorldsAssumption ==
    \A w \in Worlds :
        /\ w.zones \subseteq Zones
        /\ DOMAIN w.zoneOf \subseteq Rooms
        /\ \A r \in DOMAIN w.zoneOf : w.zoneOf[r] \in w.zones
        /\ DOMAIN w.exits \subseteq Exits
        /\ IsFiniteSet(DOMAIN w.exits)
        /\ \A x \in DOMAIN w.exits :
               w.exits[x] \in [from : Rooms, to : Rooms, secret : BOOLEAN]

ASSUME OptionsAssumption ==
    \A o \in Options : o.secret \in BOOLEAN /\ o.patterns \in Seq(Pattern)

VARIABLES
    graph,      \* what Build returned, NoGraph until it has
    pc,         \* what the crawl is doing
    built,      \* nodes and edges of the crawl that runs
    todo,       \* edges not yet merged
    rest,       \* zones whose root is not yet counted
    edge,       \* the edge being merged
    walk,       \* the x of find
    root,       \* ra: what find returned for the edge's first end
    parent,     \* the union-find forest
    roots,      \* the roots counted so far
    label,      \* history: the root above each zone
    read        \* history: the world and the options of the crawl

vars == <<graph, pc, built, todo, rest, edge, walk, root, parent, roots, label, read>>
forest == <<parent, label>>

NoGraph == [nodes |-> {}, edges |-> {}, components |-> 0]
NoEdge == [a |-> 0, b |-> 0, weight |-> 0]
---------------------------------------------------------------------------
(***************************************************************************)
(* Reading the world                                                       *)
(***************************************************************************)
\* isExcluded: patterns are tried in turn until one matches or is malformed.
Stops(p, z) == p.bad \/ z \in p.matches
Deciding(ps, z) ==
    {i \in DOMAIN ps : Stops(ps[i], z) /\ \A j \in 1 .. i - 1 : ~Stops(ps[j], z)}
\* Mutated form: only the first pattern is checked.
MalformedFirst(ps, z) == ps # <<>> /\ ps[1].bad

Malformed(ps, z) == \E i \in Deciding(ps, z) : ps[i].bad
IsExcluded(ps, z) == \E i \in Deciding(ps, z) : ~ps[i].bad

IncludedZones(w, o) == {z \in w.zones : ~IsExcluded(o.patterns, z)}

RoomIDs(w, z) == {r \in DOMAIN w.zoneOf : w.zoneOf[r] = z}

\* Mutated form: rooms of excluded zones are indexed too.
RoomZoneAll(w, zones) == w.zoneOf

\* indexRoomZones: a room of an excluded zone is as unknown as one of none.
RoomZone(w, zones) == [r \in {s \in DOMAIN w.zoneOf : w.zoneOf[s] \in zones} |-> w.zoneOf[r]]

BuildNodes(w, zones) ==
    {[zone |-> z,
      biome |-> w.biome[z],
      rooms |-> Cardinality(RoomIDs(w, z)),
      outdoor |-> RoomIDs(w, z) \cap w.loads \cap w.outdoor # {}] : z \in zones}

\* Mutated form: the pair as the exit leads.
PairAsFound(a, b) == <<a, b>>

CanonicalPair(a, b) == IF a <= b THEN <<a, b>> ELSE <<b, a>>

\* The exits that count: of a room that loads, between two included zones.
Crossing(w, zones, secret) ==
    LET zone == RoomZone(w, zones) IN
    {x \in DOMAIN w.exits :
        LET ex == w.exits[x] IN
        /\ ex.from \in DOMAIN zone /\ ex.from \in w.loads
        /\ ex.secret => secret
        /\ ex.to \in DOMAIN zone
        /\ zone[ex.from] # zone[ex.to]}

Border(w, x) == CanonicalPair(w.zoneOf[w.exits[x].from], w.zoneOf[w.exits[x].to])

BuildEdges(w, zones, secret) ==
    LET crossing == Crossing(w, zones, secret) IN
    {[a |-> Border(w, x)[1], b |-> Border(w, x)[2],
      weight |-> Cardinality({y \in crossing : Border(w, y) = Border(w, x)})] : x \in crossing}

\* Mutated form: only the first end lists the edge.
NeighborsOneWay(g, z) ==
    {[zone |-> e.b, weight |-> e.weight] : e \in {f \in g.edges : f.a = z}}

\* buildAdjacency and Neighbors: every edge is listed at both of its ends.
Neighbors(g, z) ==
    {[zone |-> e.b, weight |-> e.weight] : e \in {f \in g.edges : f.a = z}} \cup
    {[zone |-> e.a, weight |-> e.weight] : e \in {f \in g.edges : f.b = z /\ f.b # f.a}}

NodeZones(g) == {n.zone : n \in g.nodes}
---------------------------------------------------------------------------
(***************************************************************************)
(* The crawl                                                               *)
(***************************************************************************)
\* countComponents: every zone its own tree.
Singletons(g) == [z \in NodeZones(g) |-> z]

Init ==
    /\ graph = NoGraph /\ pc = "idle"
    /\ built = NoGraph /\ todo = {} /\ rest = {} /\ edge = NoEdge
    /\ walk = 0 /\ root = 0 /\ roots = {}
    /\ parent = Singletons(NoGraph) /\ label = Singletons(NoGraph)
    /\ read = <<>>

\* includedZones fails, and Build with it: the caller keeps the graph it has.
CrawlFails(w, o) ==
    /\ pc = "idle"
    /\ \E z \in w.zones : Malformed(o.patterns, z)
    /\ pc' = "failed"
    /\ UNCHANGED <<graph, built, todo, rest, edge, walk, root, forest, roots, read>>

\* includedZones, buildNodes, buildEdges, and the forest of single zones.
Crawl(w, o) ==
    LET zones == IncludedZones(w, o)
        edges == BuildEdges(w, zones, o.secret)
    IN
    /\ pc = "idle"
    /\ \A z \in w.zones : ~Malformed(o.patterns, z)
    /\ built' = [nodes |-> BuildNodes(w, zones), edges |-> edges, components |-> 0]
    /\ todo' = edges /\ rest' = zones /\ roots' = {}
    /\ parent' = Singletons(built') /\ label' = Singletons(built')
    /\ read' = [world |-> w, opts |-> o]
    /\ pc' = "merge"
    /\ UNCHANGED <<graph, edge, walk, root>>

\* countComponents' loop over the edges: find(e.A) starts.
TakeEdge ==
    /\ pc = "merge" /\ todo # {}
    /\ \E e \in todo : edge' = e /\ todo' = todo \ {e} /\ walk' = e.a
    /\ pc' = "findA"
    /\ UNCHANGED <<graph, built, rest, root, roots, forest, read>>

\* Mutated form: the parent is halved but the walk stays.
HalveInPlace ==
    /\ pc \in {"findA", "findB", "findZone"} /\ parent[walk] # walk
    /\ parent' = [parent EXCEPT ![walk] = parent[parent[walk]]]
    /\ UNCHANGED <<graph, pc, built, todo, rest, edge, walk, root, roots, label, read>>

\* One round of find's loop: path halving, then a step up.
Halve ==
    /\ pc \in {"findA", "findB", "findZone"} /\ parent[walk] # walk
    /\ parent' = [parent EXCEPT ![walk] = parent[parent[walk]]]
    /\ walk' = parent'[walk]
    /\ UNCHANGED <<graph, pc, built, todo, rest, edge, root, roots, label, read>>

FoundA ==
    /\ pc = "findA" /\ parent[walk] = walk
    /\ root' = walk /\ walk' = edge.b /\ pc' = "findB"
    /\ UNCHANGED <<graph, built, todo, rest, edge, roots, forest, read>>

\* Mutated form: the edge's end is hung under the root, not its root.
UnionFromEnd(ra, rb) ==
    /\ parent' = [parent EXCEPT ![edge.a] = rb]
    /\ label' = [z \in DOMAIN label |-> IF label[z] = ra THEN rb ELSE label[z]]

\* Both roots are known: the first goes under the second.
Union(ra, rb) ==
    /\ parent' = [parent EXCEPT ![ra] = rb]
    /\ label' = [z \in DOMAIN label |-> IF label[z] = ra THEN rb ELSE label[z]]

Merge ==
    /\ pc = "findB" /\ parent[walk] = walk
    /\ \/ root # walk /\ Union(root, walk)
       \/ root = walk /\ UNCHANGED forest
    /\ pc' = "merge"
    /\ UNCHANGED <<graph, built, todo, rest, edge, walk, root, roots, read>>

\* The loop over the zones: find(z) starts.
TakeZone ==
    /\ pc = "merge" /\ todo = {}
    /\ \E z \in rest : rest' = rest \ {z} /\ walk' = z
    /\ pc' = "findZone"
    /\ UNCHANGED <<graph, built, todo, edge, root, roots, forest, read>>

\* roots[find(z)] = true
CountRoot ==
    /\ pc = "findZone" /\ parent[walk] = walk
    /\ roots' = roots \cup {walk} /\ pc' = "merge"
    /\ UNCHANGED <<graph, built, todo, rest, edge, walk, root, forest, read>>

\* Build returns the graph.
Finish ==
    /\ pc = "merge" /\ todo = {} /\ rest = {}
    /\ graph' = [nodes |-> built.nodes, edges |-> built.edges, components |-> Cardinality(roots)]
    /\ pc' = "done"
    /\ UNCHANGED <<built, todo, rest, edge, walk, root, forest, roots, read>>

Counting == TakeEdge \/ Halve \/ FoundA \/ Merge \/ TakeZone \/ CountRoot \/ Finish

Next ==
    \/ \E w \in Worlds, o \in Options : Crawl(w, o) \/ CrawlFails(w, o)
    \/ Counting

Spec == Init /\ [][Next]_vars

\* Build is a loop without waits: once begun it runs to its end.
FairSpec == Spec /\ WF_vars(Counting)
---------------------------------------------------------------------------
(***************************************************************************)
(* Properties                                                              *)
(***************************************************************************)
TypeOK ==
    /\ pc \in {"idle", "failed", "merge", "findA", "findB", "findZone", "done"}
    /\ rest \subseteq NodeZones(built) /\ todo \subseteq built.edges
    /\ parent \in [NodeZones(built) -> NodeZones(built)]
    /\ roots \subseteq NodeZones(built)

\* Connected: no set of zones closed under the edges parts the two.
Closed(S, edges) == \A e \in edges : e.a \in S <=> e.b \in S
Connected(zones, edges, y, z) ==
    \A S \in SUBSET zones : Closed(S, edges) /\ y \in S => z \in S
ComponentOf(zones, edges, z) == {y \in zones : Connected(zones, edges, z, y)}
ConnectedComponents(g) == {ComponentOf(NodeZones(g), g.edges, z) : z \in NodeZones(g)}

\* What countComponents returns is the number of connected components,
\* whatever the order of the edges and however path halving reshaped the
\* forest on the way; an isolated zone is one of its own.
ComponentsCounted == graph.components = Cardinality(ConnectedComponents(graph))

\* Fronts drift and coverage spreads along Neighbors: a zone's neighbour
\* lists it back with the same weight, each neighbour is listed once, and
\* none is the zone itself or outside the graph.
NeighborsAgree ==
    \A z \in NodeZones(built) : \A n \in Neighbors(built, z) :
        /\ n.zone \in NodeZones(built) \ {z}
        /\ [zone |-> z, weight |-> n.weight] \in Neighbors(built, n.zone)
        /\ \A k \in Neighbors(built, z) : k.zone = n.zone => k = n

\* Leaving a zone out takes its edges and touches no other: the graph is
\* the one of the whole world, cut down to the included zones.
ExclusionInduces ==
    read # <<>> =>
        LET zones == NodeZones(built)
            whole == BuildEdges(read.world, read.world.zones, read.opts.secret)
        IN built.edges = {e \in whole : e.a \in zones /\ e.b \in zones}

\* A crawl that succeeds left out exactly the zones some pattern matches: a
\* malformed pattern either fails it or decided no zone, wherever it stands
\* in the list.
BadPatternsNeverCount ==
    read # <<>> =>
        LET good == {i \in DOMAIN read.opts.patterns : ~read.opts.patterns[i].bad}
        IN NodeZones(built) =
               {z \in read.world.zones : \A i \in good : z \notin read.opts.patterns[i].matches}

\* Build returns: find's walk under path halving ends from every zone.
CrawlEnds == (pc = "merge") ~> (pc = "done")
=============================================================================
