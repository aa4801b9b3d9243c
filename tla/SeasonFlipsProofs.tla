--------------------------- MODULE SeasonFlipsProofs ---------------------------
(***************************************************************************)
(* Proofs about SeasonFlips, for any finite set of zones, any tracks and    *)
(* crawls, and queues of any length: what zones show agrees with what the  *)
(* module last resolved, and so does what a listener knows once it has     *)
(* handled its events.  SeasonsShown is inductive once it is known that an *)
(* id wanted of a zone depends on the resolution alone, not on the         *)
(* calendar, which may have turned since; EventsSuffice needs to be said   *)
(* of the events that still wait.                                          *)
(***************************************************************************)
EXTENDS SeasonFlips, SequenceTheorems, FiniteSetTheorems, TLAPS

Bound(g) == {z \in DOMAIN g : g[z] # Unbound}

\* A resolution covers exactly the zones whose biome has a track (ZoneSeasons).
LEMMA ResolvedDomain == ASSUME NEW g PROVE DOMAIN Resolved(g) = Bound(g)
  BY DEF Resolved, Bound

\* After a reconcile no zone of the graph shows anything but its season.
LEMMA ReconcileShows ==
    ASSUME NEW g \in Crawls, NEW zs, NEW z \in DOMAIN g
    PROVE  ReconcileSeasons(g, zs)[z] = Want(zs, z)
<1>1. z \in Zones
  BY CrawlsAssumption
<1> QED  BY <1>1 DEF ReconcileSeasons

ShownPerZone == shown = [z \in Zones |-> shown[z]]

IInv == graph \in Crawls /\ ShownPerZone /\ SeasonsShown

\* Resolving a graph's seasons and reconciling with them re-establishes the
\* invariant whatever was shown before.
LEMMA ResolveEstablishes ==
    ASSUME graph' \in Crawls, zoneSeasons' = Resolved(graph'),
           shown' = ReconcileSeasons(graph', zoneSeasons')
    PROVE  IInv'
<1>1. DOMAIN zoneSeasons' = {z \in DOMAIN graph' : graph'[z] # Unbound}
  BY ResolvedDomain DEF Bound
<1>2. ASSUME NEW z \in DOMAIN graph' PROVE shown'[z] \subseteq Want(zoneSeasons', z)
  BY <1>2, ReconcileShows
<1>3. SeasonsShown'
  BY <1>1, <1>2 DEF SeasonsShown, Want
<1>4. ShownPerZone'
  BY DEF ShownPerZone, ReconcileSeasons
<1> QED  BY <1>3, <1>4 DEF IInv

\* So does loading them, or leaving them off (loadSeasons).
LEMMA LoadEstablishes ==
    ASSUME ShownPerZone, NEW g \in Crawls, graph' = g, LoadSeasons(g) PROVE IInv'
<1>1. CASE seasonsOn'
  BY <1>1, ResolveEstablishes DEF LoadSeasons
<1>2. CASE ~seasonsOn'
  BY <1>2 DEF IInv, ShownPerZone, SeasonsShown, LoadSeasons
<1> QED  BY <1>1, <1>2

\* At boot seasons do not run yet.
LEMMA InitInvariant == Init => IInv
  BY DEF Init, Bare, IInv, ShownPerZone, SeasonsShown

\* Every step keeps the invariant.
LEMMA StepInvariant == IInv /\ [Next]_vars => IInv'
<1> SUFFICES ASSUME IInv, [Next]_vars PROVE IInv'
  OBVIOUS
<1>1. CASE StartSim
  BY <1>1, LoadEstablishes DEF StartSim, IInv
<1>2. CASE Tick
  BY <1>2, ResolveEstablishes DEF Tick, IInv
<1>3. CASE Rebuild
  <2>1. CASE ~ready
    BY <1>3, <2>1, LoadEstablishes DEF Rebuild, IInv
  <2>2. CASE ready /\ seasonsOn
    BY <1>3, <2>2, ResolveEstablishes DEF Rebuild
  <2>3. CASE ready /\ ~seasonsOn
    BY <1>3, <2>3 DEF Rebuild, IInv, ShownPerZone, SeasonsShown
  <2> QED  BY <2>1, <2>2, <2>3
<1>4. CASE ToggleSeasons
  <2>1. CASE ~ready
    BY <1>4, <2>1 DEF ToggleSeasons, IInv, ShownPerZone, SeasonsShown, Want
  <2>2. CASE ready /\ enabled'
    BY <1>4, <2>2, LoadEstablishes DEF ToggleSeasons, IInv
  <2>3. CASE ready /\ ~enabled'
    BY <1>4, <2>3 DEF ToggleSeasons, ReconcileSeasons, IInv, ShownPerZone, SeasonsShown
  <2> QED  BY <2>1, <2>2, <2>3
<1>5. CASE UNCHANGED <<graph, seasonsOn, zoneSeasons, shown>>
  BY <1>5 DEF IInv, ShownPerZone, SeasonsShown, Want
<1>6. CASE Restart
  BY <1>6 DEF Restart, Bare, IInv, ShownPerZone, SeasonsShown
<1>7. CASE Decay
  <2>1. graph' = graph /\ seasonsOn' = seasonsOn /\ zoneSeasons' = zoneSeasons
    BY <1>7 DEF Decay
  <2>2. ASSUME seasonsOn, NEW z \in DOMAIN graph
        PROVE  shown'[z] \subseteq Want(zoneSeasons, z)
    <3>1. shown[z] \subseteq Want(zoneSeasons, z) /\ z \in Zones
      BY <2>2, CrawlsAssumption DEF IInv, ShownPerZone, SeasonsShown
    <3>2. shown'[z] \subseteq shown[z]
      BY <1>7, <3>1 DEF Decay, IInv, ShownPerZone
    <3> QED  BY <3>1, <3>2
  <2>3. ShownPerZone'
    BY <1>7 DEF Decay, IInv, ShownPerZone
  <2>4. zoneSeasons' = zoneSeasons /\ \A z : Want(zoneSeasons', z) = Want(zoneSeasons, z)
    BY <2>1
  <2> QED  BY <2>1, <2>2, <2>3, <2>4 DEF IInv, SeasonsShown
<1>8. UNCHANGED <<graph, seasonsOn, zoneSeasons, shown>> \/ StartSim \/ Tick \/ Rebuild
      \/ ToggleSeasons \/ Restart \/ Decay
  BY DEF Next, External, Listen, CalendarTurns, vars
<1> QED  BY <1>1, <1>2, <1>3, <1>4, <1>5, <1>6, <1>7, <1>8

\* While seasons run, no zone of the graph shows another season than the one
\* the module last resolved for it and exports (ReconcileSeasons).
THEOREM NeverAnotherSeason == Spec => []SeasonsShown
<1>1. IInv => SeasonsShown
  BY DEF IInv
<1> QED  BY <1>1, InitInvariant, StepInvariant, PTL DEF Spec

---------------------------------------------------------------------------
(***************************************************************************)
(* Types                                                                   *)
(***************************************************************************)
Event == [zone : Zones, from : ZoneSeason, to : ZoneSeason]

LEMMA ZoneSeasonIs ==
    ASSUME NEW t \in Tracks, NEW s \in 1..SeasonCount[t]
    PROVE  [track |-> t, season |-> s] \in ZoneSeason
  BY DEF ZoneSeason

LEMMA BoundZones == ASSUME NEW g \in Crawls PROVE Bound(g) \in SUBSET Zones
  BY CrawlsAssumption DEF Bound

\* A resolution gives each zone of a track that track's season of the moment.
LEMMA ResolvedType ==
    ASSUME calendar \in Positions, NEW g \in Crawls
    PROVE  /\ Resolved(g) \in [Bound(g) -> ZoneSeason]
           /\ \A z \in Bound(g) : Resolved(g)[z].track = g[z]
<1>1. ASSUME NEW z \in Bound(g)
      PROVE  [track |-> g[z], season |-> calendar[g[z]]] \in ZoneSeason
  <2>1. g[z] \in Tracks
    BY <1>1, CrawlsAssumption DEF Bound
  <2>2. calendar[g[z]] \in 1..SeasonCount[g[z]]
    BY <2>1 DEF Positions
  <2> QED  BY <2>1, <2>2, ZoneSeasonIs
<1> QED  BY <1>1 DEF Resolved, Bound

\* What a reconcile shows are seasons.
LEMMA ReconcileType ==
    ASSUME NEW g, NEW Y, NEW zs \in [Y -> ZoneSeason],
           shown \in [Zones -> SUBSET ZoneSeason]
    PROVE  ReconcileSeasons(g, zs) \in [Zones -> SUBSET ZoneSeason]
  BY DEF ReconcileSeasons, Want

NoSeasonsYet == NoSeasons \in [{} -> ZoneSeason]

LEMMA NoSeasonsType == NoSeasonsYet
  BY DEF NoSeasonsYet, NoSeasons

\* The calendar stays in range as its tracks turn, from the last season to the
\* first.
LEMMA TurnType ==
    ASSUME calendar \in Positions, NEW t \in Tracks, CalendarTurns(t)
    PROVE  calendar' \in Positions
<1> DEFINE next == (calendar[t] % SeasonCount[t]) + 1
<1>1. SeasonCount[t] \in Nat \ {0} /\ calendar[t] \in 1..SeasonCount[t]
  BY TracksAssumption DEF Positions
<1>2. next \in 1..SeasonCount[t]
  BY <1>1
<1>3. calendar' = [calendar EXCEPT ![t] = next]
  BY DEF CalendarTurns
<1> HIDE DEF next
<1>4. \A u \in Tracks : calendar'[u] \in 1..SeasonCount[u]
  BY <1>2, <1>3 DEF Positions
<1> QED  BY <1>3, <1>4, <1>2 DEF Positions

\* The events a resolution calls for: of finitely many zones, each from its old
\* season to its new one.
LEMMA FlipsType ==
    ASSUME NEW Y \in SUBSET Zones, NEW zs \in [Y -> ZoneSeason],
           NEW X \in SUBSET Zones, zoneSeasons \in [X -> ZoneSeason]
    PROVE  Flips(zs) \subseteq Event /\ IsFiniteSet(Flips(zs))
<1> DEFINE Moved == {y \in DOMAIN zs \cap DOMAIN zoneSeasons :
                        zs[y].track = zoneSeasons[y].track /\ zs[y].season # zoneSeasons[y].season}
           flip(z) == [zone |-> z, from |-> zoneSeasons[z], to |-> zs[z]]
<1>1. Moved \in SUBSET Zones
  OBVIOUS
<1>2. IsFiniteSet(Moved)
  BY <1>1, ZonesAssumption, FS_Subset
<1>3. Flips(zs) = {flip(z) : z \in Moved}
  BY DEF Flips
<1>4. \A z \in Moved : flip(z) \in Event
  BY DEF Event
<1> DEFINE f == [z \in Moved |-> flip(z)]
<1>5. f \in Surjection(Moved, Flips(zs))
  BY <1>3 DEF Surjection
<1> HIDE DEF Moved, flip, f
<1>6. IsFiniteSet(Flips(zs))
  BY <1>2, <1>5, FS_Surjection
<1> QED  BY <1>3, <1>4, <1>6

\* In whatever order a finite set is listed, every member is.
LEMMA ListedAll ==
    ASSUME NEW S, IsFiniteSet(S), NEW order \in SetToSeqs(S)
    PROVE  order \in Seq(S) /\ \A x \in S : \E i \in DOMAIN order : order[i] = x
<1> DEFINE n == Cardinality(S)
<1>1. n \in Nat
  BY FS_CardinalityType
<1>2. order \in [1..n -> S] /\ \A i, j \in 1..n : i # j => order[i] # order[j]
  BY DEF SetToSeqs
<1>3. IsFiniteSet(1..n) /\ Cardinality(1..n) = n
  BY <1>1, FS_Interval
<1>4. order \in Injection(1..n, S)
  BY <1>2 DEF Injection, IsInjective
<1>5. order \in Surjection(1..n, S)
  BY <1>3, <1>4, FS_Injection
<1> QED  BY <1>1, <1>2, <1>5 DEF Surjection


\* The parts of TypeOK that a step can disturb.
SeasonsType == \E Y \in SUBSET Zones : zoneSeasons \in [Y -> ZoneSeason]
HeardType == \E Y \in SUBSET Zones : heard \in [Y -> ZoneSeason]
ShownType == shown \in [Zones -> SUBSET ZoneSeason]
QueueType == queue \in Seq(Event)

Types ==
    /\ calendar \in Positions
    /\ ready \in BOOLEAN /\ enabled \in BOOLEAN /\ seasonsOn \in BOOLEAN
    /\ meddled \in BOOLEAN /\ graph \in Crawls
    /\ SeasonsType /\ HeardType /\ ShownType /\ QueueType

LEMMA TypeInit == Init => Types
<1> SUFFICES ASSUME Init PROVE Types
  OBVIOUS
<1>1. SeasonsType /\ HeardType
  BY NoSeasonsType DEF Init, NoSeasonsYet, SeasonsType, HeardType
<1>2. ShownType /\ QueueType
  BY DEF Init, Bare, ShownType, QueueType
<1> QED  BY <1>1, <1>2, NoSeasonsType DEF Init, Types

\* Resolving a graph's seasons and showing them keeps both in their types.
LEMMA ResolveTypes ==
    ASSUME calendar \in Positions, ShownType, NEW g \in Crawls,
           zoneSeasons' = Resolved(g), shown' = ReconcileSeasons(g, zoneSeasons')
    PROVE  SeasonsType' /\ ShownType'
<1>1. zoneSeasons' \in [Bound(g) -> ZoneSeason] /\ Bound(g) \in SUBSET Zones
  BY ResolvedType, BoundZones
<1>2. shown' \in [Zones -> SUBSET ZoneSeason]
  BY <1>1, ReconcileType DEF ShownType
<1> QED  BY <1>1, <1>2 DEF SeasonsType, ShownType

LEMMA LoadTypes ==
    ASSUME calendar \in Positions, ShownType, SeasonsType, NEW g \in Crawls, LoadSeasons(g),
           enabled' \in BOOLEAN
    PROVE  SeasonsType' /\ ShownType' /\ seasonsOn' \in BOOLEAN
<1>1. CASE seasonsOn'
  BY <1>1, ResolveTypes, TracksAssumption DEF LoadSeasons
<1>2. CASE ~seasonsOn'
  BY <1>2, TracksAssumption DEF LoadSeasons, SeasonsType, ShownType
<1> QED  BY <1>1, <1>2

LEMMA TypeStep == Types /\ [Next]_vars => Types'
<1> SUFFICES ASSUME Types, [Next]_vars PROVE Types'
  OBVIOUS
<1> USE DEF Types
<1>1. CASE StartSim
  <2>1. SeasonsType' /\ ShownType' /\ seasonsOn' \in BOOLEAN
    BY <1>1, LoadTypes DEF StartSim
  <2> QED  BY <1>1, <2>1 DEF StartSim, SeasonsType, HeardType, QueueType
<1>2. CASE Tick
  <2>1. SeasonsType' /\ ShownType'
    BY <1>2, ResolveTypes DEF Tick
  <2>2. Flips(Resolved(graph)) \subseteq Event /\ IsFiniteSet(Flips(Resolved(graph)))
    BY ResolvedType, BoundZones, FlipsType DEF SeasonsType
  <2>3. PICK order \in SetToSeqs(Flips(Resolved(graph))) : queue' = queue \o order
    BY <1>2 DEF Tick
  <2>4. order \in Seq(Event)
    BY <2>2, ListedAll, SeqMonotonic
  <2>5. QueueType'
    BY <2>3, <2>4, ConcatProperties DEF QueueType
  <2> QED  BY <1>2, <2>1, <2>5 DEF Tick, HeardType
<1>3. CASE Rebuild
  <2>1. CASE ~ready
    <3>1. SeasonsType' /\ ShownType' /\ seasonsOn' \in BOOLEAN
      BY <1>3, <2>1, LoadTypes DEF Rebuild
    <3> QED  BY <1>3, <2>1, <3>1 DEF Rebuild, SeasonsType, HeardType, QueueType
  <2>2. CASE ready /\ seasonsOn
    <3>1. SeasonsType' /\ ShownType'
      BY <1>3, <2>2, ResolveTypes DEF Rebuild
    <3> QED  BY <1>3, <2>2, <3>1 DEF Rebuild, HeardType, QueueType
  <2>3. CASE ready /\ ~seasonsOn
    BY <1>3, <2>3 DEF Rebuild, SeasonsType, ShownType, HeardType, QueueType
  <2> QED  BY <2>1, <2>2, <2>3
<1>4. CASE ToggleSeasons
  <2>1. CASE ~ready
    BY <1>4, <2>1 DEF ToggleSeasons, SeasonsType, ShownType, HeardType, QueueType
  <2>2. CASE ready /\ enabled'
    <3>1. SeasonsType' /\ ShownType' /\ seasonsOn' \in BOOLEAN
      BY <1>4, <2>2, LoadTypes DEF ToggleSeasons
    <3> QED  BY <1>4, <2>2, <3>1 DEF ToggleSeasons, HeardType, QueueType
  <2>3. CASE ready /\ ~enabled'
    <3>1. zoneSeasons' = NoSeasons /\ shown' = ReconcileSeasons(graph, NoSeasons)
      BY <1>4, <2>3 DEF ToggleSeasons
    <3>2. SeasonsType'
      BY <3>1, NoSeasonsType DEF SeasonsType, NoSeasonsYet
    <3>3. ShownType'
      BY <3>1, NoSeasonsType, ReconcileType DEF ShownType, NoSeasonsYet
    <3> QED  BY <1>4, <2>3, <3>2, <3>3 DEF ToggleSeasons, HeardType, QueueType
  <2> QED  BY <2>1, <2>2, <2>3
<1>5. ASSUME NEW t \in Tracks, CalendarTurns(t) PROVE Types'
  BY <1>5, TurnType DEF CalendarTurns, SeasonsType, ShownType, HeardType, QueueType
<1>6. CASE Listen
  <2> DEFINE e == Head(queue)
  <2>1. e \in Event /\ queue' \in Seq(Event)
    BY <1>6, HeadTailProperties DEF Listen, QueueType
  <2>2. heard' = [z \in DOMAIN heard \cup {e.zone} |-> IF z = e.zone THEN e.to ELSE heard[z]]
    BY <1>6 DEF Listen
  <2>3. e.zone \in Zones /\ e.to \in ZoneSeason
    BY <2>1 DEF Event
  <2> HIDE DEF e
  <2>4. HeardType'
    BY <2>2, <2>3 DEF HeardType
  <2> QED  BY <1>6, <2>1, <2>4 DEF Listen, SeasonsType, ShownType, QueueType
<1>7. CASE Decay
  <2>1. ShownType'
    BY <1>7 DEF Decay, ShownType
  <2> QED  BY <1>7, <2>1 DEF Decay, SeasonsType, HeardType, QueueType
<1>8. CASE Restart
  <2>1. SeasonsType' /\ HeardType'
    BY <1>8, NoSeasonsType DEF Restart, NoSeasonsYet, SeasonsType, HeardType
  <2>2. ShownType' /\ QueueType'
    BY <1>8 DEF Restart, Bare, ShownType, QueueType
  <2> QED  BY <1>8, <2>1, <2>2 DEF Restart
<1>9. CASE UNCHANGED vars
  BY <1>9 DEF vars, SeasonsType, ShownType, HeardType, QueueType
<1> QED
  BY <1>1, <1>2, <1>3, <1>4, <1>5, <1>6, <1>7, <1>8, <1>9 DEF Next, External

\* The variables keep their types, the calendar its range and the graph is
\* always one that a crawl yields.
THEOREM TypesHold == Spec => []TypeOK
<1>1. Types => TypeOK
  BY DEF TypeOK, Types, SeasonsType, HeardType, ShownType, QueueType, Event
<1> QED  BY <1>1, TypeInit, TypeStep, PTL DEF Spec

---------------------------------------------------------------------------
(***************************************************************************)
(* What the listeners hear.  EventsSuffice speaks of an empty queue only;  *)
(* the invariant says what the waiting events will tell: for each zone the *)
(* last event that names it carries the season the module last resolved,   *)
(* and where no event waits the listener knows that season already.        *)
(***************************************************************************)
IdleBeforeStart == ~ready => ~seasonsOn /\ queue = <<>>

OnItsTrack ==
    seasonsOn => \A z \in DOMAIN zoneSeasons : z \in DOMAIN graph /\ zoneSeasons[z].track = graph[z]

LastFor(z, i) ==
    /\ i \in DOMAIN queue /\ queue[i].zone = z
    /\ \A j \in DOMAIN queue : j > i => queue[j].zone # z

Silent(z) == \A i \in DOMAIN queue : queue[i].zone # z

ToldOf(z) ==
    /\ \A i \in DOMAIN queue : LastFor(z, i) => queue[i].to = zoneSeasons[z]
    /\ Silent(z) /\ z \in DOMAIN heard => heard[z] = zoneSeasons[z]

Told == seasonsOn /\ ~meddled => \A z \in DOMAIN zoneSeasons : ToldOf(z)

Delivery == IdleBeforeStart /\ OnItsTrack /\ Told

\* Steps that touch neither the resolution nor the events.
LEMMA DeliveryFrame ==
    ASSUME Delivery, UNCHANGED <<ready, seasonsOn, graph, zoneSeasons, queue, heard, meddled>>
    PROVE  Delivery'
<1>1. \A z : ToldOf(z) => ToldOf(z)'
  BY DEF ToldOf, LastFor, Silent
<1> QED  BY <1>1 DEF Delivery, IdleBeforeStart, OnItsTrack, Told

\* A start, with no event waiting: the listeners ask for the seasons resolved.
LEMMA StartDelivers ==
    ASSUME calendar \in Positions, Delivery, ~ready, ready', queue' = queue,
           NEW g \in Crawls, graph' = g, LoadSeasons(g), heard' = zoneSeasons'
    PROVE  Delivery'
<1>1. queue' = <<>> /\ DOMAIN queue' = {}
  BY DEF Delivery, IdleBeforeStart
<1>2. ASSUME seasonsOn' PROVE zoneSeasons' = Resolved(g)
  BY <1>2 DEF LoadSeasons
<1>3. OnItsTrack'
  BY <1>2, ResolvedType DEF OnItsTrack, Bound
<1>4. Told'
  BY <1>1 DEF Told, ToldOf, LastFor, Silent
<1> QED  BY <1>3, <1>4 DEF Delivery, IdleBeforeStart

\* A tick: the zones and their tracks stay, and each zone whose season moved
\* has an event among the new ones, which carries where it moved to.
LEMMA TickDelivers ==
    ASSUME Types, IInv, Delivery, Tick PROVE Delivery'
<1> DEFINE zs == Resolved(graph)
<1>1. /\ calendar \in Positions /\ graph \in Crawls /\ queue \in Seq(Event) /\ seasonsOn
      /\ SeasonsType
  BY DEF Types, QueueType, Tick
<1>2. zs \in [Bound(graph) -> ZoneSeason] /\ \A z \in Bound(graph) : zs[z].track = graph[z]
  BY <1>1, ResolvedType
<1>3. DOMAIN zoneSeasons = Bound(graph)
  BY <1>1 DEF IInv, SeasonsShown, Bound
<1>4. zoneSeasons \in [Bound(graph) -> ZoneSeason] /\ Bound(graph) \in SUBSET Zones
  BY <1>1, <1>3, BoundZones DEF SeasonsType
<1>5. Flips(zs) \subseteq Event /\ IsFiniteSet(Flips(zs))
  BY <1>2, <1>4, FlipsType
<1>6. PICK order \in SetToSeqs(Flips(zs)) : queue' = queue \o order
  BY DEF Tick
<1>7. order \in Seq(Flips(zs)) /\ \A x \in Flips(zs) : \E i \in DOMAIN order : order[i] = x
  BY <1>5, ListedAll
<1>8. order \in Seq(Event)
  BY <1>5, <1>7, SeqMonotonic
<1> DEFINE n == Len(queue)
           k == Len(order)
<1>9. n \in Nat /\ k \in Nat /\ DOMAIN queue = 1..n /\ DOMAIN order = 1..k
  BY <1>1, <1>8, LenProperties
<1>10. /\ DOMAIN queue' = 1..(n + k)
       /\ \A i \in 1..(n + k) : queue'[i] = IF i <= n THEN queue[i] ELSE order[i - n]
  BY <1>1, <1>6, <1>8, ConcatProperties, LenProperties
<1>11. zoneSeasons' = zs /\ heard' = heard /\ graph' = graph /\ ready' /\ seasonsOn'
  BY DEF Tick
<1>12. \A i \in 1..k : order[i] \in Flips(zs)
  BY <1>7, <1>9, ElementOfSeq
<1>13. \A x \in Flips(zs) : x.zone \in Bound(graph) /\ x.to = zs[x.zone]
  BY <1>2 DEF Flips
<1>14. ASSUME NEW z \in Bound(graph), \A x \in Flips(zs) : x.zone # z
       PROVE  zs[z] = zoneSeasons[z]
  <2>1. zs[z].track = zoneSeasons[z].track
    BY <1>1, <1>2, <1>3 DEF Delivery, OnItsTrack
  <2>2. zs[z].season = zoneSeasons[z].season
    <3> SUFFICES ASSUME zs[z].season # zoneSeasons[z].season PROVE FALSE
      OBVIOUS
    <3>1. [zone |-> z, from |-> zoneSeasons[z], to |-> zs[z]] \in Flips(zs)
      BY <2>1, <1>2, <1>3 DEF Flips
    <3> QED  BY <3>1, <1>14
  <2>3. zs[z] \in ZoneSeason /\ zoneSeasons[z] \in ZoneSeason
    BY <1>2, <1>4
  <2> QED  BY <2>1, <2>2, <2>3 DEF ZoneSeason
<1> HIDE DEF zs, n, k
<1>15. ASSUME ~meddled, NEW z \in Bound(graph) PROVE ToldOf(z)'
  <2>1. ToldOf(z)
    BY <1>15, <1>1, <1>3 DEF Delivery, Told
  <2>2. ASSUME NEW x \in Flips(zs), x.zone = z
        PROVE  \E i \in 1..k : order[i].zone = z
    BY <2>2, <1>7, <1>9
  <2>3. ASSUME NEW i \in 1..(n + k), LastFor(z, i)' PROVE queue'[i].to = zs[z]
    <3>1. i \in 1..(n + k) /\ queue'[i].zone = z
          /\ \A j \in 1..(n + k) : j > i => queue'[j].zone # z
      BY <2>3, <1>10 DEF LastFor
    <3>2. CASE i > n
      <4>1. i - n \in 1..k /\ queue'[i] = order[i - n]
        BY <3>1, <3>2, <1>9, <1>10
      <4> QED  BY <4>1, <3>1, <1>12, <1>13
    <3>3. CASE i <= n
      <4>1. i \in 1..n /\ queue'[i] = queue[i]
        BY <3>1, <3>3, <1>9, <1>10
      <4>2. ASSUME NEW j \in 1..n, j > i PROVE queue[j].zone # z
        BY <4>2, <3>1, <1>9, <1>10
      <4>3. ASSUME NEW j \in 1..k PROVE order[j].zone # z
        <5>1. n + j \in 1..(n + k) /\ n + j > i /\ ~(n + j <= n) /\ (n + j) - n = j
          BY <3>3, <4>1, <4>3, <1>9
        <5>2. queue'[n + j] = order[(n + j) - n]
          BY <5>1, <1>10
        <5> QED  BY <5>1, <5>2, <3>1
      <4>4. LastFor(z, i)
        BY <4>1, <4>2, <3>1, <1>9 DEF LastFor
      <4>5. queue[i].to = zoneSeasons[z]
        BY <4>1, <4>4, <2>1, <1>9 DEF ToldOf
      <4>6. zs[z] = zoneSeasons[z]
        BY <2>2, <4>3, <1>14
      <4> QED  BY <4>1, <4>5, <4>6
    <3> QED  BY <3>1, <3>2, <3>3, <1>9
  <2>4. ASSUME Silent(z)', z \in DOMAIN heard PROVE heard[z] = zs[z]
    <3>1. ASSUME NEW i \in 1..n PROVE queue[i].zone # z
      <4>1. i \in 1..(n + k) /\ i <= n
        BY <3>1, <1>9
      <4> QED  BY <4>1, <2>4, <1>10 DEF Silent
    <3>2. ASSUME NEW j \in 1..k PROVE order[j].zone # z
      <4>1. n + j \in 1..(n + k) /\ ~(n + j <= n) /\ (n + j) - n = j
        BY <3>2, <1>9
      <4>2. queue'[n + j] = order[(n + j) - n]
        BY <4>1, <1>10
      <4> QED  BY <4>1, <4>2, <2>4, <1>10 DEF Silent
    <3>3. heard[z] = zoneSeasons[z]
      BY <3>1, <2>4, <2>1, <1>9 DEF ToldOf, Silent
    <3> QED  BY <3>3, <3>2, <2>2, <1>14
  <2> QED  BY <2>3, <2>4, <1>10, <1>11 DEF ToldOf
<1>16. Told'
  BY <1>15, <1>11, <1>2 DEF Told, Tick, zs
<1>17. OnItsTrack'
  BY <1>2, <1>11 DEF OnItsTrack, Bound
<1> QED  BY <1>11, <1>16, <1>17 DEF Delivery, IdleBeforeStart

\* A listener that handles the oldest event: it was the last of its zone, and
\* told the season resolved, or a later one waits.
LEMMA ListenDelivers ==
    ASSUME Types, Delivery, Listen PROVE Delivery'
<1> DEFINE e == Head(queue)
           n == Len(queue)
<1>1. queue \in Seq(Event) /\ queue # <<>>
  BY DEF Types, QueueType, Listen
<1>2. n \in Nat \ {0} /\ DOMAIN queue = 1..n /\ e = queue[1]
  BY <1>1, EmptySeq, LenProperties
<1>3. /\ DOMAIN queue' = 1..(n - 1)
      /\ \A i \in 1..(n - 1) : queue'[i] = queue[i + 1]
  BY <1>1, <1>2, HeadTailProperties, LenProperties DEF Listen
<1>4. heard' = [z \in DOMAIN heard \cup {e.zone} |-> IF z = e.zone THEN e.to ELSE heard[z]]
  BY DEF Listen
<1>5. UNCHANGED <<ready, seasonsOn, graph, zoneSeasons, meddled>>
  BY DEF Listen
<1> HIDE DEF e, n
<1>6. ASSUME NEW z, ToldOf(z) PROVE ToldOf(z)'
  <2>1. ASSUME NEW i \in 1..(n - 1), LastFor(z, i)' PROVE queue'[i].to = zoneSeasons[z]
    <3>1. queue'[i] = queue[i + 1] /\ i + 1 \in 1..n
      BY <1>2, <1>3
    <3>2. ASSUME NEW j \in 1..n, j > i + 1 PROVE queue[j].zone # z
      <4>1. j - 1 \in 1..(n - 1) /\ j - 1 > i /\ (j - 1) + 1 = j
        BY <3>2, <2>1, <1>2
      <4>2. queue'[j - 1] = queue[(j - 1) + 1]
        BY <4>1, <1>3
      <4> QED  BY <4>1, <4>2, <2>1, <1>3 DEF LastFor
    <3>3. LastFor(z, i + 1)
      BY <3>1, <3>2, <2>1, <1>2 DEF LastFor
    <3> QED  BY <3>1, <3>3, <1>6, <1>2 DEF ToldOf
  <2>2. ASSUME Silent(z)', z \in DOMAIN heard' PROVE heard'[z] = zoneSeasons[z]
    <3>1. ASSUME NEW j \in 1..n, j > 1 PROVE queue[j].zone # z
      <4>1. j - 1 \in 1..(n - 1) /\ (j - 1) + 1 = j
        BY <3>1, <1>2
      <4>2. queue'[j - 1] = queue[(j - 1) + 1]
        BY <4>1, <1>3
      <4> QED  BY <4>1, <4>2, <2>2, <1>3 DEF Silent
    <3>2. CASE z = e.zone
      <4>1. 1 \in DOMAIN queue /\ LastFor(z, 1)
        BY <3>1, <3>2, <1>2 DEF LastFor
      <4> QED  BY <4>1, <3>2, <2>2, <1>2, <1>4, <1>6 DEF ToldOf
    <3>3. CASE z # e.zone
      <4>1. Silent(z)
        <5> SUFFICES ASSUME NEW i \in 1..n PROVE queue[i].zone # z
          BY <1>2 DEF Silent
        <5> QED  BY <3>1, <3>3, <1>2
      <4>2. z \in DOMAIN heard /\ heard'[z] = heard[z]
        BY <3>3, <2>2, <1>4
      <4> QED  BY <4>1, <4>2, <1>6 DEF ToldOf
    <3> QED  BY <3>2, <3>3
  <2> QED  BY <2>1, <2>2, <1>3, <1>5 DEF ToldOf
<1>7. Told'
  BY <1>5, <1>6 DEF Delivery, Told
<1>8. IdleBeforeStart'
  BY <1>1, <1>5 DEF Delivery, IdleBeforeStart
<1> QED  BY <1>5, <1>7, <1>8 DEF Delivery, OnItsTrack

LEMMA DeliveryStep ==
    ASSUME Types, IInv, Delivery, [Next]_vars PROVE Delivery'
<1>1. CASE StartSim
  BY <1>1, StartDelivers DEF StartSim, Types
<1>2. CASE Tick
  BY <1>2, TickDelivers
<1>3. CASE Rebuild
  <2>1. CASE ~ready
    BY <1>3, <2>1, StartDelivers DEF Rebuild, Types
  <2>2. CASE ready /\ seasonsOn
    <3>1. zoneSeasons' = Resolved(graph') /\ graph' \in Crawls /\ meddled' /\ ready'
      BY <1>3, <2>2 DEF Rebuild
    <3>2. OnItsTrack'
      BY <3>1, ResolvedType DEF OnItsTrack, Bound, Types
    <3> QED  BY <3>1, <3>2 DEF Delivery, Told, IdleBeforeStart
  <2>3. CASE ready /\ ~seasonsOn
    BY <1>3, <2>3 DEF Rebuild, Delivery, Told, IdleBeforeStart, OnItsTrack
  <2> QED  BY <2>1, <2>2, <2>3
<1>4. CASE ToggleSeasons
  <2>1. CASE ~ready
    BY <1>4, <2>1 DEF ToggleSeasons, Delivery, Told, IdleBeforeStart, OnItsTrack
  <2>2. CASE ready /\ enabled'
    <3>1. LoadSeasons(graph) /\ graph' = graph /\ graph \in Crawls /\ meddled' /\ ready'
      BY <1>4, <2>2 DEF ToggleSeasons, Types
    <3>2. OnItsTrack'
      BY <3>1, ResolvedType DEF OnItsTrack, Bound, Types, LoadSeasons
    <3> QED  BY <3>1, <3>2 DEF Delivery, Told, IdleBeforeStart
  <2>3. CASE ready /\ ~enabled'
    BY <1>4, <2>3 DEF ToggleSeasons, Delivery, Told, IdleBeforeStart, OnItsTrack
  <2> QED  BY <2>1, <2>2, <2>3
<1>5. CASE Listen
  BY <1>5, ListenDelivers
<1>6. CASE Restart
  BY <1>6 DEF Restart, Delivery, Told, IdleBeforeStart, OnItsTrack
<1>7. CASE UNCHANGED <<ready, seasonsOn, graph, zoneSeasons, queue, heard, meddled>>
  BY <1>7, DeliveryFrame
<1>8. \/ UNCHANGED <<ready, seasonsOn, graph, zoneSeasons, queue, heard, meddled>>
      \/ StartSim \/ Tick \/ Rebuild \/ ToggleSeasons \/ Listen \/ Restart
  BY DEF Next, External, Decay, CalendarTurns, vars
<1> QED  BY <1>1, <1>2, <1>3, <1>4, <1>5, <1>6, <1>7, <1>8

\* A module that asked GetSeason at the start and then handled its events, in
\* whatever order a tick queued those of several zones, agrees with the weather
\* module on every zone, as long as no admin rebuilds or toggles.
THEOREM EventsTellAll == Spec => []EventsSuffice
<1> DEFINE Inv == Types /\ IInv /\ Delivery
<1>1. Init => Inv
  BY TypeInit, InitInvariant DEF Init, Delivery, IdleBeforeStart, OnItsTrack, Told
<1>2. Inv /\ [Next]_vars => Inv'
  BY TypeStep, StepInvariant, DeliveryStep
<1>3. Inv => EventsSuffice
  <2> SUFFICES ASSUME Inv, seasonsOn, queue = <<>>, ~meddled,
                      NEW z \in DOMAIN heard \cap DOMAIN zoneSeasons
               PROVE  heard[z] = zoneSeasons[z]
    BY DEF EventsSuffice, Agreed
  <2>1. ToldOf(z)
    BY DEF Delivery, Told
  <2>2. Silent(z)
    BY DEF Silent
  <2> QED  BY <2>1, <2>2 DEF ToldOf
<1> QED  BY <1>1, <1>2, <1>3, PTL DEF Spec
=============================================================================
