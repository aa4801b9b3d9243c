------------------------------ MODULE SeasonFlips ------------------------------
(***************************************************************************)
(* The seasonal layer at run time: which season each zone is in as the     *)
(* module last resolved it, the season-* mutators that show it, and the    *)
(* WeatherSeasonChanged events other modules follow, under ticks, graph    *)
(* rebuilds, the SeasonsEnabled switch, decay, and restarts                *)
(* (weather_tick.go, weather.go, weather_admin.go, engine/apply.go,        *)
(* seasons/apply.go).                                                      *)
(*                                                                         *)
(* Abstractions.  Where a track stands is a number that goes round its     *)
(* seasons (SeasonTracks says why), and stands for the season's name: the  *)
(* names in a track are distinct here, though parseTrack lets them repeat. *)
(* A zone's biome is its track.  A mutator list is the set of season-* ids *)
(* live in it: reconcileList never repeats one (RoomWeather).  A listener  *)
(* is what it believes of each zone, from GetSeason when the simulation    *)
(* starts and then from events.                                            *)
(***************************************************************************)
EXTENDS Integers, Sequences, FiniteSets, SequencesExt

CONSTANTS
    Zones,
    SeasonCount,    \* track -> how many seasons it has
    Crawls,         \* what a crawl can yield: zone -> the track of its biome
    TracksUsable,   \* a usable calendar, and at least one valid track
    MaxQueue        \* bound: no tick while more events wait for the listeners

Tracks == DOMAIN SeasonCount
Unbound == ""       \* a biome without a (known) track

ZoneSeason == UNION {[track : {t}, season : 1..SeasonCount[t]] : t \in Tracks}

\* Where the tracks can stand.
Positions ==
    {c \in [Tracks -> UNION {1..SeasonCount[t] : t \in Tracks}] :
        \A t \in Tracks : c[t] \in 1..SeasonCount[t]}

ASSUME ZonesAssumption == IsFiniteSet(Zones)
ASSUME TracksAssumption ==
    /\ \A t \in Tracks : SeasonCount[t] \in Nat \ {0}
    /\ Unbound \notin Tracks /\ TracksUsable \in BOOLEAN
ASSUME CrawlsAssumption ==
    /\ Crawls # {}
    /\ \A g \in Crawls : g \in [DOMAIN g -> Tracks \cup {Unbound}] /\ DOMAIN g \subseteq Zones
ASSUME QueueAssumption == MaxQueue \in Nat

VARIABLES
    calendar,       \* the season each track is in
    ready,          \* m.simReady
    enabled,        \* m.cfg.SeasonsEnabled
    graph,          \* the zones of m.graph and their tracks
    seasonsOn,      \* m.seasonsOn
    zoneSeasons,    \* m.zoneSeasons
    shown,          \* the season-* ids live on each zone
    queue,          \* WeatherSeasonChanged events not handled yet, oldest first
    heard,          \* what a listener believes of the zones it knows
    meddled         \* history: an admin acted on the running layer

vars == <<calendar, ready, enabled, graph, seasonsOn, zoneSeasons, shown, queue, heard,
          meddled>>

-----------------------------------------------------------------------------

NoSeasons == [z \in {} |-> Unbound]
Bare == [z \in Zones |-> {}]

\* ZoneSeasons: zones without a track are absent.
Resolved(g) ==
    [z \in {y \in DOMAIN g : g[y] # Unbound} |-> [track |-> g[z], season |-> calendar[g[z]]]]

\* SeasonMutatorId of the zone's season, if it has one.
Want(zs, z) == IF z \in DOMAIN zs THEN {zs[z]} ELSE {}

\* Mutated form: only the zones that have a season are visited.
ReconcileBoundOnly(g, zs) ==
    [z \in Zones |-> IF z \in DOMAIN zs THEN Want(zs, z) ELSE shown[z]]

\* ReconcileSeasons: every zone of the graph shows exactly its season.
ReconcileSeasons(g, zs) ==
    [z \in Zones |-> IF z \in DOMAIN g THEN Want(zs, z) ELSE shown[z]]

\* loadSeasons: a baseline without events, if seasons can run at all.
LoadSeasons(g) ==
    /\ seasonsOn' = (enabled' /\ TracksUsable)
    /\ zoneSeasons' = IF seasonsOn' THEN Resolved(g) ELSE zoneSeasons
    /\ shown' = IF seasonsOn' THEN ReconcileSeasons(g, zoneSeasons') ELSE shown

\* Mutated form: a flip is announced with the seasons the wrong way round.
FlipsBackwards(zs) ==
    {[zone |-> z, from |-> zs[z], to |-> zoneSeasons[z]] :
        z \in {y \in DOMAIN zs \cap DOMAIN zoneSeasons :
                zs[y].track = zoneSeasons[y].track /\ zs[y].season # zoneSeasons[y].season}}

\* The events of a resolution: one per zone whose season moved on its track.
Flips(zs) ==
    {[zone |-> z, from |-> zoneSeasons[z], to |-> zs[z]] :
        z \in {y \in DOMAIN zs \cap DOMAIN zoneSeasons :
                zs[y].track = zoneSeasons[y].track /\ zs[y].season # zoneSeasons[y].season}}

-----------------------------------------------------------------------------

\* The first round, with the graph loaded or crawled; the listeners start too.
StartSim ==
    /\ ~ready /\ ready' = TRUE
    /\ UNCHANGED <<calendar, enabled, graph, queue>>
    /\ LoadSeasons(graph)
    /\ heard' = zoneSeasons' /\ meddled' = FALSE

\* Mutated form: a tick re-asserts the seasons of the boot.
TickUnresolved ==
    /\ ready /\ seasonsOn /\ Len(queue) <= MaxQueue
    /\ shown' = ReconcileSeasons(graph, zoneSeasons)
    /\ UNCHANGED <<calendar, ready, enabled, graph, seasonsOn, zoneSeasons, queue, heard,
                   meddled>>

\* tick, as far as seasons go: resolveSeasons, whose loop over a Go map queues
\* the events in any order.
Tick ==
    /\ ready /\ seasonsOn /\ Len(queue) <= MaxQueue
    /\ \E order \in SetToSeqs(Flips(Resolved(graph))) : queue' = queue \o order
    /\ zoneSeasons' = Resolved(graph)
    /\ shown' = ReconcileSeasons(graph, zoneSeasons')
    /\ UNCHANGED <<calendar, ready, enabled, graph, seasonsOn, heard, meddled>>

\* rebuildGraph: starts a simulation that failed at boot, and resolves seasons
\* anew on the new graph, without events.
Rebuild ==
    /\ graph' \in Crawls /\ ready' = TRUE
    /\ meddled' = ready
    /\ UNCHANGED <<calendar, enabled, queue>>
    /\ IF ~ready THEN LoadSeasons(graph') /\ heard' = zoneSeasons'
       ELSE /\ zoneSeasons' = IF seasonsOn THEN Resolved(graph') ELSE zoneSeasons
            /\ shown' = IF seasonsOn THEN ReconcileSeasons(graph', zoneSeasons') ELSE shown
            /\ UNCHANGED <<seasonsOn, heard>>

\* SeasonsEnabled's live applier; before the first round only the config moves.
ToggleSeasons ==
    /\ enabled' = ~enabled /\ meddled' = ready
    /\ UNCHANGED <<calendar, ready, graph, queue, heard>>
    /\ CASE ~ready -> UNCHANGED <<seasonsOn, zoneSeasons, shown>>
         [] ready /\ enabled' -> LoadSeasons(graph)
         [] ready /\ ~enabled' ->
                /\ seasonsOn' = FALSE /\ zoneSeasons' = NoSeasons
                /\ shown' = ReconcileSeasons(graph, NoSeasons)

\* External: the calendar turns a track to its next season.
CalendarTurns(t) ==
    /\ calendar' = [calendar EXCEPT ![t] = (calendar[t] % SeasonCount[t]) + 1]
    /\ UNCHANGED <<ready, enabled, graph, seasonsOn, zoneSeasons, shown, queue, heard,
                   meddled>>

\* External: a listener handles the oldest event.
Listen ==
    /\ queue # <<>>
    /\ LET e == Head(queue)
       IN  heard' = [z \in DOMAIN heard \cup {e.zone} |-> IF z = e.zone THEN e.to ELSE heard[z]]
    /\ queue' = Tail(queue)
    /\ UNCHANGED <<calendar, ready, enabled, graph, seasonsOn, zoneSeasons, shown, meddled>>

\* External: the mutators' decayrate retires a season from one zone's list.
Decay ==
    /\ \E z \in Zones : shown' = [shown EXCEPT ![z] = {}]
    /\ UNCHANGED <<calendar, ready, enabled, graph, seasonsOn, zoneSeasons, queue, heard,
                   meddled>>

\* The server stops and comes back: zone mutators and events do not survive,
\* the graph comes from the cache or from a fresh crawl.
Restart ==
    /\ ready' = FALSE /\ seasonsOn' = FALSE
    /\ graph' \in Crawls
    /\ zoneSeasons' = NoSeasons /\ shown' = Bare /\ queue' = <<>> /\ heard' = NoSeasons
    /\ meddled' = FALSE
    /\ UNCHANGED <<calendar, enabled>>

Init ==
    /\ calendar \in Positions
    /\ ready = FALSE /\ enabled \in BOOLEAN /\ graph \in Crawls
    /\ seasonsOn = FALSE /\ zoneSeasons = NoSeasons
    /\ shown = Bare /\ queue = <<>> /\ heard = NoSeasons
    /\ meddled = FALSE

External == Listen \/ Decay \/ Restart \/ \E t \in Tracks : CalendarTurns(t)

Next == StartSim \/ Tick \/ Rebuild \/ ToggleSeasons \/ External

Spec == Init /\ [][Next]_vars

\* The round clock drives starts and ticks, the event loop the listeners.
FairSpec == Spec /\ WF_vars(StartSim) /\ WF_vars(Tick) /\ WF_vars(Listen)

-----------------------------------------------------------------------------

TypeOK ==
    /\ calendar \in Positions
    /\ ready \in BOOLEAN /\ enabled \in BOOLEAN /\ seasonsOn \in BOOLEAN
    /\ graph \in Crawls
    /\ \E Y \in SUBSET Zones : zoneSeasons \in [Y -> ZoneSeason]
    /\ shown \in [Zones -> SUBSET ZoneSeason]
    /\ queue \in Seq([zone : Zones, from : ZoneSeason, to : ZoneSeason])
    /\ \E Y \in SUBSET Zones : heard \in [Y -> ZoneSeason]
    /\ meddled \in BOOLEAN

\* While seasons run, no zone of the graph shows another season than the one
\* the module last resolved for it, which is also the one GetSeason exports;
\* zones that lost their track show none (ReconcileSeasons heals the list).
SeasonsShown ==
    seasonsOn =>
        /\ DOMAIN zoneSeasons = {z \in DOMAIN graph : graph[z] # Unbound}
        /\ \A z \in DOMAIN graph : shown[z] \subseteq Want(zoneSeasons, z)

\* Every turn of the calendar reaches every zone of the track, unless the
\* calendar turns on, the zone is rebound or seasons are switched off first.
SeasonsCatchUp ==
    \A z \in Zones : \A s \in ZoneSeason :
        LET due == /\ seasonsOn /\ z \in DOMAIN graph
                   /\ graph[z] = s.track /\ calendar[s.track] = s.season
        IN  due ~> (~due \/ zoneSeasons[z] = s)

Agreed ==
    \A z \in DOMAIN heard \cap DOMAIN zoneSeasons :
        heard[z].track = zoneSeasons[z].track => heard[z] = zoneSeasons[z]

\* The events are all a module needs that asked GetSeason at the start: as long
\* as no admin rebuilds or toggles, once it has handled its events it agrees on
\* every zone, through decay and turns of several tracks in one tick.
EventsSuffice == seasonsOn /\ queue = <<>> /\ ~meddled => Agreed

\* What weather_events.go and the README say without that condition: an event
\* for every flip but the baseline of the boot, so that once the events are
\* handled the listener agrees on every zone whose track it still knows.
ListenersFollow == seasonsOn /\ queue = <<>> => Agreed
=============================================================================
