------------------------------- MODULE WeatherSim -------------------------------
(***************************************************************************)
(* The weather simulation of package sim: a population of weather fronts   *)
(* that ages, drifts over the zone graph, changes type and dies at every   *)
(* coarse tick (Step, tick.go), the two admin mutations that bypass the    *)
(* tick (ForceSpawn and ClearZones, mutate.go), and the per-zone weather   *)
(* resolved from the fronts after each of them.  The graph and the tuning  *)
(* knobs Step receives change between calls (an admin rebuild, a live      *)
(* config save), and so does the climate (seasons), drawn at every tick.   *)
(*                                                                         *)
(* Abstractions.  The slice prev.Fronts, always in id order, is a partial  *)
(* function from ids to fronts.  The generator is replaced by the choice   *)
(* of any outcome it can produce.  Intensities and their deltas are        *)
(* integers, Scale standing for 1.0, and projections are compared exactly. *)
(* Moisture, which no decision reads, and the returned diff, which every   *)
(* caller discards, are left out.                                          *)
(***************************************************************************)
EXTENDS Integers, Sequences, FiniteSets, ZoneGraph

CONSTANTS
    Zones,              \* every zone name a graph or a saved front can mention
    WeatherTypes,       \* the weather labels, Clear among them
    Graphs,             \* the graphs the crawler can build
    Climates,           \* the (season-adjusted) climates a tick can run under
    Configs,            \* the values of the live knobs: [budget, spawn]
    Scale,              \* intensity 1.0
    AgePenalty,         \* the 0.05 of the age decay, in units of Scale
    HistoryLen,         \* DefaultConfig().HistoryLen
    FrontHardAge,       \* DefaultConfig().FrontHardAge; 0 disables the cap
    MaxFrontRadius,     \* hard cap on the coverage radius, in hops
    Falloff,            \* hops -> CoverageFalloff^hops, on a common scale
    MinProjected,       \* smallest projected intensity that covers a zone
    SpawnIntensities,   \* intensities of spawned fronts (0.4 .. 0.7)
    SpawnMaxAges,       \* soft age caps of spawned fronts (12 .. 35)
    ForcedIntensities,  \* intensities an admin or another module asks for
    ForcedDefault,      \* the 0.6 used when a forced spawn names none
    ForcedMaxAge,       \* the soft age cap 24 of a forced front
    MaxId,              \* bound: no front is created with a larger id
    MaxForced           \* bound: no front is forced beside that many living ones

NoZone == ""            \* lastZone of an empty history
NoBiome == ""           \* biome of a zone the graph does not know
NoType == ""            \* what pickWeatherType returns when nothing is drawn
Clear == "clear"
Default == "default"    \* the climate's fallback profile
KeepBias == 3           \* extra weight of a front's current type

Profile(p) ==
    /\ DOMAIN p.weights \subseteq WeatherTypes
    /\ \A t \in DOMAIN p.weights : p.weights[t] \in Nat
    /\ p.delta \in Int
    /\ p.resistance \in {"none", "some", "all"}
    /\ p.spawns \in BOOLEAN

ASSUME NamesAssumption ==
    /\ NoZone \notin Zones
    /\ NoType \notin WeatherTypes
    /\ Clear \in WeatherTypes

ASSUME GraphsAssumption ==
    Graphs # {} /\ \A g \in Graphs : IsZoneGraph(g, Zones)

ASSUME ClimatesAssumption ==
    /\ Climates # {}
    /\ \A c \in Climates :
        /\ Default \in DOMAIN c
        /\ NoBiome \notin DOMAIN c
        /\ \A b \in DOMAIN c : Profile(c[b])

ASSUME ConfigsAssumption ==
    /\ Configs # {}
    /\ Configs \subseteq [budget : Nat \ {0}, spawn : {"never", "maybe", "always"}]

ASSUME KnobsAssumption ==
    /\ Scale \in Nat \ {0} /\ AgePenalty \in Nat \ {0}
    /\ HistoryLen \in Nat /\ FrontHardAge \in Nat /\ MaxFrontRadius \in Nat
    /\ Falloff \in [0 .. MaxFrontRadius -> Nat]
    /\ MinProjected \in 0 .. Scale
    /\ SpawnIntensities \subseteq 1 .. Scale
    /\ SpawnMaxAges \subseteq Nat
    /\ ForcedIntensities \subseteq Int
    /\ ForcedDefault \in 1 .. Scale /\ ForcedMaxAge \in Nat
    /\ MaxId \in Nat /\ MaxForced \in Nat

VARIABLES
    graph,      \* m.graph, the graph every call receives
    cfg,        \* m.simCfg: the knobs a config save can change
    fronts,     \* State.Fronts, id -> front
    nextID,     \* State.NextID
    weather,    \* State.Weather, zone -> type
    resolvedOn  \* history: the graph the weather was last resolved on

simState == <<fronts, nextID, weather, resolvedOn>>
vars == <<graph, cfg, simState>>

-----------------------------------------------------------------------------
(* The parts of one front's tick.                                          *)

Clamp(x) == IF x < 0 THEN 0 ELSE IF x > Scale THEN Scale ELSE x

\* climate.For(g.Nodes[z].Biome): a zone outside the graph has no biome, and
\* a biome without a profile falls back to the default one.
ProfileAt(c, g, z) ==
    LET biome == IF z \in g.nodes THEN g.biome[z] ELSE NoBiome
    IN  IF biome \in DOMAIN c THEN c[biome] ELSE c[Default]

\* What a front of that age loses in a tick, past its soft cap.
AgeDecay(age, maxAge) ==
    IF maxAge > 0 /\ age > maxAge THEN AgePenalty * (age - maxAge) ELSE 0

\* Mutated form: the decay past the soft cap is forgotten.
AgedNoDecay(c, g, f) ==
    [f EXCEPT !.age = @ + 1, !.intensity = Clamp(f.intensity + ProfileAt(c, g, f.zone).delta)]

\* Mutated form: the age is advanced on a copy of the front and lost.
AgedOnCopy(c, g, f) ==
    [f EXCEPT !.intensity = Clamp(f.intensity + ProfileAt(c, g, f.zone).delta
                                    - AgeDecay(f.age, f.maxAge))]

Aged(c, g, f) ==
    [f EXCEPT !.age = f.age + 1,
              !.intensity = Clamp(f.intensity + ProfileAt(c, g, f.zone).delta
                                    - AgeDecay(f.age + 1, f.maxAge))]

LastZone(h) == IF h = <<>> THEN NoZone ELSE h[Len(h)]

AppendBounded(h, z) ==
    LET all == Append(h, z)
    IN  IF HistoryLen > 0 /\ Len(all) > HistoryLen
        THEN SubSeq(all, Len(all) - HistoryLen + 1, Len(all)) ELSE all

\* Every neighbour has a positive effective weight, so any candidate can be drawn.
Destinations(g, f) ==
    LET onward == g.nbrs[f.zone] \ {LastZone(f.history)}
    IN  IF onward = {} THEN g.nbrs[f.zone] ELSE onward

\* Mutated form: a front that lingers leaves no trace in its history.
MovedUnrecorded(c, g, f) ==
    LET resistance == ProfileAt(c, g, f.zone).resistance
        leave(z) == [f EXCEPT !.zone = z, !.history = AppendBounded(f.history, f.zone)]
        lingers == IF resistance = "none" THEN {} ELSE {f}
        drifts == IF resistance = "all" THEN {}
                  ELSE IF g.nbrs[f.zone] = {} THEN {f}
                  ELSE {leave(z) : z \in Destinations(g, f)}
    IN  lingers \cup drifts

\* A front that lingers records its own zone; one that has nowhere to go
\* records nothing.
Moved(c, g, f) ==
    LET resistance == ProfileAt(c, g, f.zone).resistance
        leave(z) == IF z = f.zone THEN f
                    ELSE [f EXCEPT !.zone = z, !.history = AppendBounded(f.history, f.zone)]
        lingers == IF resistance = "none" THEN {}
                   ELSE {[f EXCEPT !.history = AppendBounded(f.history, f.zone)]}
        drifts == IF resistance = "all" THEN {}
                  ELSE IF g.nbrs[f.zone] = {} THEN {f}
                  ELSE {leave(z) : z \in Destinations(g, f)}
    IN  lingers \cup drifts

\* The types a draw can return: those of positive weight, the current one
\* weighing KeepBias more; the current one when the total is zero.
Drawable(profile, current, bias) ==
    LET weight(t) == profile.weights[t] + (IF t = current THEN bias ELSE 0)
        drawn == {t \in DOMAIN profile.weights : weight(t) > 0}
    IN  IF drawn = {} THEN {current} ELSE drawn

Evolved(c, g, f) ==
    IF f.zone = LastZone(f.history) THEN {f}
    ELSE {[f EXCEPT !.type = t] :
            t \in Drawable(ProfileAt(c, g, f.zone), f.type, KeepBias)}

\* Everything one tick can make of one front, before the dead are removed.
Advanced(c, g, f) == UNION {Evolved(c, g, m) : m \in Moved(c, g, Aged(c, g, f))}

AdvancedFronts(c) ==
    {next \in [DOMAIN fronts -> UNION {Advanced(c, graph, fronts[i]) : i \in DOMAIN fronts}] :
        \A i \in DOMAIN fronts : next[i] \in Advanced(c, graph, fronts[i])}

Alive(f) == f.intensity > 0 /\ (FrontHardAge > 0 => f.age <= FrontHardAge)

Keep(fs, ids) == [i \in DOMAIN fs \cap ids |-> fs[i]]

RemoveDead(fs) == Keep(fs, {i \in DOMAIN fs : Alive(fs[i])})

Extend(fs, id, f) == [i \in DOMAIN fs \cup {id} |-> IF i = id THEN f ELSE fs[i]]

-----------------------------------------------------------------------------
(* Area coverage.                                                          *)

\* The zones within d hops of a center, for every d up to the radius.
ZonesWithin(g, center) ==
    LET ball[d \in 0 .. MaxFrontRadius] ==
            IF d = 0 THEN {center}
            ELSE ball[d - 1] \cup UNION {g.nbrs[z] : z \in ball[d - 1]}
    IN  ball

Projected(intensity, hops) == intensity * Falloff[hops]

CoverThreshold == MinProjected * Falloff[0]

Hops(ball, z) ==
    CHOOSE d \in 0 .. MaxFrontRadius : z \in ball[d] /\ (d > 0 => z \notin ball[d - 1])

\* resolveWeather's claims: the fronts that project onto z, with their strength.
Claims(g, fs, z) ==
    LET ball(i) == ZonesWithin(g, fs[i].zone)
        reaching == {i \in DOMAIN fs : z \in ball(i)[MaxFrontRadius]}
        eff == [i \in reaching |-> Projected(fs[i].intensity, Hops(ball(i), z))]
    IN  [i \in {j \in reaching : eff[j] >= CoverThreshold} |-> eff[i]]

\* Mutated form: the newest claim wins ties.
WinsLatest(claims, i) ==
    \A j \in DOMAIN claims : claims[i] > claims[j] \/ (claims[i] = claims[j] /\ i >= j)

\* The strongest claim wins, the lowest id among equals.
Wins(claims, i) ==
    \A j \in DOMAIN claims : claims[i] > claims[j] \/ (claims[i] = claims[j] /\ i <= j)

ResolveWeather(g, fs) ==
    [z \in g.nodes |->
        LET claims == Claims(g, fs, z)
        IN  IF DOMAIN claims = {} THEN Clear
            ELSE fs[CHOOSE i \in DOMAIN claims : Wins(claims, i)].type]

\* What Covering reports for a zone: its own reading of the coverage rule.
Effective(fs, cov) == Projected(fs[cov.id].intensity, cov.hops)

\* Mutated form: only the fronts centered on the zone are reported.
CoveringCenters(g, fs, z) ==
    {cov \in [id : DOMAIN fs, hops : {0}] : fs[cov.id].zone = z}

Covering(g, fs, z) ==
    {cov \in [id : DOMAIN fs, hops : 0 .. MaxFrontRadius] :
        LET ball == ZonesWithin(g, fs[cov.id].zone)
        IN  /\ z \in ball[MaxFrontRadius] /\ cov.hops = Hops(ball, z)
            /\ Effective(fs, cov) >= CoverThreshold}

CoveringIds(g, fs, z) == {cov.id : cov \in Covering(g, fs, z)}

\* Covering's sort order: strongest first, ties by lowest id.
ListedFirst(fs, all, cov) ==
    \A other \in all :
        \/ Effective(fs, cov) > Effective(fs, other)
        \/ Effective(fs, cov) = Effective(fs, other) /\ cov.id <= other.id

-----------------------------------------------------------------------------
(* The operations.                                                         *)

Init ==
    /\ graph \in Graphs
    /\ cfg \in Configs
    /\ fronts = <<>>
    /\ nextID = 1
    /\ weather = <<>>
    /\ resolvedOn = graph

\* The resolution every operation ends with.
Resolve ==
    /\ weather' = ResolveWeather(graph, fronts')
    /\ resolvedOn' = graph

SpawnZones(c) == {z \in graph.nodes : ProfileAt(c, graph, z).spawns}

NewTypes(c, z) == Drawable(ProfileAt(c, graph, z), NoType, 0)

Newborns(c) ==
    {[type |-> t, zone |-> z, intensity |-> x, age |-> 0, maxAge |-> m, history |-> <<>>] :
        z \in SpawnZones(c), t \in WeatherTypes, x \in SpawnIntensities, m \in SpawnMaxAges}

\* pickSpawnZone found no zone, or the zone it found has no weather to draw.
NothingToSpawn(c) ==
    SpawnZones(c) = {} \/ \E z \in SpawnZones(c) : NoType \in NewTypes(c, z)

\* Mutated form: only a population exactly at the budget is full.
HasRoomUnlessEqual(live) == Cardinality(DOMAIN live) # cfg.budget

HasRoom(live) == Cardinality(DOMAIN live) < cfg.budget

SpawnFronts(c, live) ==
    \/ /\ ~HasRoom(live) \/ cfg.spawn # "always" \/ NothingToSpawn(c) \/ nextID > MaxId
       /\ fronts' = live
       /\ nextID' = nextID
    \/ /\ HasRoom(live) /\ cfg.spawn # "never" /\ nextID <= MaxId
       /\ \E f \in {n \in Newborns(c) : n.type \in NewTypes(c, n.zone)} :
            fronts' = Extend(live, nextID, f)
       /\ nextID' = nextID + 1

\* Step: one coarse tick under the climate of the moment.
Tick ==
    /\ \E c \in Climates : \E next \in AdvancedFronts(c) : SpawnFronts(c, RemoveDead(next))
    /\ Resolve
    /\ UNCHANGED <<graph, cfg>>

\* The requested intensity, 0 or less meaning the default.
ForcedIntensity(x) == IF x <= 0 THEN ForcedDefault ELSE Clamp(x)

ForceSpawn ==
    /\ nextID <= MaxId /\ Cardinality(DOMAIN fronts) < MaxForced
    /\ \E z \in graph.nodes, t \in WeatherTypes, x \in ForcedIntensities :
        fronts' = Extend(fronts, nextID,
                    [type |-> t, zone |-> z, intensity |-> ForcedIntensity(x),
                     age |-> 0, maxAge |-> ForcedMaxAge, history |-> <<>>])
    /\ nextID' = nextID + 1
    /\ Resolve
    /\ UNCHANGED <<graph, cfg>>

\* Mutated form: clearing everything starts the ids over.
ClearAllRestart ==
    /\ fronts' = <<>>
    /\ nextID' = 1
    /\ Resolve
    /\ UNCHANGED <<graph, cfg>>

ClearAll ==
    /\ fronts' = <<>>
    /\ nextID' = nextID
    /\ Resolve
    /\ UNCHANGED <<graph, cfg>>

ClearZone(z) ==
    /\ fronts' = Keep(fronts, DOMAIN fronts \ CoveringIds(graph, fronts, z))
    /\ nextID' = nextID
    /\ Resolve
    /\ UNCHANGED <<graph, cfg>>

\* rebuildGraph: a fresh crawl replaces the graph under the same fronts, and
\* the weather is not resolved again before the next tick.
Rebuild ==
    /\ graph' \in Graphs
    /\ UNCHANGED <<cfg, simState>>

\* A live config save adopted by the game loop.
Reconfigure ==
    /\ cfg' \in Configs
    /\ UNCHANGED <<graph, simState>>

Next ==
    \/ Tick
    \/ ForceSpawn
    \/ ClearAll
    \/ \E z \in graph.nodes : ClearZone(z)
    \/ Rebuild
    \/ Reconfigure

Spec == Init /\ [][Next]_vars

\* The game loop's round clock keeps ticking; no admin is obliged to act.
FairSpec == Spec /\ WF_vars(Tick)
-----------------------------------------------------------------------------
(* Properties.                                                             *)

Front == [type : WeatherTypes, zone : Zones, intensity : 0 .. Scale,
          age : Nat, maxAge : Nat, history : Seq(Zones)]

\* Every variable holds a value of its kind (weather is empty until resolved).
TypeOK ==
    /\ graph \in Graphs /\ resolvedOn \in Graphs
    /\ cfg \in Configs
    /\ nextID \in Nat \ {0}
    /\ DOMAIN fronts \subseteq Nat
    /\ \A i \in DOMAIN fronts : fronts[i] \in Front
    /\ weather = <<>> \/ weather \in [resolvedOn.nodes -> WeatherTypes]

\* Grace is long enough past the soft age cap for the age decay to outweigh
\* what any climate feeds a front.
IsGrace(grace) ==
    \A c \in Climates : \A b \in DOMAIN c : c[b].delta < AgePenalty * (grace + 1)

ASSUME GraceAssumption == \E grace \in 0 .. Scale : IsGrace(grace)

Grace == CHOOSE grace \in 0 .. Scale : IsGrace(grace)

\* Between ticks no dead front is listed, and no front outlives the caps: the
\* hard one when it is set, and in any case, once the age decay has outgrown
\* what the climate feeds it, an intensity that falls at every further tick
\* (removeDead, ageAndFeedback; maxAge is positive in every front made here).
BoundedLives ==
    \A i \in DOMAIN fronts :
        LET f == fronts[i]
            overtime == f.age - f.maxAge - Grace
        IN  /\ f.intensity > 0
            /\ FrontHardAge > 0 => f.age <= FrontHardAge
            /\ f.maxAge > 0 /\ overtime > 0 => f.intensity <= Scale - overtime

\* The weather map and the query API read the coverage rule the same way: the
\* zone's weather is the type of the front the query lists first, and clear
\* when it lists none (Covering "mirrors resolveWeather's coverage rule
\* exactly", query.go), for the graph the weather was resolved on.
QueryAgreesWithWeather ==
    \A z \in DOMAIN weather :
        LET covering == Covering(resolvedOn, fronts, z)
        IN  IF covering = {} THEN weather[z] = Clear
            ELSE \E cov \in covering :
                    /\ ListedFirst(fronts, covering, cov)
                    /\ weather[z] = fronts[cov.id].type

\* Only a forced spawn ever adds a front beyond the budget in force: a tick does
\* not, not even one that could spawn while forced spawns or a lowered budget
\* keep the population over it (spawnFronts).
TickRespectsBudget ==
    [][Cardinality(DOMAIN fronts') > cfg.budget =>
        DOMAIN fronts' \subseteq DOMAIN fronts \/ ForceSpawn]_vars

\* Clearing a zone clears it: its own fronts and those that reach it from
\* other zones are gone from the weather the very same step (ClearZones).
ClearTakesEffect ==
    [][\A z \in graph.nodes :
        z \in DOMAIN weather' /\ weather'[z] # Clear => ~ClearZone(z)]_vars

\* The population behaves as the ledger: ids issued once and in order, one hop
\* and one year older per tick, nobody else touched by an admin action.
Ledger == INSTANCE FrontLedger WITH
    issued <- nextID - 1,
    alive <- [i \in DOMAIN fronts |-> [zone |-> fronts[i].zone, age |-> fronts[i].age]],
    adjacent <- graph.nbrs

LedgerSpec == Ledger!LSpec

\* No storm lasts forever: every front eventually dies while ticks go on,
\* wherever climates, movement, config saves and rebuilds take it.
EveryFrontDies ==
    \A i \in 1 .. MaxId : i \in DOMAIN fronts ~> i \notin DOMAIN fronts

\* A front changes its weather only by moving (evolveTypes): the linger that
\* moveFronts writes into the history tells it apart, however short the bound
\* on histories, however often the graph and the climate are swapped.  The one
\* exception is a front stranded in a zone without neighbours, which records
\* nothing and may re-roll where it stands.
RerollOnlyMoversOrStranded ==
    [][\A i \in DOMAIN fronts \cap DOMAIN fronts' :
        fronts'[i].type # fronts[i].type =>
            fronts'[i].zone # fronts[i].zone \/ graph.nbrs[fronts[i].zone] = {}]_vars
=============================================================================
