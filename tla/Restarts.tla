------------------------------- MODULE Restarts -------------------------------
(***************************************************************************)
(* What survives a restart: the simulation state and the geography graph   *)
(* in plugin storage, how the module comes up from them on the first round *)
(* (loadOrBuildGraph, startSim, loadOrInitState), and when it writes them  *)
(* (persistState, rebuildGraph), with crashes between a change and its     *)
(* write, writes that fail, rebuilds before the first round, and the       *)
(* Persist switch (weather.go, weather_tick.go, engine/state.go,           *)
(* engine/cache.go).                                                       *)
(*                                                                         *)
(* Abstractions.  A simulation state is the number of changes ever made to *)
(* get there, 0 for a fresh one whatever its seed; a graph is the edition  *)
(* of the world it was crawled from.  A write replaces the stored bytes, or *)
(* fails and leaves the old ones or broken ones.                           *)
(***************************************************************************)
EXTENDS Integers

CONSTANTS
    MaxChanges,             \* bound: changes of the simulation
    MaxWorld                \* bound: editions of the world

ASSUME BoundsAssumption == MaxChanges \in Nat /\ MaxWorld \in Nat

None == -1      \* nil, or bytes that are absent, broken or of another version
Fresh == 0      \* NewState

VARIABLES
    world,      \* the edition of the live world
    persist,    \* m.cfg.Persist
    recrawl,    \* m.cfg.RebuildGraphOnBoot
    up,         \* the server process runs
    started,    \* m.started
    simReady,   \* m.simReady
    graph,      \* m.graph
    state,      \* m.state
    unsaved,    \* the game loop is between a change and its persistState
    changes,    \* how many changes were ever made (bound)
    cache,      \* the stored graph
    saved,      \* the stored state
    exposed,    \* history: the last state due to be written was not
    stale       \* history: in this process, the last crawl's cache write failed

memory == <<up, started, simReady, graph, state, unsaved>>
disk == <<cache, saved>>
flags == <<persist, recrawl>>
vars == <<world, flags, memory, changes, disk, exposed, stale>>

-----------------------------------------------------------------------------

\* loadOrInitState.
InitialState == IF persist /\ saved # None THEN saved ELSE Fresh

\* Mutated form: a running simulation is started once more.
StartSimAgain(g) ==
    IF g # None
    THEN simReady' = TRUE /\ state' = InitialState /\ exposed' = ~persist
    ELSE UNCHANGED <<simReady, state, exposed>>

\* startSim: once, and only with a graph.
StartSim(g) ==
    IF ~simReady /\ g # None
    THEN simReady' = TRUE /\ state' = InitialState /\ exposed' = ~persist
    ELSE UNCHANGED <<simReady, state, exposed>>

\* Mutated form: the crawl does not reach the cache.
CrawlUncached ==
    \/ /\ graph' = world /\ cache' = cache /\ stale' = FALSE
       /\ StartSim(graph')
    \/ UNCHANGED <<graph, cache, stale, simReady, state, exposed>>

\* rebuildGraph: the crawl fails and leaves everything, or the graph is new,
\* cached if the write succeeds, and the simulation starts if it had not.
Crawl ==
    \/ /\ graph' = world
       /\ \/ cache' = world /\ stale' = FALSE
          \/ cache' \in {cache, None} /\ stale' = TRUE
       /\ StartSim(graph')
    \/ UNCHANGED <<graph, cache, stale, simReady, state, exposed>>

-----------------------------------------------------------------------------

Idle == up /\ ~unsaved

\* The process comes up: onLoad, with what the config says by now.
Boot ==
    /\ ~up /\ up' = TRUE
    /\ persist' \in BOOLEAN /\ recrawl' \in BOOLEAN
    /\ started' = FALSE /\ simReady' = FALSE /\ graph' = None /\ state' = None
    /\ unsaved' = FALSE /\ stale' = FALSE
    /\ UNCHANGED <<world, changes, disk, exposed>>

\* Mutated form: a graph from the cache does not start the simulation.
FirstRoundUnstarted ==
    /\ Idle /\ ~started /\ started' = TRUE
    /\ IF ~recrawl /\ cache # None
       THEN graph' = cache /\ UNCHANGED <<simReady, state, exposed, cache, stale>>
       ELSE Crawl
    /\ UNCHANGED <<world, flags, up, unsaved, changes, saved>>

\* onNewRound, the first time: the cached graph if it is to be used and usable,
\* else a crawl; then startSim.
FirstRound ==
    /\ Idle /\ ~started /\ started' = TRUE
    /\ IF ~recrawl /\ cache # None
       THEN graph' = cache /\ StartSim(cache) /\ UNCHANGED <<cache, stale>>
       ELSE Crawl
    /\ UNCHANGED <<world, flags, up, unsaved, changes, saved>>

\* An admin's rebuild, by command or from the web: at any time, also before
\* the first round.
Rebuild ==
    /\ Idle /\ Crawl
    /\ UNCHANGED <<world, flags, up, started, unsaved, changes, saved>>

\* A tick, or a spawn or clear by an admin or another module, up to its
\* persistState.
Change ==
    /\ Idle /\ simReady /\ changes < MaxChanges
    /\ changes' = changes + 1
    /\ state' = changes' /\ unsaved' = TRUE
    /\ UNCHANGED <<world, flags, up, started, simReady, graph, disk, exposed, stale>>

\* Mutated form: nothing is written, and nobody logs it.
PersistStateNever == saved' = saved /\ exposed' = FALSE

\* persistState: nothing with persistence off; a failed write is only logged.
PersistState ==
    \/ persist /\ saved' = state /\ exposed' = FALSE
    \/ saved' \in {saved, None} /\ persist /\ exposed' = TRUE
    \/ ~persist /\ saved' = saved /\ exposed' = TRUE

FinishChange ==
    /\ up /\ unsaved /\ unsaved' = FALSE
    /\ PersistState
    /\ UNCHANGED <<world, flags, up, started, simReady, graph, state, changes, cache, stale>>

\* onSave: the engine's autosave, shutdown and copyover.
OnSave ==
    /\ Idle /\ simReady
    /\ PersistState
    /\ UNCHANGED <<world, flags, memory, changes, cache, stale>>

\* A config save adopted by the game loop.
SetFlags ==
    /\ Idle
    /\ persist' \in BOOLEAN /\ recrawl' \in BOOLEAN
    /\ UNCHANGED <<world, memory, changes, disk, exposed, stale>>

\* External: the process dies, at whatever step it is.
Crash ==
    /\ up /\ up' = FALSE
    /\ started' = FALSE /\ simReady' = FALSE /\ graph' = None /\ state' = None
    /\ unsaved' = FALSE
    /\ UNCHANGED <<world, flags, changes, disk, exposed, stale>>

\* External: builders change zones or exits.
WorldChanges ==
    /\ world < MaxWorld /\ world' = world + 1
    /\ UNCHANGED <<flags, memory, changes, disk, exposed, stale>>

Init ==
    /\ world = 0 /\ persist \in BOOLEAN /\ recrawl \in BOOLEAN
    /\ up = FALSE /\ started = FALSE /\ simReady = FALSE
    /\ graph = None /\ state = None /\ unsaved = FALSE
    /\ changes = 0
    /\ cache \in {None, 0} /\ saved \in {None, Fresh}
    /\ exposed = FALSE /\ stale = FALSE

Next ==
    \/ Boot \/ FirstRound \/ Rebuild \/ Change \/ FinishChange \/ OnSave
    \/ SetFlags \/ Crash \/ WorldChanges

Spec == Init /\ [][Next]_vars

-----------------------------------------------------------------------------

Editions == {None} \cup Nat

TypeOK ==
    /\ world \in Nat /\ changes \in Nat
    /\ persist \in BOOLEAN /\ recrawl \in BOOLEAN /\ up \in BOOLEAN /\ started \in BOOLEAN /\ simReady \in BOOLEAN
    /\ unsaved \in BOOLEAN /\ exposed \in BOOLEAN /\ stale \in BOOLEAN
    /\ graph \in Editions /\ cache \in Editions /\ saved \in Editions
    /\ state \in Editions /\ (simReady => state # None)

\* Graceful degradation: past the first round the simulation runs exactly when
\* there is a graph, be it from the cache, a crawl at boot or a rebuild after a
\* crawl that failed; and it never runs without one (startSim, rebuildGraph).
ReadyWhenMapped ==
    /\ simReady => graph # None
    /\ started /\ graph # None => simReady

\* A crash loses at most the change in progress: at any other time a restart
\* resumes the very state the module is in, unless persistence is off or the
\* write the module last made of it failed (persistState is called at the end
\* of every tick, spawn and clear, and the state starts from what it restores).
ResumesWhereItWas ==
    simReady /\ persist /\ ~unsaved /\ ~exposed => InitialState = state

\* Within one process a graph gives way to a newer crawl only: the first round
\* after an early rebuild re-reads the cache and finds that crawl in it, unless
\* its cache write failed (loadOrBuildGraph after rebuildGraph).
GraphNeverAges ==
    [][up /\ up' /\ graph # None /\ ~stale => graph' >= graph]_vars

\* Seen from plugin storage the module is a journal of one entry.
Journal == INSTANCE Journal WITH live <- state, durable <- saved

JournalSpec == Journal!JSpec
=============================================================================
