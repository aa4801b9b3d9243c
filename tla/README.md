# GoMud weather module: a TLA+ verification project

This directory models the weather module in `src/` (a Go plugin of the GoMud
engine) in TLA+, model-checks the models with TLC on small instances, and
proves theorems about them with TLAPS for every value of their constants. Every
definition is translated from the Go source; `PROJECT.json` names the lines
("map") each definition stands for.

## 1. Inventory of the system

The module simulates weather fronts that drift over a graph of the world's
zones. All of its state lives in one `weatherModule` value that only the
engine's game loop touches, except for one atomically published snapshot and
the engine's config store, which web goroutines read and write.

| Part (source) | State it keeps | Operations | Talks to |
| --- | --- | --- | --- |
| **Simulation** (`sim/`: `tick.go`, `mutate.go`, `query.go`, `climate.go`, `state.go`, `graph.go`, `rng.go`) | `State`: fronts, `NextID`, resolved weather per zone, generator position | `Step` (age, remove the dead, move, re-roll types, spawn, resolve), `ForceSpawn`, `ClearZones`, `Covering` | pure; called by the root package |
| **Crawler** (`crawler/`) | none (builds a `sim.Graph`) | `Build`: zones and roots, exclusion by pattern, edges from exits, connected components | engine world reader |
| **Seasons** (`seasons/`) | loaded tracks | `Load`/`parseTrack`, `Resolve` (day of the year to season and blend), `EffectiveClimate`, `ZoneSeasons` | calendar |
| **Content** (`content/`) | climate profiles, emote tables | loading YAML, `Pick` | embedded files |
| **Engine bindings** (`engine/`) | the engine's mutator lists on zones and rooms | `Reconcile`, `ReconcileSeasons`, `RefineRoom`, `StripZoneWeather`, buff overrides and stripping, codecs of the cached graph and the saved state, `EmitAmbient` | engine rooms, mutators, buffs, plugin storage |
| **Module lifecycle** (`weather.go`, `weather_tick.go`) | `graph`, `state`, `simReady`, `nextTick`, `nextEmote`, `zoneSeasons`, `seasonsOn` | `onLoad`, `onNewRound`, `startSim`, `rebuildGraph`, `tick`, `persistState`, `onSave`, `onRoomChange` | all of the above |
| **Config and admin** (`weather_config.go`, `weather_admin.go`, `weather_admin_api.go`) | `cfg`, the engine's overlay, the snapshot | `buildConfig`, `healConfigClobber`, `handleAdminConfig` (web), `onConfigChanged`, `onAdminAction` (game loop) | engine config store, event queue |
| **Commands and exports** (`weather_commands.go`, `weather_api.go`) | none | `weather spawn`, `clear`, `rebuild`, status, exported functions | simulation, lifecycle |
| **Admin page, data files** (`files/`) | none | HTML and JavaScript, YAML | web API |

### How the parts interact

* The engine fires `NewRound` on the game loop. The first one loads or crawls
  the graph and starts the simulation; later ones run emotes and, when
  `nextTick` is due, a coarse tick: `sim.Step`, then `applyWeather`, then
  seasons, then persistence, then the next `nextTick`, then a snapshot.
* Before that, `onLoad` heals the config, reads it and registers the
  listeners, or, disabled, publishes one snapshot and registers nothing. The
  engine merges the module's overlay into the operator's overrides before
  `onLoad`, and that merge wipes the live block whenever the overlay has a key
  the file lacks; one successful write of a registered key restores it all.
* `RoomChange` events arrive on the game loop some time after the move they
  report. Mutators decay in the engine at any time.
* Admin saves run on web goroutines: they write the store, read it back, and
  queue an event. The game loop then re-reads the whole config, adopts it, and
  runs the live applier of the one key the event names.
* Admin actions (spawn, clear, rebuild) are queued as events or run as user
  commands; both run on the game loop and change the simulation between ticks.
* Plugin storage holds the crawled graph and the saved simulation state across
  restarts.

### What is hard here

* **Interleaving:** web goroutines against the game loop, without a lock around
  write, read-back and queueing, nor around the re-read of the config.
* **Events that lag:** room changes and config events describe a state that has
  moved on by the time they are handled.
* **State kept twice:** the weather map and the engine's mutator lists; the
  coverage rule in `resolveWeather` and in `Covering`; the config and what its
  live appliers made of it; the graph and the weather map resolved on it.
* **Helpers and entry points:** the snapshot is published by entry points only,
  each once and at its end; a path that forgets leaves a stale page.
* **Clocks set from two sides:** ticks and emote passes set their next round,
  and so do config saves, whose event may find the value adopted already.
* **Long runs:** ids must never be reused; admin actions bypass the budget; a
  climate may feed a front as fast as it decays.
* **Restarts:** saved state and cached graph may be absent, of another version,
  or of another world; the config may be wiped by an update, the file that
  holds the operator's settings unreadable.
* **Calendar boundaries:** months of uneven length, seasons that wrap the year.

### What makes each part correct

* *Simulation:* fronts die; ids are unique; ticks respect the budget; clearing
  clears, also what reaches in from other zones; the query API and the map
  agree; a front moves one hop at a time.
* *Placement of weather:* no mutator list carries two weathers or one twice,
  players see their zone's weather, one layer (zones or rooms) asserts it, and
  a room a player is in is bare before the zones carry it again.
* *Config:* no accepted save is lost on its way; live appliers take effect; a
  wiped block comes back, in the live config and in the file.
* *Buffs:* disabled buffs mean none, overridden or not.
* *Lifecycle:* a restart resumes from what was last saved; the simulation runs
  once there is a graph; season flips are announced once.
* *Clocks and page:* ticks and emote passes keep to the cadence in force; the
  page shows the module as it is between events.
* *Seasons:* every day of the year has one season, seasons follow each other in
  the order the year gives them, odds move gently; invalid tracks are rejected.
* *Crawler:* edges are symmetric and join known zones only; components are the
  connected components; what is left out of the crawl takes its edges with it
  and nothing else.

## 2. Modules

| Module | Models | Proofs |
| --- | --- | --- |
| `WeatherSim` | package `sim`: fronts, ticks, admin mutations, coverage | `WeatherSimProofs` |
| `ZoneGraph` | the graph as it passes from crawler to simulation | (assumed by `WeatherSim`, proved of `Crawler`) |
| `FrontLedger` | abstract: what `sim` promises of its front population | (implemented by `WeatherSim`) |
| `ConfigApply` | an admin save from the web goroutine to the live applier | `ConfigApplyProofs` |
| `ConfigHeal` | the config over boots: overlay merge, self-heal, saves, buffs | `ConfigHealProofs` |
| `RoomWeather` | weather mutators on zones and rooms under moving players | `RoomWeatherProofs` |
| `SeasonTracks` | track files, the calendar, seasonal odds | `SeasonTracksProofs` |
| `SeasonFlips` | the season layer at run time, and its events | `SeasonFlipsProofs` |
| `Restarts` | startup, persistence, crashes | `GameLoopProofs` |
| `GameLoop` | every entry point of the module over `Restarts`: clocks, queue, page | `GameLoopProofs` |
| `Journal` | abstract: what plugin storage promises the simulation | (implemented by `Restarts` and `GameLoop`) |
| `Crawler` | package `crawler`: the graph and its components | `CrawlerProofs` |

Each has an `MC` module with the small values TLC runs it on; `Restarts` runs
inside `GameLoop` (`MCGameLoop`), which extends it. Elsewhere the components
meet on narrow interfaces, and each model takes the other side of such an
interface in full generality: `RoomWeather` accepts *any* weather map a tick or
an admin action can yield, `WeatherSim` *any* graph, climate and setting of the
live knobs at every step, `SeasonFlips` any turn of the calendar and any crawl,
`Restarts` any number of changes of the state. What one model shows therefore
does not rest on what another one restricts. What `WeatherSim` assumes of its
graphs, `IsZoneGraph`, is proved of every graph that `Crawler` builds
(`ServesTheSimulation`).

### WeatherSim and FrontLedger

`fronts` is `State.Fronts`, by id (the code keeps the slice in id order),
`nextID` and `weather` are the fields of that name; `graph` and `cfg` are the
module's, as `Step` and the mutations receive them. Actions: `Tick` is `Step`
as a whole (`Aged`, `Moved`, `Evolved`, `RemoveDead`, `SpawnFronts`, `Resolve`,
in the code's order), `ForceSpawn`, `ClearAll` and `ClearZone` are `mutate.go`,
`Rebuild` and `Reconfigure` change what the next call receives. `Covering` and
`Claims` are two separate translations, of `query.go` and of `resolveWeather`:
the code repeats the rule and says they must agree. Randomness is a choice of
any outcome a draw can give; intensities are integers with `Scale` for 1.0.
`FrontLedger` forgets climate, coverage and types and keeps identities: issued
in order, once, aging by one a tick, moving one hop at most.

### ConfigApply

`handler[h]` is one web goroutine between `Config.Set`, the read-back and
`AddToQueue`; `store` is the engine's config, `queue` the event queue,
`reading` the game loop inside `buildConfig`, which reads the store key by key
without a lock. `ApplyConfigChange` adopts the config and runs the applier of
the event's key alone. One key stands for each kind of applier.

`coated` are the rooms whose own lists carry weather, `occupied` those with
players, and `ApplyWeather` is the switch between the three refinement modes.
`RefinementApplied` strips the occupied rooms only when a room mode is left: a
room that mode `all` coated, or whose players have gone, keeps its weather until
it decays while the zones carry weather again, as the comment at
`weather_admin.go:254` and the repository's `README.md:779` say.
`OneLayerAsserted` is what the code promises all the same: the zones carry
weather only with refinement off, nothing coats a room then, and leaving a room
mode bares every room with players. `Walk` and `OnRoomChange` move the players;
here any event may come at any time, `RoomWeather` has their queue.

### RoomWeather

Mutator lists count how often each `weather-*` id is live, because the engine's
`Add` appends an id that is live already. `ApplyWeather` is the switch between
the three refinement modes; `OnRoomChange` handles the oldest event against
where the players are *now*. `Move`, `Login`, `Logout` and `Decay` are the
engine's. A move is complete before its event is queued, as in the engine.

### SeasonTracks

`LoadFile` parses one file in name order (`ValidSeason` and `Valid` are the
checks of `parseTrack`, `ContiguousStart` the run test); `NextDay` is the calendar.
`Standing`, `Resolve` and `Effective` are functions of the track and the day:
where the track stands, the names `Resolve` makes of it, and the odds
`EffectiveClimate` makes of the seasons it finds again by those names. `Named` is
that look-up, the first season of the name. `parseTrack` accepts two seasons of
one name, and the later of them then never gets its own odds: with
A (month 1), B (month 2), A (month 3, other factors), month 3 has the odds of
the first A. What is said of the odds by season is therefore said of tracks
of distinct names (`DistinctNames`); the acceptance of files, the order of
seasons and the fact that no weight is negative need no such condition. A blend is kept as a
fraction, odds over the window's length, so that nothing is rounded. What a
file can hold is `SeasonFile`: the YAML decoder yields numbers of any sign.
`GoesRound` is the reference the checks are compared with: months laid end to
end, every month of the year once.

### SeasonFlips

`zoneSeasons` is what the module last resolved and exports, `shown` the
`season-*` ids on the zones, `queue` and `heard` the events and what a listener
makes of them. A season is a number that stands for its name: the names in a
track are distinct here. `LoadSeasons` sets a baseline without events, `Tick` compares
and queues, `Rebuild` resolves anew without comparing, `ToggleSeasons` is the
live applier. The history variable `meddled` remembers that an admin acted on
the running layer, which is where `EventsSuffice` stops holding and
`ListenersFollow` fails.

### Restarts and Journal

Memory (`graph`, `state`, `simReady`, `started`) is lost by `Crash`, storage
(`cache`, `saved`) is not. `Change` is a tick or an admin mutation up to its
`persistState`, `FinishChange` that call, so a crash can fall between the two;
a write can fail, or be torn, and leave old or broken bytes. `FirstRound` is
`loadOrBuildGraph` and `startSim`, `Rebuild` an admin's, possible before the
first round. `exposed` and `stale` are history variables only properties read:
a write that was due was not made.

### GameLoop

`GameLoop` extends `Restarts` and adds what the game loop goes through: `round`
(the engine's counter), `nextTick` and `nextEmote`, the config layer `store`
that web goroutines write, the `queue` of saves and page actions, `listening`
(a disabled boot registers nothing), and the published `snapshot`. Every action
is one of `Restarts` together with what the entry point does around it, or
leaves the variables of `Restarts` alone; `LoopImplementsRestarts` is that
statement. `at` is the handler between a change and its `persistState`
(`FinishTick`, `FinishAction`, `FinishCommand`), the point where a crash loses
something. `Load` is `onLoad`, `RoundStarts` and `FirstRoundGoesOn`
the first `NewRound`, `RoundPasses` any later one.

* The jittered draw of `scheduleEmote` is taken late: `nextEmote` is the *set*
  of rounds it may be, and a round at which some of them are due may or may not
  be the one. This keeps every behaviour of the draw and far fewer states.
* `HandleSave` adopts the config in one step; that the code reads it key by key
  while others write is the subject of `ConfigApply`.
* The page is everything `buildSnapshot` copies out of the module, abstracted
  to the values of the variables it reads. The count of refined rooms is left
  out: `RoomChange` does not publish, and the page's number lags by design.
* `countedFrom` and `pacedFrom` are history variables.

Modelling the entry points side by side showed three things a reader may not
expect. Each save of `TickEveryGameHours` counts a whole period from *its* round, so
saves repeated more often than the period postpone the tick each time. An
`Enabled: false` saved live makes the in-game commands inert at once, although
the badge says that a reboot is needed, while the exports of other modules and
the ticks go on. And a rebuild whose crawl fails over an older graph is
reported to the page as "graph rebuilt" (the code says so in a comment).

### ConfigHeal

`block` is the operator's `Modules.weather` block in the overrides file,
`union` the engine's overrides in memory, `live` what `Config.Get` reads. A
block is a partial function from flat keys to values. `Boot` is the engine's
merge, `Heal` is `healClobberedConfig` with its one write, `LoadConfig` what
`onLoad` reads after it; `Save` is an admin's save taken as a whole. `Update`
installs a module version with more overlay keys, `Edit` and `Remove` are the
operator's editor. `BuffPhase` is `applyBuffConfig`, from the shipped buffs of
the specs, the overrides and the switch. `asked` is a history variable: what
the operator last asked for, by file or by save.

One case is outside its properties, by name: after a boot that could not read the file
(`blind`) the module runs on defaults, and a later save of *any* key
restores the union, `BuffsEnabled: false` included, but runs that key's applier
only. Buffs then stay although the config disables them, and saving
`BuffsEnabled: false` once more finds no difference and strips nothing.

### Crawler

A behaviour is one call of `Build`. Zones are naturals in name order, an
exclusion pattern is the set of zones it matches or malformed. `Crawl` reads the
world in one step (nothing else runs meanwhile) and either fails on a pattern
(`CrawlFails`) or has nodes and edges; the union-find of `countComponents` is
taken apart into the steps of `find`, one path-halving assignment each, with
edges and zones in any order. `Neighbors` is the index `sim.Graph` derives from
the edges. `ComponentsCounted` compares with reachability, defined apart.

## 3. Model checking

Runs that pass:

| Run | Question | Shows |
| --- | --- | --- |
| `sim_core` | WeatherSim, everything at once | `QueryAgreesWithWeather`, `TickRespectsBudget`, `ClearTakesEffect`, refinement of `FrontLedger` |
| `sim_lives` | does every front die without the hard cap? | `EveryFrontDies`, `BoundedLives`, `RerollOnlyMoversOrStranded` |
| `config_saves` | two admins at will, or one save at a time | `AdoptedWhenQuiet`, `KnobsFollowConfig`, `SavesAreAdopted`; while saves are serial, `SerialSavesApply`, `OneLayerAsserted` |
| `config_heal` | boots, updates, edits, saves, unreadable files, rejected writes | `FileKeepsWhatWasAsked`, `OperatorIsHonoured`, `HealedForGood`, `BuffsOffMeansNone` |
| `room_weather` | two players, all modes, decay, rebuilds | `OneWeatherPerList`, `PlayersSeeTheirWeather`, `RoomsAreTheOnlyCarriers`, `ZonesShowTheirWeather` |
| `season_tracks` | every small file on three calendars | `AcceptsWhatGoesRound`, `SeasonsTurnInOrder`, `OddsStayBetween`, `OddsMoveGently` |
| `season_flips` | turns, ticks, rebuilds, toggles, decay, restarts | `SeasonsShown`, `EventsSuffice`, `SeasonsCatchUp` |
| `game_loop` | every entry point, crashes, failed writes, disabled boots | `SnapshotCurrent`, `TicksKeepTheirPace`, `EmotesPaced`, and of the lifecycle `ResumesWhereItWas`, `ReadyWhenMapped`, `GraphNeverAges`, refinement of `Journal` |
| `crawler` | every graph on four zones, one motley world, bad patterns | `ComponentsCounted`, `ExclusionInduces`, `NeighborsAgree`, `BadPatternsNeverCount`, `CrawlEnds` |

Type invariants are conjuncts of the inductive invariants and proved
(section 4); the runs spend their time on the rest.

Runs that end in a counterexample, each against a sentence of the repository
(quoted in `PROJECT.json`, "findings"):

| Run | The program does otherwise |
| --- | --- |
| `config_lost_apply` | two saves before the first event is handled: the second key's live applier sees no difference and does nothing |
| `room_dropped` | a zone dropped from the graph keeps its weather mutator |
| `season_rebuild` | a flip between the last tick and a rebuild is never announced |

A smaller divergence is stated as what the code does, not as a counterexample:
`sim/tick.go:252` says that types re-roll when a front moves, and a front that
beats the movement resistance but has no neighbour re-rolls where it stands
(`sim/tick.go:184`). `RerollOnlyMoversOrStranded` is the exact rule.

### Bounds, and why they are enough

* `WeatherSim`: three zones in a line, or two islands and the third zone gone,
  three fronts (`MaxId`), two of them forced (`MaxForced`), budgets of one and
  two, intensities in quarters, radius 2, hard age 2. Ties and overlapping claims
  take two fronts; the budget takes three, two that are over it and one that the
  next tick could spawn. One hop more than the edge shows that projections reach
  past neighbours. `sim_lives` has one front, as
  fronts do not influence each other's lives, and no hard cap: package `sim`
  offers that setting, the module itself always runs with the shipped cap of 48.
* `ConfigApply`: two web goroutines, four live keys with the three refinement
  modes among their values, one room that players enter and leave, coated or not
  to begin with, two writes (`MaxWrites`), two saves on their way
  (`MaxPending`). Each room is coated and bared for itself, so one stands for all. Losing a save, or an applier, takes two.
  Behaviours in which the second save begins after the first is handled are
  among them; `overlapped` remembers the others.
* `ConfigHeal`: two keys, a third that comes with an update, one override; every
  partial block to begin with, two saves, one edit, any number of boots. A heal
  concerns a key the overlay has or not and the file has or not, and all four
  kinds are there.
* `RoomWeather`: two players, three rooms in two zones, two waiting events
  (`MaxQueue`): a room can be left by one player, kept by another, and re-entered
  before the first event is handled.
* `SeasonTracks`: years of three and four months, of 3, 8 and 10 days: months of
  two and three days and months without a day. Up to three seasons, claims in
  order, wrapped, unsorted, doubled, overlapping and out of range; a file and
  seasons without a name, two seasons of one name and different factors.
  `OddsMoveGently` is stated for tracks whose windows fit in their seasons:
  nothing in the code makes them, and where one does not, its blend is cut off
  by the next flip. A share is one of the season the odds move *in*: a window
  that fills its season ends on the day the next begins, and that day still
  moves by a share of the season that ends. Two of the seasons are close to each
  other, so that the way to one is shorter than a share of the way to the other.
* `SeasonFlips`: two zones, two tracks, three crawls (on one track, on two,
  unbound). `MaxQueue` delays a tick while more events wait: with 1, flips of
  two ticks are in the queue together.
* `GameLoop`: four rounds (`MaxRound`), periods of two and four of them, so ticks
  fall inside the run, before and after a save; cadences of 5 and 6 rounds (5 is the
  loader's floor). A simulation that a rebuild starts before the first round has
  its first emote pass in round 4, which may be due in it or not. Saves are of
  the two keys that set a clock, whatever the other keys hold from the first boot on.
  Two requests (saves or page actions) in any interleaving of write and queueing,
  two changes of the state, two editions of the world, three configs at the
  first boot.
* `Crawler`: all 64 graphs on four zones, where four edges can meet one tree in
  both roles, under four option lists, and one world of seven exits.

### Fairness

`sim_lives` and `season_flips` assume weak fairness of ticks, because `onNewRound`
calls `tick` whenever the round clock has passed `nextTick` and the engine fires rounds
for ever. `season_flips` also assumes it of the start, which the first round
drives, and of the listeners, which the engine's event loop calls.
`config_saves` assumes that every web request runs to its answer
and the game loop goes on handling events. `crawler` assumes that a loop without
waits goes on (`CrawlEnds`). No admin, player, builder, calendar
or crash is ever assumed to act, and `game_loop` assumes nothing. A save of
`TickEveryGameHours` schedules the next tick anew, so saves repeated for ever
could postpone ticks for ever (`TicksKeepTheirPace` is the rule); the fairness
of `Tick` excludes that case.

## 4. Proofs

Proved by TLAPS, for every value of the constants that meets the named
assumptions of the modules (a zone outside the graph has no neighbours, every climate
has a default profile, knobs are naturals, ...):

* **WeatherSim.** `TypeCorrect` carries `IdsIssued` (every id is below `nextID`)
  along with the types: without it a new front could replace an old one.
  `LivesBounded` is inductive given the types, because past the age `Grace` the
  decay exceeds anything a climate feeds; `EndInSight` draws from it the age no
  front reaches, which is what is behind `EveryFrontDies`. `QueryAgrees` rests on
  `WeatherResolved` (the map is `ResolveWeather` of the graph it was resolved
  on) and on the lemma that `Covering` and `Claims` hold the same fronts;
  `ClearingClears` on the lemma that removing fronts takes claims away and
  changes none. `BudgetRespected` needs the population to be finite.
  `ImplementsLedger` maps each action to one of the ledger's.
* **ConfigApply.** `ConfigNothingLost` is the inductive invariant: a key whose
  stored value the game loop has not seen is named by a queued event, is in the
  hands of a request that will queue one, or is yet to be read by the event in
  progress. At quiet nothing is left of the second part, which gives
  `NoWriteLost`, and `KnobsFollow` for the applier that does not compare.
  `ConfigOneAtATime` is the one for serial saves: store, config read and config
  adopted differ at the one pending save's key at most, and what runs is what
  the adopted config says. `SerialSavesKeepTheirPromise` follows,
  and so does `OneLayer`: where the zones carry weather after a step, the mode
  in force is off by that invariant, and only the applier turns it off.
  `ConfigTypeCorrect` gives the types of both. `WorkRunsOut` is what is behind
  `SavesAreAdopted`: writes not read back, saves without an event, events, keys
  to read and the start fall lexicographically with every step but a new save.
* **ConfigHeal.** `HealInvariant`: from the engine's merge on, `union` holds the
  whole file and the whole overlay, and `live` is either the union or the wiped
  block. This is why one write of any registered key restores everything
  (`Honoured`), why the write loses nothing of the file (`FileKept`), and why it
  leaves a block no later merge wipes (`Healed`). `BuffsStayOff` needs that a
  config read after a heal that could see the file agrees with it.
* **RoomWeather.** `RoomWeatherInvariant`: every list holds at most one id and
  that once, and an occupied room that does not show its zone's weather has an
  entry event waiting. The waiting event is needed because a room
  can be entered while events of earlier moves are still queued. `RoomTypeCorrect`,
  `NeverTwoWeathers`, `PlayersSee`, `OnlyRoomsCarry` and `ZonesShow` are its parts.
* **SeasonTracks.** The invariant says what a loaded track is: seasons that part
  the year among them, each one run of months from its start (`Parsed` of a
  valid file is such a track, and the calendar never changes). Four facts about
  the engine's calendar carry the rest: months never fall as the days pass, a
  year with more days than months skips none, every month then has a first day,
  and New Year leads from the last month to the first. `ResolvesEveryDay` is
  what makes the unchecked indexing in `Resolve` safe, in years of any shape.
  `SeasonsInOrder` needs that a run of months is left at its end only, for the
  season that follows. `OddsBetween` is arithmetic, given `DaysInto` within the
  year and `NamedFinds`: a name that some season has is found again, and where
  names are distinct it is the season meant. `OddsGentle` needs, for the day a season ends, that by its last day the season
  has run all the days it has but one: no two of its days are equally far into
  it, and the last is the furthest. `AcceptsRounds` shows the checks of `parseTrack` equivalent to
  the reference: one start in a set of months makes it a run of its length, and
  months laid once each leave no two seasons claiming one. `FilesAssumption`
  says no more than the decoder does: integers, of any sign.
* **SeasonFlips.** `NeverAnotherSeason`: resolving and reconciling together
  establish the invariant from any state, and nothing else touches either side.
  `EventsTellAll` needs more of the queue: of the events that wait for a zone
  the last one carries the season resolved last, and a zone with no event
  waiting is one the listener agrees on already (`Told`). A tick may queue the
  events of several zones in any order, but one per zone, which is why the order
  does not matter. The world's zones are assumed finite (a Go map is), since a
  tick queues all its flips. `TypesHold` gives the types of both.
* **Restarts** (in `GameLoopProofs`). `RestartInvariant` relates memory to storage: graph, simulation
  and state come together, and storage holds what memory holds unless a write
  is pending or failed. `Resumes`, `Ready` and `GraphsGoForward` follow, and
  `ImplementsJournal` needs that a state never is ahead of the changes made.
* **GameLoop.** `LoopImplementsRestarts` takes each action to one of
  `Restarts`, or to a stutter, so the theorems of `Restarts` carry over:
  `LoopResumes`, `LoopReady`, `LoopGraphsGoForward` and `LoopImplementsJournal`. `LoopInvariant`
  says which handler may be between a change and its write, that no event waits
  where nobody listens, that what was published is current between events, and
  how far ahead the clocks are. A clock is stale only while a save of its key is
  in flight or queued, which is why the statement of both paces has that case.
  `PageIsCurrent`, `TicksPaced` and `EmotesKeepPace` are its parts.
* **Crawler.** `CountsComponents` rests on an invariant of the forest and of
  the history variable `label`, the root above each zone: no cycles, every tree
  inside one component, and two zones joined by an edge already merged under
  one root. Reachability is stated as closure under
  edges, so no induction over paths is needed. `ExclusionIsInduced` and
  `NeighborsMutual` are statements about the operators that build the graph,
  `BadPatternsDecideNothing` about lists of patterns. `CountsDown` is what is
  behind `CrawlEnds`: edges left, zones left, the part of the loop's body and
  the zones above the one `find` is at fall lexicographically with every step.
  That a round of `find` leaves its zone below for good, while it rewrites the
  forest, rests on the absence of cycles (`NoWayBack`). `ServesTheSimulation`
  discharges what `WeatherSim` assumes of its graphs.

Every safety invariant and every action property of the passing runs is stated
by a theorem. Only model-checked are the liveness properties
(`EveryFrontDies`, `SavesAreAdopted`, `SeasonsCatchUp`, `CrawlEnds`), since
fairness and ENABLED are out of the prover's reach here: what is proved of them
are safety facts the argument rests on: a measure that falls (`CountsDown`,
`WorkRunsOut`) or an age that is not reached (`EndInSight`). `SeasonsCatchUp`
has no such half: one fair tick after a turn is all it needs. The properties that fail have their counterexample as result.

Proving `OddsMoveGently` changed it. An earlier statement measured the step
across the end of a season in shares of the season that begins; the proof failed
for a window that fills its season, and TLC then found the counterexample with a
third season close to the first, which the instance now has.

## 5. Not modelled

* The generator's words (`rng.go`): draws are choices. Moisture and the diff
  `Step` returns: nothing reads them.
* What an emote pass says to whom (`EmitAmbient`, `Pick`): no state outlives a
  pass, and a room's line is one branch of one call. *When* a pass is due is in
  `GameLoop`.
* Climate and emote files (`content/`): the models take any climate. The admin
  page's HTML and JavaScript, YAML and JSON formats, wording of messages,
  permissions, listings (`printStatus`, `printZones`, ...), look-up of zones by
  name.
* The text of config values (`Validate*`, `buildConfig`'s conversions): values
  are canonical ones, absent ones have their default, floors hold. Buff ids of an
  override are usable or not.
* The content of the snapshot beyond what it is computed from, and the count of
  refined rooms in it.
* Arithmetic on floats: intensities, odds and blends are exact here.

## 6. Plan

Done: `WeatherSim`/`FrontLedger`, `ConfigApply`, `ConfigHeal`, `RoomWeather`,
`SeasonTracks`, `SeasonFlips`, `Restarts`/`GameLoop`/`Journal`,
`Crawler`/`ZoneGraph`, each with the theorems of section 4. What is left, most useful first:

1. `RoomWeather` and `SeasonFlips` under the clocks of `GameLoop`: ticks that
   come when they are due, not at any time.
2. The hazards without a property (`PROJECT.json` gives the reason for each),
   should the module come to promise something of them.
