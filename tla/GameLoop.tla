------------------------------- MODULE GameLoop -------------------------------
(***************************************************************************)
(* The module's entry points on the one game-loop goroutine, over the      *)
(* lifecycle of Restarts: onLoad, NewRound with the clocks of ticks and    *)
(* ambient emotes, the web's config saves and page actions as queued       *)
(* events, in-game commands and exports, autosave, crashes; and the admin  *)
(* snapshot each of them is to publish at its end (weather.go,             *)
(* weather_tick.go, weather_admin.go, weather_admin_api.go,                *)
(* weather_commands.go, weather_api.go, engine/clock.go).                  *)
(*                                                                         *)
(* A handler runs to its end before the next event; web goroutines, the    *)
(* outside world and crashes come in between its steps.  Every step is one *)
(* of Restarts or leaves all of its variables alone.  A config is adopted  *)
(* in one step: ConfigApply is about the reads one key at a time.          *)
(***************************************************************************)
EXTENDS Restarts, Sequences

CONSTANTS
    Hours,          \* values of TickEveryGameHours
    Cadences,       \* values of EmoteEveryRounds
    FirstStores,    \* what the config layer may hold at the first boot
    SavedKeys,      \* bound: the keys that are ever saved
    RoundsPerHour,  \* rounds in a game hour
    MaxRound,       \* bound: rounds
    MaxRequests     \* bound: saves and page actions

Stores == [hours : Hours, every : Cadences, emotes : BOOLEAN,
           enabled : BOOLEAN, persist : BOOLEAN, recrawl : BOOLEAN]
Keys == {"hours", "every", "emotes", "enabled", "persist", "recrawl"}
Values(key) == IF key = "hours" THEN Hours ELSE IF key = "every" THEN Cadences ELSE BOOLEAN
PageActions == {"change", "rebuild"}

ASSUME GameLoopAssumption ==
    /\ Hours \subseteq Nat /\ Cadences \subseteq Nat
    /\ FirstStores \subseteq Stores /\ SavedKeys \subseteq Keys
    /\ RoundsPerHour \in Nat \ {0} /\ MaxRound \in Nat /\ MaxRequests \in Nat

VARIABLES
    round,      \* the engine's round counter
    store,      \* the config layer, shared with the web goroutines
    inFlight,   \* keys whose handler has written and not queued its event
    queue,      \* events the game loop has not handled: keys and page actions
    requests,   \* how many saves, actions and edits there were (bound)
    cfg,        \* m.cfg
    listening,  \* onLoad registered the save hook and the listeners
    at,         \* the handler the game loop is in
    nextTick,   \* m.nextTick
    nextEmote,  \* m.nextEmote: the rounds it may be, until one settles it
    lastAction, \* m.lastAdminAction
    snapshot,   \* what loadSnapshot answers
    countedFrom,\* history: the round nextTick was last counted from
    pacedFrom   \* history: the round nextEmote was last counted from

outside == <<round, store, inFlight, queue, requests>>
config == <<cfg, listening>>
tickClock == <<nextTick, countedFrom>>
emoteClock == <<nextEmote, pacedFrom>>
page == <<lastAction, snapshot>>
loopVars == <<outside, config, at, tickClock, emoteClock, page>>
allVars == <<vars, loopVars>>

-----------------------------------------------------------------------------
(* Clocks and snapshot.                                                    *)

AtLeastOne(n) == IF n < 1 THEN 1 ELSE n

\* TickPeriod: a count of game hours, at least one, in rounds.
Period(hours) == RoundsPerHour * AtLeastOne(hours)

\* The delays scheduleEmote may draw: the cadence, a quarter more or less.
Window(every) ==
    {AtLeastOne(delta) : delta \in (every - every \div 4)..(every + every \div 4)}

\* NextTickRound, from the round the engine is in.
ScheduleTick(hours) == nextTick' = round' + Period(hours) /\ countedFrom' = round'

ScheduleEmote(every) ==
    nextEmote' = {round' + delta : delta \in Window(every)} /\ pacedFrom' = round'

\* The clocks of startSim: counted from the round the simulation starts in.
Clocks(c) ==
    IF simReady' /\ ~simReady
    THEN ScheduleTick(c.hours) /\ ScheduleEmote(c.every)
    ELSE UNCHANGED <<tickClock, emoteClock>>

Starting == [kind |-> "module starting"]
Disabled == [kind |-> "module disabled by config"]

\* buildSnapshot of the module as it is.
View == [kind |-> "live", ready |-> simReady, graph |-> graph, state |-> state,
         nextTick |-> nextTick, cfg |-> cfg, last |-> lastAction]

\* publishSnapshot, at the end of an entry point.
Publish == snapshot' = View'

-----------------------------------------------------------------------------
(* The process.                                                            *)

\* What is gone with a process.
Forgotten ==
    /\ inFlight' = {} /\ queue' = <<>> /\ at' = "idle"
    /\ nextTick' = 0 /\ countedFrom' = 0 /\ nextEmote' = {} /\ pacedFrom' = 0
    /\ lastAction' = ""

\* onLoad: the config, and the listeners unless it disables the module, which
\* then publishes once and for all.
Load ==
    /\ Boot
    /\ cfg' = store /\ persist' = store.persist /\ recrawl' = store.recrawl
    /\ listening' = store.enabled
    /\ snapshot' = IF store.enabled THEN Starting ELSE Disabled
    /\ UNCHANGED <<outside, at, tickClock, emoteClock, lastAction>>

\* External: the process dies; the engine's round counter goes on from where
\* it was.
Die ==
    /\ Crash
    /\ Forgotten
    /\ listening' = FALSE /\ snapshot' = Starting /\ cfg' = store
    /\ UNCHANGED <<round, store, requests>>

LoopIdle == up /\ at = "idle"

\* onSave, when it is registered.
Autosave == LoopIdle /\ listening /\ OnSave /\ UNCHANGED loopVars

WorldMoves == LoopIdle /\ WorldChanges /\ UNCHANGED loopVars

-----------------------------------------------------------------------------
(* NewRound.                                                               *)

NextRound == LoopIdle /\ listening /\ round < MaxRound /\ round' = round + 1

\* The first round: startup, and the rest of the handler if that succeeded.
RoundStarts ==
    /\ NextRound
    /\ FirstRound
    /\ Clocks(cfg)
    /\ at' = IF simReady' THEN "round" ELSE "idle"
    /\ UNCHANGED <<store, inFlight, queue, requests, config, lastAction>>
    /\ Publish

\* The rest of the handler: the emote pass if its draw says that it is due, and
\* the tick if it is, up to persistState.
RoundGoes ==
    /\ simReady
    /\ \/ cfg.emotes /\ (\E due \in nextEmote : round' >= due) /\ ScheduleEmote(cfg.every)
       \/ (~cfg.emotes \/ \E due \in nextEmote : round' < due) /\ UNCHANGED emoteClock
    /\ IF round' >= nextTick
       THEN Change /\ at' = "tick"
       ELSE UNCHANGED vars /\ at' = "idle"
    /\ UNCHANGED <<store, inFlight, queue, requests, config, tickClock, page>>

\* A later round.
RoundPasses ==
    /\ started /\ NextRound
    /\ \/ RoundGoes
       \/ ~simReady /\ UNCHANGED <<vars, store, inFlight, queue, requests, config, at,
                                   tickClock, emoteClock, page>>

FirstRoundGoesOn == at = "round" /\ UNCHANGED round /\ RoundGoes

\* The tick's persistState, its next round and its publish.
FinishTick ==
    /\ at = "tick" /\ at' = "idle"
    /\ FinishChange
    /\ UNCHANGED <<outside, config, emoteClock, lastAction>>
    /\ ScheduleTick(cfg.hours)
    /\ Publish

-----------------------------------------------------------------------------
(* The web: a goroutine writes and queues, the game loop handles.          *)

\* handleAdminConfig up to its write, by one handler per key at a time.
SaveKey ==
    /\ up
    /\ requests < MaxRequests /\ requests' = requests + 1
    /\ \E key \in SavedKeys \ inFlight : \E value \in Values(key) :
        /\ store' = [store EXCEPT ![key] = value]
        /\ inFlight' = inFlight \cup {key}
    /\ UNCHANGED <<vars, round, queue, config, at, tickClock, emoteClock, page>>

\* Its AddToQueue; with no listener the event is dropped.
QueueKey ==
    /\ \E key \in inFlight :
        /\ inFlight' = inFlight \ {key}
        /\ queue' = IF listening THEN Append(queue, key) ELSE queue
    /\ UNCHANGED <<vars, round, store, requests, config, at, tickClock, emoteClock, page>>

\* handleAdminAction.
AskAction ==
    /\ up /\ listening
    /\ requests < MaxRequests /\ requests' = requests + 1
    /\ \E action \in PageActions : queue' = Append(queue, action)
    /\ UNCHANGED <<vars, round, store, inFlight, config, at, tickClock, emoteClock, page>>

TakeEvent ==
    /\ LoopIdle /\ queue # <<>> /\ queue' = Tail(queue)
    /\ UNCHANGED <<round, store, inFlight, requests>>

\* Mutated form: the applier looks for a difference of old and new config.
TickApplierIfChanged(key, old) ==
    IF simReady /\ key = "hours" /\ old.hours # store.hours
    THEN ScheduleTick(store.hours) ELSE UNCHANGED tickClock

\* The applier of TickEveryGameHours: a whole period from now.
TickApplier(key, old) ==
    IF simReady /\ key = "hours" THEN ScheduleTick(store.hours) ELSE UNCHANGED tickClock

\* Mutated form: the new cadence waits for the next pass.
EmoteApplierNever(key, old) == UNCHANGED emoteClock

\* The applier of EmoteEveryRounds.
EmoteApplier(key, old) ==
    IF simReady /\ key = "every" THEN ScheduleEmote(store.every) ELSE UNCHANGED emoteClock

\* onConfigChanged: the whole config as the layer holds it, then the key's
\* applier.
HandleSave ==
    /\ TakeEvent /\ Head(queue) \in Keys
    /\ SetFlags /\ persist' = store.persist /\ recrawl' = store.recrawl
    /\ cfg' = store
    /\ TickApplier(Head(queue), cfg) /\ EmoteApplier(Head(queue), cfg)
    /\ UNCHANGED <<listening, at>>
    /\ lastAction' = "saved" /\ Publish

\* onAdminAction, spawn and clear: refused, failed, or up to persistState.
HandleChange ==
    /\ TakeEvent /\ Head(queue) = "change"
    /\ UNCHANGED <<config, tickClock, emoteClock>>
    /\ \/ /\ lastAction' = "refused"
          /\ UNCHANGED <<vars, at>>
          /\ Publish
       \/ Change /\ at' = "admin" /\ UNCHANGED page

\* The rest of it.
FinishAction ==
    /\ at = "admin" /\ at' = "idle"
    /\ FinishChange
    /\ UNCHANGED <<outside, config, tickClock, emoteClock>>
    /\ lastAction' = "done" /\ Publish

\* onAdminAction, rebuild: a crawl that failed over an older graph is reported
\* as done.
HandleRebuild ==
    /\ TakeEvent /\ Head(queue) = "rebuild"
    /\ Rebuild
    /\ Clocks(cfg)
    /\ UNCHANGED <<config, at>>
    /\ lastAction' = IF graph' = None THEN "refused" ELSE "done"
    /\ Publish

-----------------------------------------------------------------------------
(* In-game commands and the exports of other modules, which leave          *)
(* lastAdminAction alone.                                                  *)

\* cmdWeather's rebuild: inert while the config disables the module.
CommandRebuild ==
    /\ LoopIdle /\ cfg.enabled
    /\ Rebuild /\ UNCHANGED outside
    /\ Clocks(cfg)
    /\ UNCHANGED <<config, at, lastAction>>
    /\ Publish

\* cmdSpawn, cmdClear, exportSpawnFront, up to persistState; the export does
\* not look at Enabled.
Command ==
    /\ LoopIdle
    /\ Change /\ at' = "command"
    /\ UNCHANGED <<outside, config, tickClock, emoteClock, page>>

\* Mutated form: nothing is published, for the page did not ask for it.
FinishCommandSilently ==
    /\ at = "command" /\ at' = "idle"
    /\ FinishChange
    /\ UNCHANGED <<outside, config, tickClock, emoteClock, page>>

FinishCommand ==
    /\ at = "command" /\ at' = "idle"
    /\ FinishChange
    /\ UNCHANGED <<outside, config, tickClock, emoteClock, lastAction>>
    /\ Publish

-----------------------------------------------------------------------------

LoopInit ==
    /\ Init
    /\ store \in FirstStores /\ cfg = store
    /\ persist = store.persist /\ recrawl = store.recrawl
    /\ round = 0 /\ requests = 0
    /\ inFlight = {} /\ queue = <<>> /\ at = "idle" /\ listening = FALSE
    /\ nextTick = 0 /\ countedFrom = 0 /\ nextEmote = {} /\ pacedFrom = 0
    /\ lastAction = "" /\ snapshot = Starting

LoopNext ==
    \/ Load \/ Die \/ Autosave \/ WorldMoves
    \/ RoundStarts \/ RoundPasses \/ FirstRoundGoesOn \/ FinishTick
    \/ SaveKey \/ QueueKey \/ AskAction
    \/ HandleSave \/ HandleChange \/ FinishAction \/ HandleRebuild
    \/ CommandRebuild \/ Command \/ FinishCommand

LoopSpec == LoopInit /\ [][LoopNext]_allVars

-----------------------------------------------------------------------------

LoopTypeOK ==
    /\ round \in Nat /\ requests \in Nat /\ store \in Stores /\ cfg \in Stores
    /\ inFlight \subseteq Keys /\ queue \in Seq(Keys \cup PageActions)
    /\ listening \in BOOLEAN /\ at \in {"idle", "round", "tick", "admin", "command"}
    /\ nextTick \in Nat /\ countedFrom \in Nat /\ nextEmote \subseteq Nat /\ pacedFrom \in Nat

\* The page shows the module as it is whenever the game loop is between events,
\* whoever changed it last and however that ended: every entry point publishes,
\* once its attribution is in place (publishSnapshot).  Before the first round
\* it may still say that the module starts, and a disabled module says so.
SnapshotCurrent ==
    LoopIdle =>
        IF listening THEN snapshot = View \/ (snapshot = Starting /\ ~started)
        ELSE snapshot = Disabled

SavePending(key) == key \in inFlight \/ \E i \in DOMAIN queue : queue[i] = key

\* Between events the next tick is always ahead, and a whole period of the
\* config in force away from the last tick, start or save of the period, unless
\* a save of it is yet to be handled (tick, startSim, configKeyMeta).
TicksKeepTheirPace ==
    LoopIdle /\ simReady =>
        /\ round < nextTick
        /\ SavePending("hours") \/ nextTick = countedFrom + Period(cfg.hours)

\* The next emote pass is within a quarter of the cadence in force, counted
\* from the last pass, start or save of the cadence, unless a save of it is yet
\* to be handled (scheduleEmote, configKeyMeta).
EmotesPaced ==
    LoopIdle /\ simReady =>
        \/ SavePending("every")
        \/ nextEmote = {pacedFrom + delta : delta \in Window(cfg.every)}
=============================================================================
