------------------------------ MODULE ConfigApply ------------------------------
(***************************************************************************)
(* How a config value saved on the admin page reaches the running module.  *)
(* Web goroutines write the engine's config store one key at a time, read  *)
(* the key back and queue a WeatherConfigChanged event (handleAdminConfig);*)
(* the game loop, alone, takes the events in order, re-reads the WHOLE     *)
(* config, adopts it and runs the live applier of the event's key only     *)
(* (onConfigChanged, applyConfigChange, configKeyMeta).  Nothing locks the *)
(* store between the steps of either side.                                 *)
(*                                                                         *)
(* Abstractions.  One key stands for each kind of live applier:            *)
(* MaxActiveFronts for those that rebuild simCfg whatever the old value,   *)
(* SeasonsEnabled, BuffsEnabled and PerRoomRefinement for those that act   *)
(* on a difference between the old and the new config, Persist for those   *)
(* without an applier.  Values are the canonical strings the read-back     *)
(* compares; a value Validate refuses changes nothing and is not written   *)
(* here.  The weather mutators on the zones are one flag, those on a room  *)
(* another; no weather is calm here, so asserting it always leaves them.   *)
(* Players move at any time, and the RoomChange events of their moves are  *)
(* handled late (RoomWeather has the queue): here of any room, at any time.*)
(***************************************************************************)
EXTENDS Integers, Sequences, FiniteSets

CONSTANTS
    Handlers,       \* web goroutines serving handleAdminConfig
    Keys,           \* the keys admins edit in this instance
    Unregistered,   \* keys whose writes the engine's store discards
    TracksUsable,   \* calendar and season tracks load (loadSeasons' ladder)
    Rooms,          \* the rooms of the zones of the graph
    MaxWrites,      \* bound: writes over the whole behaviour
    MaxPending      \* bound: saves on their way to the game loop at once

\* The keys in the order buildConfig reads them.
KeyOrder == <<"MaxActiveFronts", "BuffsEnabled", "Persist", "SeasonsEnabled",
              "PerRoomRefinement">>
AllKeys == {KeyOrder[n] : n \in DOMAIN KeyOrder}

RefineModes == {"off", "occupied", "all"}

Values(key) ==
    CASE key = "MaxActiveFronts" -> {"1", "2"}
      [] key = "PerRoomRefinement" -> RefineModes
      [] OTHER -> {"false", "true"}

AnyValue == {"1", "2", "false", "true"} \cup RefineModes

Configs == {c \in [AllKeys -> AnyValue] :
                \A key \in AllKeys : c[key] \in Values(key)}

Default(key) ==
    CASE key = "MaxActiveFronts" -> "1"
      [] key = "PerRoomRefinement" -> "occupied"
      [] OTHER -> "true"

ASSUME KeysAssumption == Keys \subseteq AllKeys /\ Unregistered \subseteq AllKeys
ASSUME TracksAssumption == TracksUsable \in BOOLEAN
ASSUME BoundsAssumption == MaxWrites \in Nat /\ MaxPending \in Nat
ASSUME HandlersAssumption == IsFiniteSet(Handlers)

VARIABLES
    store,      \* the engine's config layer, key -> value
    queue,      \* keys of the queued WeatherConfigChanged events, oldest first
    handler,    \* each web goroutine: its phase, key and value
    writes,     \* how many writes were attempted (bound)
    overlapped, \* history: some save began before the last one was handled
    reading,    \* the game loop in onConfigChanged: event key, keys read, values
    cfg,        \* m.cfg
    simReady,   \* m.simReady
    simCfg,     \* m.simCfg, reduced to its MaxActiveFronts
    seasonsOn,  \* m.seasonsOn
    stripped,   \* the buff lists of the mutator specs were stripped
    zonesCarry, \* zone mutator lists carry the weather
    coated,     \* the rooms whose own mutator lists carry it
    occupied    \* the rooms with players

web == <<store, queue, handler, writes, overlapped>>
applied == <<simCfg, seasonsOn, stripped, zonesCarry, coated>>
vars == <<web, reading, cfg, simReady, applied, occupied>>

LoopIdle == reading.event = ""

\* A goroutine whose request has been answered, or that has served none.
Free == [phase |-> "idle", key |-> "", value |-> ""]

\* A request between its write and its event.
Busy(h) == handler[h].phase # "idle"

\* Saves the game loop has not finished handling.
Pending == Cardinality({h \in Handlers : Busy(h)}) + Len(queue)
           + (IF LoopIdle THEN 0 ELSE 1)

-----------------------------------------------------------------------------
(* The web side: handleAdminConfig.                                        *)

\* persistConfigFn's Config.Set: an unregistered key is silently discarded.
HandlerSet(h) ==
    /\ ~Busy(h)
    /\ writes < MaxWrites /\ Pending < MaxPending
    /\ \E key \in Keys : \E value \in Values(key) :
        /\ handler' = [handler EXCEPT ![h] = [phase |-> "set", key |-> key, value |-> value]]
        /\ store' = IF key \in Unregistered THEN store ELSE [store EXCEPT ![key] = value]
    /\ writes' = writes + 1
    /\ overlapped' = (overlapped \/ Pending > 0)
    /\ UNCHANGED <<queue, reading, cfg, simReady, applied, occupied>>

\* Mutated form: a value that is not the running config's is reported as
\* rejected.
HandlerReadBackStale(h) ==
    /\ handler[h].phase = "set"
    /\ handler' = [handler EXCEPT ![h] =
            IF cfg[@.key] = @.value THEN [@ EXCEPT !.phase = "accepted"] ELSE Free]
    /\ UNCHANGED <<store, queue, writes, overlapped, reading, cfg, simReady, applied, occupied>>

\* Config.Get and the read-back guard: a value that does not read back is
\* reported as rejected, and no event is queued.
HandlerReadBack(h) ==
    /\ handler[h].phase = "set"
    /\ handler' = [handler EXCEPT ![h] =
            IF store[@.key] = @.value THEN [@ EXCEPT !.phase = "accepted"] ELSE Free]
    /\ UNCHANGED <<store, queue, writes, overlapped, reading, cfg, simReady, applied, occupied>>

\* events.AddToQueue and the OK answer.
HandlerQueue(h) ==
    /\ handler[h].phase = "accepted"
    /\ queue' = Append(queue, handler[h].key)
    /\ handler' = [handler EXCEPT ![h] = Free]
    /\ UNCHANGED <<store, writes, overlapped, reading, cfg, simReady, applied, occupied>>

-----------------------------------------------------------------------------
(* The game loop.                                                          *)

\* loadSeasons, reduced to the switch it leaves.
SeasonsLoaded(c) == c["SeasonsEnabled"] = "true" /\ TracksUsable

\* applyWeather: with refinement off the zones carry the weather; a room mode
\* strips them and has the rooms carry it, those with players or all of them.
ApplyWeather(c) ==
    LET mode == c["PerRoomRefinement"]
    IN  /\ zonesCarry' = (mode = "off")
        /\ coated' = CASE mode = "off" -> coated
                       [] mode = "occupied" -> coated \cup occupied
                       [] mode = "all" -> Rooms

\* startSim at the first round with a graph: everything is applied from m.cfg.
StartSim ==
    /\ LoopIdle /\ ~simReady
    /\ simReady' = TRUE
    /\ simCfg' = cfg["MaxActiveFronts"]
    /\ seasonsOn' = SeasonsLoaded(cfg)
    /\ stripped' = (stripped \/ cfg["BuffsEnabled"] = "false")
    /\ ApplyWeather(cfg)
    /\ UNCHANGED <<web, reading, cfg, occupied>>

\* An event is taken and loadConfig begins.
TakeEvent ==
    /\ LoopIdle /\ queue # <<>>
    /\ reading' = [event |-> Head(queue), count |-> 0, got |-> cfg]
    /\ queue' = Tail(queue)
    /\ UNCHANGED <<store, handler, writes, overlapped, cfg, simReady, applied, occupied>>

\* loadConfig reads the next key; the store may change between two reads.
ReadKey ==
    /\ ~LoopIdle /\ reading.count < Len(KeyOrder)
    /\ LET key == KeyOrder[reading.count + 1]
       IN  reading' = [event |-> reading.event, count |-> reading.count + 1,
                       got |-> [reading.got EXCEPT ![key] = store[key]]]
    /\ UNCHANGED <<web, cfg, simReady, applied, occupied>>

-----------------------------------------------------------------------------
(* The live appliers of configKeyMeta, by the event's key: old is the      *)
(* config the game loop had, new the one it has just adopted.              *)

\* Mutated form: the applier takes the old config's knobs.
SimCfgAppliedOld(key, old, new) ==
    simCfg' = IF key = "MaxActiveFronts" THEN old[key] ELSE simCfg

SimCfgApplied(key, old, new) ==
    simCfg' = IF key = "MaxActiveFronts" THEN new[key] ELSE simCfg

BuffsApplied(key, old, new) ==
    stripped' = (stripped \/ /\ key = "BuffsEnabled"
                             /\ old[key] = "true" /\ new[key] = "false")

\* Mutated form: switching seasons back on waits for the next boot.
SeasonsAppliedOffOnly(key, old, new) ==
    seasonsOn' = IF key = "SeasonsEnabled" /\ new[key] = "false"
                 THEN FALSE ELSE seasonsOn

SeasonsApplied(key, old, new) ==
    seasonsOn' = IF key = "SeasonsEnabled" /\ old[key] # new[key]
                 THEN SeasonsLoaded(new) ELSE seasonsOn

\* Mutated form: leaving a room mode only asserts the zone weather.
RefinementAppliedUnstripped(key, old, new) ==
    IF key # "PerRoomRefinement" \/ old[key] = new[key]
    THEN UNCHANGED <<zonesCarry, coated>>
    ELSE ApplyWeather(new)

\* Leaving a room mode strips the rooms with players before the zones carry
\* again; what the others wear is left to the decay.
RefinementApplied(key, old, new) ==
    IF key # "PerRoomRefinement" \/ old[key] = new[key]
    THEN UNCHANGED <<zonesCarry, coated>>
    ELSE IF new[key] = "off" THEN zonesCarry' = TRUE /\ coated' = coated \ occupied
    ELSE ApplyWeather(new)

LiveApply(key, old, new) ==
    /\ SimCfgApplied(key, old, new)
    /\ BuffsApplied(key, old, new)
    /\ SeasonsApplied(key, old, new)
    /\ RefinementApplied(key, old, new)

\* Mutated form: a save before the simulation runs is dropped.
ApplyConfigChangeWhenReady ==
    /\ ~LoopIdle /\ reading.count = Len(KeyOrder)
    /\ IF simReady
       THEN cfg' = reading.got /\ LiveApply(reading.event, cfg, reading.got)
       ELSE UNCHANGED <<cfg, applied>>
    /\ reading' = [event |-> "", count |-> 0, got |-> cfg']
    /\ UNCHANGED <<web, simReady, occupied>>

\* applyConfigChange once the config is read: adopt it, then apply the key.
ApplyConfigChange ==
    /\ ~LoopIdle /\ reading.count = Len(KeyOrder)
    /\ cfg' = reading.got
    /\ IF simReady THEN LiveApply(reading.event, cfg, reading.got) ELSE UNCHANGED applied
    /\ reading' = [event |-> "", count |-> 0, got |-> cfg']
    /\ UNCHANGED <<web, simReady, occupied>>

\* A weather tick: the weather is asserted again under the adopted config.
Tick ==
    /\ LoopIdle /\ simReady
    /\ ApplyWeather(cfg)
    /\ UNCHANGED <<web, reading, cfg, simReady, simCfg, seasonsOn, stripped, occupied>>

\* External: players enter a room, or leave it empty.
Walk ==
    /\ LoopIdle
    /\ \E r \in Rooms : occupied' \in {occupied \cup {r}, occupied \ {r}}
    /\ UNCHANGED <<web, reading, cfg, simReady, applied>>

\* onRoomChange, for a move within these rooms, into them or out of them: the
\* room entered is coated, the one left and empty is stripped.
OnRoomChange ==
    /\ LoopIdle /\ simReady /\ cfg["PerRoomRefinement"] = "occupied"
    /\ LET RoomOrNone == {{}} \cup {{r} : r \in Rooms}
       IN  \E to \in RoomOrNone, from \in RoomOrNone :
            coated' = (coated \cup to) \ ((from \ to) \ occupied)
    /\ UNCHANGED <<web, reading, cfg, simReady, simCfg, seasonsOn, stripped, zonesCarry, occupied>>

\* External: the mutators' decayrate retires what is no longer asserted.
Decay ==
    /\ LoopIdle
    /\ \/ zonesCarry' = FALSE /\ UNCHANGED coated
       \/ \E r \in Rooms : coated' = coated \ {r} /\ UNCHANGED zonesCarry
    /\ UNCHANGED <<web, reading, cfg, simReady, simCfg, seasonsOn, stripped, occupied>>

-----------------------------------------------------------------------------

Init ==
    /\ store \in Configs
    /\ \A key \in AllKeys \ Keys : store[key] = Default(key)
    /\ queue = <<>>
    /\ handler = [h \in Handlers |-> Free]
    /\ writes = 0 /\ overlapped = FALSE
    /\ cfg = store
    /\ reading = [event |-> "", count |-> 0, got |-> cfg]
    /\ simReady = FALSE
    /\ simCfg = ""
    /\ seasonsOn = FALSE
    /\ stripped = FALSE
    /\ zonesCarry = FALSE
    /\ coated \in SUBSET Rooms
    /\ occupied = {}

Handle(h) == HandlerReadBack(h) \/ HandlerQueue(h)
Loop == StartSim \/ TakeEvent \/ ReadKey \/ ApplyConfigChange

Next ==
    \/ \E h \in Handlers : HandlerSet(h) \/ Handle(h)
    \/ Loop \/ Tick \/ Decay
    \/ Walk \/ OnRoomChange

Spec == Init /\ [][Next]_vars

\* Every request runs to its answer and the game loop keeps handling events; a
\* save, a tick, a decay or a move need never come.
FairSpec == Spec /\ WF_vars(Loop) /\ \A h \in Handlers : WF_vars(Handle(h))

-----------------------------------------------------------------------------
(* What the saves promise.                                                 *)

TypeOK ==
    /\ store \in Configs /\ cfg \in Configs
    /\ queue \in Seq(Keys)
    /\ handler \in [Handlers -> [phase : {"idle", "set", "accepted"},
                                 key : Keys \cup {""}, value : AnyValue \cup {""}]]
    /\ \A h \in Handlers : Busy(h) =>
            handler[h].key \in Keys /\ handler[h].value \in Values(handler[h].key)
    /\ writes \in 0..MaxWrites /\ overlapped \in BOOLEAN
    /\ reading \in [event : Keys \cup {""}, count : 0..Len(KeyOrder), got : Configs]
    /\ LoopIdle => reading.count = 0
    /\ simReady \in BOOLEAN /\ seasonsOn \in BOOLEAN /\ stripped \in BOOLEAN
    /\ zonesCarry \in BOOLEAN /\ coated \in SUBSET Rooms /\ occupied \in SUBSET Rooms
    /\ simCfg \in IF simReady THEN Values("MaxActiveFronts") ELSE {""}

Quiet == queue = <<>> /\ LoopIdle /\ \A h \in Handlers : ~Busy(h)

(* No write is lost on its way to m.cfg, whatever the order of writes, reads  *)
(* and answers: once the last event is handled the game loop runs exactly     *)
(* what the store holds, although it reads the store key by key while others  *)
(* write it, and although a request whose read-back lost a race queues        *)
(* nothing (onConfigChanged re-reads the whole config).                       *)
AdoptedWhenQuiet == Quiet => cfg = store

(* The knobs the simulation runs under follow too: an applier that rebuilds   *)
(* simCfg whatever the old value cannot miss a change (MaxActiveFronts).      *)
KnobsFollowConfig == simReady /\ Quiet => simCfg = cfg["MaxActiveFronts"]

(* The promise of the "live" badge on SeasonsEnabled: once its save is        *)
(* handled, seasons run exactly when the config says so.                      *)
SeasonsFollowConfig == simReady /\ Quiet => seasonsOn = SeasonsLoaded(cfg)

(* The badges "live" and "live to disable" hold for saves made one after the  *)
(* other, each handled before the next: what runs is then what the config     *)
(* says, by the differences between old and new alone (configKeyMeta).        *)
SerialSavesApply ==
    ~overlapped => /\ SeasonsFollowConfig
                   /\ simReady /\ Quiet /\ cfg["BuffsEnabled"] = "false" => stripped

(* Nor does such a save leave both layers asserted: the zones carry weather   *)
(* only while refinement is off, no room is coated then, and the save that    *)
(* leaves a room mode bares every room with players before the zones carry    *)
(* again (applyWeather, the PerRoomRefinement applier).  Rooms without players*)
(* keep what mode "all", or players since gone, left there until it decays.   *)
OneLayerAsserted ==
    [][~overlapped' /\ zonesCarry' =>
        /\ cfg'["PerRoomRefinement"] = "off"
        /\ coated' \subseteq coated
        /\ cfg["PerRoomRefinement"] # "off" => coated' \cap occupied' = {}]_vars

(* However saves race, the game loop comes to rest again with every one of    *)
(* them adopted: admins stop saving now and then (here, after MaxWrites), every*)
(* request reaches its answer and every queued event its handler.             *)
SavesAreAdopted == []<>(Quiet /\ cfg = store)
=============================================================================
