---------------------------- MODULE GameLoopProofs ----------------------------
(***************************************************************************)
(* Proofs about Restarts and about GameLoop, which extends it.             *)
(*                                                                         *)
(* Of Restarts, for any number of changes and editions of the world.       *)
(* Beside the types, the inductive invariant relates memory to storage: a  *)
(* process that is down holds nothing; a graph, a simulation and a state   *)
(* come together; the cache holds the graph in memory unless its last      *)
(* write failed; and storage restores the state in memory unless a change  *)
(* is in progress or its last write was not made.                          *)
(*                                                                         *)
(* Of GameLoop, for any periods, cadences, configs and numbers of rounds   *)
(* and requests.  Every step of the game loop is a step of Restarts, so    *)
(* that what is shown of the lifecycle holds of the whole module; and a    *)
(* second inductive invariant gives the snapshot and the clocks.           *)
(***************************************************************************)
EXTENDS GameLoop, TLAPS

-----------------------------------------------------------------------------
(* The lifecycle.                                                          *)

DownHoldsNothing == ~up => ~simReady /\ graph = None /\ ~unsaved

ReadyTogether ==
    /\ simReady <=> graph # None
    /\ simReady <=> state # None
    /\ unsaved => simReady

NothingAhead == graph <= world /\ cache <= world /\ state <= changes /\ saved <= changes

CacheIsGraph == graph # None /\ ~stale => cache = graph

SavedIsState ==
    simReady /\ ~unsaved /\ ~exposed =>
        IF saved # None THEN saved = state ELSE state = Fresh

IInv ==
    /\ TypeOK /\ DownHoldsNothing /\ ReadyTogether
    /\ NothingAhead /\ CacheIsGraph /\ SavedIsState

\* The server starts down, with a cache and a state that are empty or fresh.
LEMMA InitInvariant == Init => IInv
<1> SUFFICES ASSUME Init PROVE IInv
  OBVIOUS
<1> USE DEF Init, None, Fresh
<1>1. TypeOK
  <2>1. cache \in Editions /\ saved \in Editions /\ graph \in Editions /\ state \in Editions
    BY DEF Editions
  <2>2. ~simReady
    OBVIOUS
  <2> QED  BY <2>1, <2>2 DEF TypeOK
<1>2. DownHoldsNothing /\ ReadyTogether
  BY DEF DownHoldsNothing, ReadyTogether
<1>3. NothingAhead
  BY DEF NothingAhead
<1>4. CacheIsGraph /\ SavedIsState
  BY DEF CacheIsGraph, SavedIsState
<1> QED  BY <1>1, <1>2, <1>3, <1>4 DEF IInv

\* A crawl keeps the invariant whether it is the first round's or an admin's.
LEMMA CrawlKeeps ==
    ASSUME IInv, up, ~unsaved, Crawl, started' \in BOOLEAN,
           UNCHANGED <<world, flags, up, unsaved, changes, saved>>
    PROVE  IInv'
<1> USE DEF IInv, TypeOK, Editions, DownHoldsNothing, ReadyTogether, NothingAhead,
            CacheIsGraph, SavedIsState, None, Fresh, StartSim, InitialState, flags
<1>1. CASE UNCHANGED <<graph, cache, stale, simReady, state, exposed>>
  BY <1>1
<1>2. CASE /\ graph' = world
           /\ \/ cache' = world /\ stale' = FALSE
              \/ cache' \in {cache, None} /\ stale' = TRUE
           /\ StartSim(graph')
  <2>1. CASE simReady
    <3>1. TypeOK'
      BY <1>2, <2>1
    <3>2. DownHoldsNothing' /\ ReadyTogether'
      BY <1>2, <2>1
    <3>3. NothingAhead'
      BY <1>2, <2>1
    <3>4. CacheIsGraph'
      BY <1>2, <2>1
    <3>5. SavedIsState'
      BY <1>2, <2>1
    <3> QED  BY <3>1, <3>2, <3>3, <3>4, <3>5
  <2>2. CASE ~simReady
    <3>1. TypeOK'
      <4>1. cache' \in Editions /\ graph' \in Editions /\ graph' # None
        BY <1>2
      <4>2. state' \in Editions /\ state' # None /\ exposed' \in BOOLEAN /\ simReady'
        BY <1>2, <2>2, <4>1
      <4> QED  BY <1>2, <4>1, <4>2
    <3>2. DownHoldsNothing' /\ ReadyTogether'
      BY <1>2, <2>2
    <3>3. NothingAhead'
      BY <1>2, <2>2
    <3>4. CacheIsGraph'
      BY <1>2, <2>2
    <3>5. SavedIsState'
      BY <1>2, <2>2
    <3> QED  BY <3>1, <3>2, <3>3, <3>4, <3>5
  <2> QED  BY <2>1, <2>2
<1> QED  BY <1>1, <1>2 DEF Crawl

\* Every step keeps the invariant.
LEMMA StepInvariant == IInv /\ [Next]_vars => IInv'
<1> SUFFICES ASSUME IInv, [Next]_vars PROVE IInv'
  OBVIOUS
<1> USE DEF IInv, TypeOK, Editions, DownHoldsNothing, ReadyTogether, NothingAhead,
            CacheIsGraph, SavedIsState, None, Fresh, memory, disk, flags
<1>1. CASE Boot
  BY <1>1 DEF Boot
<1>2. CASE FirstRound
  <2>1. CASE ~recrawl /\ cache # None
    <3>1. CASE simReady
      BY <1>2, <2>1, <3>1 DEF FirstRound, Idle, StartSim, InitialState
    <3>2. CASE ~simReady
      <4> USE <1>2, <2>1, <3>2 DEF FirstRound, Idle, StartSim, InitialState
      <4>1. TypeOK'
        OBVIOUS
      <4>2. DownHoldsNothing' /\ ReadyTogether'
        OBVIOUS
      <4>3. NothingAhead'
        OBVIOUS
      <4>4. CacheIsGraph'
        OBVIOUS
      <4>5. SavedIsState'
        OBVIOUS
      <4> QED  BY <4>1, <4>2, <4>3, <4>4, <4>5
    <3> QED  BY <3>1, <3>2
  <2>2. CASE ~(~recrawl /\ cache # None)
    BY <1>2, <2>2, CrawlKeeps DEF FirstRound, Idle
  <2> QED  BY <2>1, <2>2
<1>3. CASE Rebuild
  BY <1>3, CrawlKeeps DEF Rebuild, Idle
<1>4. CASE Change
  BY <1>4 DEF Change, Idle
<1>5. CASE FinishChange
  <2>1. CASE persist /\ saved' = state /\ exposed' = FALSE
    BY <1>5, <2>1 DEF FinishChange
  <2>2. CASE saved' \in {saved, None} /\ exposed' = TRUE
    <3>1. TypeOK'
      BY <1>5, <2>2 DEF FinishChange
    <3>2. NothingAhead'
      BY <1>5, <2>2 DEF FinishChange
    <3>3. DownHoldsNothing' /\ ReadyTogether' /\ CacheIsGraph' /\ SavedIsState'
      BY <1>5, <2>2 DEF FinishChange
    <3> QED  BY <3>1, <3>2, <3>3
  <2> QED  BY <1>5, <2>1, <2>2 DEF FinishChange, PersistState
<1>6. CASE OnSave
  <2>1. CASE persist /\ saved' = state /\ exposed' = FALSE
    BY <1>6, <2>1 DEF OnSave, Idle
  <2>2. CASE saved' \in {saved, None} /\ exposed' = TRUE
    <3>1. TypeOK'
      BY <1>6, <2>2 DEF OnSave, Idle
    <3>2. NothingAhead'
      BY <1>6, <2>2 DEF OnSave, Idle
    <3>3. DownHoldsNothing' /\ ReadyTogether' /\ CacheIsGraph' /\ SavedIsState'
      BY <1>6, <2>2 DEF OnSave, Idle
    <3> QED  BY <3>1, <3>2, <3>3
  <2> QED  BY <1>6, <2>1, <2>2 DEF OnSave, PersistState
<1>7. CASE SetFlags
  BY <1>7 DEF SetFlags, Idle
<1>8. CASE Crash
  <2>1. TypeOK'
    BY <1>8 DEF Crash
  <2>2. DownHoldsNothing' /\ ReadyTogether'
    BY <1>8 DEF Crash
  <2>3. NothingAhead'
    BY <1>8 DEF Crash
  <2>4. CacheIsGraph' /\ SavedIsState'
    BY <1>8 DEF Crash
  <2> QED  BY <2>1, <2>2, <2>3, <2>4
<1>9. CASE WorldChanges
  BY <1>9 DEF WorldChanges
<1>10. CASE UNCHANGED vars
  BY <1>10 DEF vars
<1> QED
  BY <1>1, <1>2, <1>3, <1>4, <1>5, <1>6, <1>7, <1>8, <1>9, <1>10 DEF Next

\* The invariant holds throughout.
THEOREM RestartInvariant == Spec => []IInv
  BY InitInvariant, StepInvariant, PTL DEF Spec

-----------------------------------------------------------------------------

\* Memory and storage are well formed, whatever crashes and failed writes do;
\* the simulation never runs without a state (loadOrInitState).
THEOREM TypeCorrect == Spec => []TypeOK
  BY RestartInvariant, PTL DEF IInv

\* Past the first round the simulation runs exactly when there is a graph
\* (startSim, rebuildGraph).
THEOREM Ready == Spec => []ReadyWhenMapped
<1>1. IInv => ReadyWhenMapped
  BY DEF IInv, ReadyTogether, ReadyWhenMapped
<1> QED  BY <1>1, RestartInvariant, PTL

\* A restart resumes the state in memory, but for a change in progress, a
\* failed write or persistence off (persistState, loadOrInitState).
THEOREM Resumes == Spec => []ResumesWhereItWas
<1>1. IInv => ResumesWhereItWas
  BY DEF IInv, SavedIsState, ResumesWhereItWas, InitialState
<1> QED  BY <1>1, RestartInvariant, PTL

\* A graph gives way to a newer crawl only (loadOrBuildGraph, rebuildGraph).
THEOREM GraphsGoForward == Spec => GraphNeverAges
<1>1. IInv /\ [Next]_vars => [up /\ up' /\ graph # None /\ ~stale => graph' >= graph]_vars
  <2> SUFFICES ASSUME IInv, Next, up, up', graph # None, ~stale PROVE graph' >= graph
    BY DEF vars
  <2> USE DEF IInv, TypeOK, Editions, NothingAhead, CacheIsGraph, None
  <2>1. graph \in Int /\ graph <= world
    OBVIOUS
  <2>2. graph' \in {graph, cache, world} /\ (graph' = cache => cache = graph)
    BY DEF Next, Boot, FirstRound, Rebuild, Change, FinishChange, OnSave, SetFlags, Crash,
           WorldChanges, Crawl, Idle, memory
  <2> QED  BY <2>1, <2>2
<1> QED  BY <1>1, RestartInvariant, PTL DEF Spec, GraphNeverAges

-----------------------------------------------------------------------------

\* The module starts with nothing in memory.
LEMMA JournalStarts == Init => Journal!JInit
  BY DEF Init, Journal!JInit, Journal!Down, Journal!Blank, None, Fresh

\* Every step of the module is a step of the journal or none.
LEMMA JournalSteps == IInv /\ [Next]_vars => [Journal!JNext]_(Journal!jvars)
<1> SUFFICES ASSUME IInv, [Next]_vars
             PROVE  Journal!JNext \/ UNCHANGED <<state, saved>>
  BY DEF Journal!jvars
<1> USE DEF Journal!JNext, Journal!Work, Journal!Write, Journal!Lose, Journal!Resume,
            Journal!Down, Journal!Blank, IInv, None, Fresh, memory, disk
<1>1. ASSUME NEW g, StartSim(g), saved' = saved
      PROVE  Journal!JNext \/ UNCHANGED <<state, saved>>
  BY <1>1 DEF StartSim, InitialState, ReadyTogether
<1>2. CASE Boot
  BY <1>2 DEF Boot, DownHoldsNothing, ReadyTogether
<1>3. CASE FirstRound
  BY <1>1, <1>3 DEF FirstRound, Crawl
<1>4. CASE Rebuild
  BY <1>1, <1>4 DEF Rebuild, Crawl
<1>5. CASE Change
  BY <1>5 DEF Change, NothingAhead, TypeOK, Editions, ReadyTogether
<1>6. CASE FinishChange
  BY <1>6 DEF FinishChange, PersistState, TypeOK, DownHoldsNothing, ReadyTogether
<1>7. CASE OnSave
  BY <1>7 DEF OnSave, PersistState, TypeOK
<1>8. CASE SetFlags \/ WorldChanges
  BY <1>8 DEF SetFlags, WorldChanges
<1>9. CASE Crash
  BY <1>9 DEF Crash
<1>10. CASE UNCHANGED vars
  BY <1>10 DEF vars
<1> QED
  BY <1>2, <1>3, <1>4, <1>5, <1>6, <1>7, <1>8, <1>9, <1>10 DEF Next

\* Seen from plugin storage the module is a journal of one entry: a restart
\* resumes what was written last, or afresh, and nothing else.
THEOREM ImplementsJournal == Spec => JournalSpec
  BY JournalStarts, JournalSteps, RestartInvariant, PTL DEF Spec, JournalSpec, Journal!JSpec

-----------------------------------------------------------------------------
(* The game loop implements the lifecycle.                                 *)

LEMMA InitIsInit == LoopInit => Init
BY DEF LoopInit

LEMMA StepIsStep == [LoopNext]_allVars => [Next]_vars
<1> SUFFICES ASSUME [LoopNext]_allVars PROVE [Next]_vars
  OBVIOUS
<1>1. CASE Load
  BY <1>1 DEF Load, Next
<1>2. CASE Die
  BY <1>2 DEF Die, Next
<1>3. CASE Autosave \/ WorldMoves
  BY <1>3 DEF Autosave, WorldMoves, Next
<1>4. CASE RoundStarts
  BY <1>4 DEF RoundStarts, Next
<1>5. CASE RoundPasses \/ FirstRoundGoesOn
  <2>1. RoundGoes => [Next]_vars
    BY DEF RoundGoes, Next
  <2> QED  BY <1>5, <2>1 DEF RoundPasses, FirstRoundGoesOn
<1>6. CASE FinishTick \/ FinishAction \/ FinishCommand
  BY <1>6 DEF FinishTick, FinishAction, FinishCommand, Next
<1>7. CASE SaveKey \/ QueueKey \/ AskAction
  BY <1>7 DEF SaveKey, QueueKey, AskAction
<1>8. CASE HandleSave
  BY <1>8 DEF HandleSave, Next
<1>9. CASE HandleChange \/ Command
  BY <1>9 DEF HandleChange, Command, Next
<1>10. CASE HandleRebuild \/ CommandRebuild
  BY <1>10 DEF HandleRebuild, CommandRebuild, Next
<1>11. CASE UNCHANGED allVars
  BY <1>11 DEF allVars
<1> QED  BY <1>1, <1>2, <1>3, <1>4, <1>5, <1>6, <1>7, <1>8, <1>9, <1>10, <1>11 DEF LoopNext

\* The game loop, whoever calls it and in whatever order, behaves as the
\* lifecycle says: every handler is one of its steps (onLoad, onNewRound, tick,
\* onAdminAction, onConfigChanged, cmdWeather, exportSpawnFront, onSave).
THEOREM LoopImplementsRestarts == LoopSpec => Spec
BY InitIsInit, StepIsStep, PTL DEF LoopSpec, Spec

\* So a restart of the whole module resumes the state in memory, but for a
\* change in progress, a failed write, or persistence off (persistState).
THEOREM LoopResumes == LoopSpec => []ResumesWhereItWas
BY LoopImplementsRestarts, Resumes, PTL

\* Past the first round the module runs a simulation exactly when it has a
\* graph, whatever saves, page actions and commands come in between (startSim,
\* rebuildGraph).
THEOREM LoopReady == LoopSpec => []ReadyWhenMapped
BY LoopImplementsRestarts, Ready, PTL

\* And within one process its graph gives way to a newer crawl only.
THEOREM LoopGraphsGoForward == LoopSpec => GraphNeverAges
BY LoopImplementsRestarts, GraphsGoForward, PTL

\* And the whole module, seen from plugin storage, is a journal of one entry.
THEOREM LoopImplementsJournal == LoopSpec => JournalSpec
BY LoopImplementsRestarts, ImplementsJournal, PTL

-----------------------------------------------------------------------------
(* The inductive invariant.                                                *)

\* A process that is down has no handler running and nothing queued.
Gone == ~up => at = "idle" /\ inFlight = {} /\ queue = <<>>

\* A module that its config disabled at boot hears nothing and starts nothing.
Deaf ==
    up /\ ~listening =>
        at = "idle" /\ queue = <<>> /\ ~cfg.enabled /\ ~simReady /\ snapshot = Disabled

\* The snapshot is the view between handlers, and between the two steps of the
\* first round.
Shown ==
    up /\ listening /\ at \in {"idle", "round"} =>
        snapshot = View \/ (snapshot = Starting /\ ~started)

Rounding == at = "round" => started /\ simReady

\* A key whose value in the store is not the adopted one has a save pending.
Followed(key, stored, adopted) ==
    up /\ listening => SavePending(key) \/ stored = adopted

TickAhead == at \in {"idle", "admin", "command"} /\ simReady => round < nextTick

TickCounted ==
    simReady => SavePending("hours") \/ nextTick = countedFrom + Period(cfg.hours)

EmoteCounted ==
    simReady => SavePending("every")
                \/ nextEmote = {pacedFrom + delta : delta \in Window(cfg.every)}

LoopInv ==
    /\ LoopTypeOK /\ Gone /\ Deaf /\ Shown
    /\ Rounding
    /\ Followed("hours", store["hours"], cfg["hours"])
    /\ Followed("every", store["every"], cfg["every"])
    /\ TickAhead /\ TickCounted /\ EmoteCounted

LEMMA WindowType == \A every \in Nat : Window(every) \subseteq Nat
BY DEF Window, AtLeastOne

LEMMA PeriodType == \A hours \in Nat : Period(hours) \in Nat \ {0}
<1> SUFFICES ASSUME NEW hours \in Nat PROVE Period(hours) \in Nat \ {0}
  OBVIOUS
<1>1. AtLeastOne(hours) \in Nat \ {0}
  BY DEF AtLeastOne
<1>2. RoundsPerHour \in Nat \ {0}
  BY GameLoopAssumption
<1>3. \A a, b \in Nat \ {0} : a * b \in Nat \ {0}
  OBVIOUS
<1> QED  BY <1>1, <1>2, <1>3 DEF Period

\* Taking an event leaves the others pending.
LEMMA TakingKeepsOthers ==
    ASSUME LoopTypeOK, TakeEvent, NEW key, key # Head(queue)
    PROVE  SavePending(key) <=> SavePending(key)'
<1>1. queue \in Seq(Keys \cup PageActions) /\ queue # <<>> /\ queue' = Tail(queue)
      /\ inFlight' = inFlight
  BY DEF LoopTypeOK, TakeEvent
<1>2. Len(queue) \in Nat /\ Len(queue) > 0 /\ queue[1] = Head(queue)
  BY <1>1
<1>3. Len(queue') = Len(queue) - 1 /\ \A i \in 1..Len(queue') : queue'[i] = queue[i + 1]
  BY <1>1, <1>2
<1>4. DOMAIN queue = 1..Len(queue) /\ DOMAIN queue' = 1..Len(queue')
  BY <1>1
<1>5. ASSUME SavePending(key) PROVE SavePending(key)'
  <2>1. CASE key \in inFlight
    BY <1>1, <2>1 DEF SavePending
  <2>2. CASE \E i \in DOMAIN queue : queue[i] = key
    <3>1. PICK i \in 1..Len(queue) : queue[i] = key
      BY <2>2, <1>4
    <3>2. i # 1
      BY <3>1, <1>2
    <3>3. i - 1 \in 1..Len(queue') /\ queue'[i - 1] = key
      BY <3>1, <3>2, <1>2, <1>3
    <3> QED  BY <3>3, <1>4 DEF SavePending
  <2> QED  BY <1>5, <2>1, <2>2 DEF SavePending
<1>6. ASSUME SavePending(key)' PROVE SavePending(key)
  <2>1. CASE key \in inFlight'
    BY <1>1, <2>1 DEF SavePending
  <2>2. CASE \E i \in DOMAIN queue' : queue'[i] = key
    <3>1. PICK i \in 1..Len(queue') : queue'[i] = key
      BY <2>2, <1>4
    <3>2. i + 1 \in 1..Len(queue) /\ queue[i + 1] = key
      BY <3>1, <1>2, <1>3
    <3> QED  BY <3>2, <1>4 DEF SavePending
  <2> QED  BY <1>6, <2>1, <2>2 DEF SavePending
<1> QED  BY <1>5, <1>6

\* Queueing an event forgets none.
LEMMA QueueingKeeps ==
    ASSUME LoopTypeOK, NEW event, queue' = Append(queue, event), NEW key,
           SavePending(key), inFlight' = inFlight \ {event} \/ inFlight' = inFlight
    PROVE  SavePending(key)'
<1>1. queue \in Seq(Keys \cup PageActions)
  BY DEF LoopTypeOK
<1>2. Len(queue) \in Nat /\ DOMAIN queue = 1..Len(queue)
  BY <1>1
<1>3. Len(queue') = Len(queue) + 1 /\ DOMAIN queue' = 1..(Len(queue) + 1)
      /\ queue'[Len(queue) + 1] = event
      /\ \A i \in 1..Len(queue) : queue'[i] = queue[i]
  BY <1>1, <1>2
<1>4. CASE key = event
  BY <1>2, <1>3, <1>4 DEF SavePending
<1>5. CASE key # event
  BY <1>2, <1>3, <1>5 DEF SavePending
<1> QED  BY <1>4, <1>5

LEMMA ScheduleTickType ==
    ASSUME NEW hours \in Nat, round' \in Nat, ScheduleTick(hours)
    PROVE  /\ nextTick' \in Nat /\ countedFrom' \in Nat /\ round' < nextTick'
           /\ nextTick' = countedFrom' + Period(hours)
<1>1. Period(hours) \in Nat \ {0}
  BY PeriodType
<1> QED  BY <1>1 DEF ScheduleTick

LEMMA ScheduleEmoteType ==
    ASSUME NEW every \in Nat, round' \in Nat, ScheduleEmote(every)
    PROVE  /\ nextEmote' \subseteq Nat /\ pacedFrom' \in Nat
           /\ nextEmote' = {pacedFrom' + delta : delta \in Window(every)}
<1>1. Window(every) \subseteq Nat
  BY WindowType
<1> QED  BY <1>1 DEF ScheduleEmote

\* The config's numbers, in the store and adopted.
LEMMA ConfigNumbers ==
    ASSUME LoopTypeOK
    PROVE  cfg.hours \in Nat /\ cfg.every \in Nat /\ store.hours \in Nat /\ store.every \in Nat
BY GameLoopAssumption DEF LoopTypeOK, Stores

\* Starting the clocks, in a handler that keeps the config.
LEMMA ClocksType ==
    ASSUME LoopTypeOK, round' \in Nat, Clocks(cfg)
    PROVE  /\ nextTick' \in Nat /\ countedFrom' \in Nat
           /\ nextEmote' \subseteq Nat /\ pacedFrom' \in Nat
           /\ \/ /\ simReady' /\ ~simReady /\ round' < nextTick'
                 /\ nextTick' = countedFrom' + Period(cfg.hours)
                 /\ nextEmote' = {pacedFrom' + delta : delta \in Window(cfg.every)}
              \/ ~(simReady' /\ ~simReady) /\ UNCHANGED <<tickClock, emoteClock>>
<1>1. CASE simReady' /\ ~simReady
  <2>1. ScheduleTick(cfg.hours) /\ ScheduleEmote(cfg.every)
    BY <1>1 DEF Clocks
  <2> QED  BY <1>1, <2>1, ConfigNumbers, ScheduleTickType, ScheduleEmoteType
<1>2. CASE ~(simReady' /\ ~simReady)
  <2>1. UNCHANGED <<tickClock, emoteClock>>
    BY <1>2 DEF Clocks
  <2> QED  BY <1>2, <2>1 DEF LoopTypeOK, tickClock, emoteClock
<1> QED  BY <1>1, <1>2

\* A handler that only reads the round keeps it; a new round is the next one.
LEMMA SaveTypes ==
    ASSUME LoopTypeOK, SaveKey
    PROVE  store' \in Stores /\ inFlight' \subseteq Keys /\ requests' \in Nat
<1>1. PICK key \in SavedKeys \ inFlight : \E value \in Values(key) :
        store' = [store EXCEPT ![key] = value] /\ inFlight' = inFlight \cup {key}
  BY DEF SaveKey
<1>2. PICK value \in Values(key) : store' = [store EXCEPT ![key] = value]
  BY <1>1
<1>3. key \in Keys
  BY GameLoopAssumption
<1>4. store \in Stores
  BY DEF LoopTypeOK
<1>5. store' \in Stores
  <2>1. CASE key = "hours"
    <3>1. value \in Hours /\ store' = [store EXCEPT !.hours = value]
      BY <1>2, <2>1 DEF Values
    <3> QED  BY <1>4, <3>1 DEF Stores
  <2>2. CASE key = "every"
    <3>1. value \in Cadences /\ store' = [store EXCEPT !.every = value]
      BY <1>2, <2>2 DEF Values
    <3> QED  BY <1>4, <3>1 DEF Stores
  <2>3. CASE key \in {"emotes", "enabled", "persist", "recrawl"}
    <3>1. value \in BOOLEAN
      BY <1>2, <2>3 DEF Values
    <3>2. \/ store' = [store EXCEPT !.emotes = value] \/ store' = [store EXCEPT !.enabled = value]
          \/ store' = [store EXCEPT !.persist = value] \/ store' = [store EXCEPT !.recrawl = value]
      BY <1>2, <2>3
    <3> QED  BY <1>4, <3>1, <3>2 DEF Stores
  <2> QED  BY <1>3, <2>1, <2>2, <2>3 DEF Keys
<1> QED  BY <1>1, <1>3, <1>5 DEF LoopTypeOK, SaveKey

\* Every step keeps the types.
LEMMA StepTypes ==
    ASSUME LoopInv, [LoopNext]_allVars PROVE LoopTypeOK'
<1> USE DEF LoopInv, outside, config, page
<1>0. ASSUME round' \in Nat, UNCHANGED <<store, inFlight, requests, config>>,
             queue' = queue \/ (queue # <<>> /\ queue' = Tail(queue)),
             at' \in {"idle", "round", "tick", "admin", "command"},
             \/ UNCHANGED tickClock
             \/ nextTick' \in Nat /\ countedFrom' \in Nat,
             \/ UNCHANGED emoteClock
             \/ nextEmote' \subseteq Nat /\ pacedFrom' \in Nat
      PROVE  LoopTypeOK'
  <2>1. queue' \in Seq(Keys \cup PageActions)
    BY <1>0 DEF LoopTypeOK
  <2> QED  BY <1>0, <2>1 DEF LoopTypeOK, tickClock, emoteClock
<1>1. CASE Load
  BY <1>1 DEF Load, LoopTypeOK, Stores, tickClock, emoteClock
<1>2. CASE Die
  <2>1. queue' = <<>>
    BY <1>2 DEF Die, Forgotten
  <2>2. queue' \in Seq(Keys \cup PageActions)
    BY <2>1
  <2> QED  BY <1>2, <2>2 DEF Die, Forgotten, LoopTypeOK
<1>3. CASE Autosave \/ WorldMoves
  BY <1>0, <1>3 DEF Autosave, WorldMoves, loopVars, LoopTypeOK
<1>4. CASE RoundStarts
  <2>1. round' \in Nat
    BY <1>4 DEF RoundStarts, NextRound, LoopTypeOK
  <2>2. Clocks(cfg)
    BY <1>4 DEF RoundStarts
  <2> QED  BY <1>0, <1>4, <2>1, <2>2, ClocksType DEF RoundStarts
<1>5. CASE RoundPasses \/ FirstRoundGoesOn
  <2>1. round' \in Nat
    BY <1>5 DEF RoundPasses, FirstRoundGoesOn, NextRound, LoopTypeOK
  <2>2. CASE RoundGoes
    BY <1>0, <2>1, <2>2, ConfigNumbers, ScheduleEmoteType DEF RoundGoes
  <2> QED  BY <1>0, <1>5, <2>1, <2>2 DEF RoundPasses, FirstRoundGoesOn, LoopTypeOK
<1>6. CASE FinishTick
  <2>1. round' \in Nat /\ ScheduleTick(cfg.hours)
    BY <1>6 DEF FinishTick, LoopTypeOK
  <2> QED  BY <1>0, <1>6, <2>1, ConfigNumbers, ScheduleTickType DEF FinishTick
<1>7. CASE SaveKey
  BY <1>7, SaveTypes DEF SaveKey, LoopTypeOK, tickClock, emoteClock
<1>8. CASE QueueKey
  <2>1. PICK key \in inFlight : inFlight' = inFlight \ {key}
            /\ queue' = (IF listening THEN Append(queue, key) ELSE queue)
    BY <1>8 DEF QueueKey
  <2>2. queue' \in Seq(Keys \cup PageActions)
    BY <2>1 DEF LoopTypeOK
  <2> QED  BY <1>8, <2>1, <2>2 DEF QueueKey, LoopTypeOK, tickClock, emoteClock
<1>9. CASE AskAction
  <2>1. queue' \in Seq(Keys \cup PageActions)
    BY <1>9 DEF AskAction, LoopTypeOK
  <2> QED  BY <1>9, <2>1 DEF AskAction, LoopTypeOK, tickClock, emoteClock
<1>10. CASE HandleSave
  <2>1. /\ round' \in Nat /\ UNCHANGED <<store, inFlight, requests, listening, at>>
        /\ cfg' = store
        /\ queue' \in Seq(Keys \cup PageActions)
    BY <1>10 DEF HandleSave, TakeEvent, LoopTypeOK
  <2>2. nextTick' \in Nat /\ countedFrom' \in Nat
    <3>1. ScheduleTick(store.hours) \/ UNCHANGED tickClock
      BY <1>10 DEF HandleSave, TickApplier
    <3> QED  BY <2>1, <3>1, ConfigNumbers, ScheduleTickType DEF tickClock, LoopTypeOK
  <2>3. nextEmote' \subseteq Nat /\ pacedFrom' \in Nat
    <3>1. ScheduleEmote(store.every) \/ UNCHANGED emoteClock
      BY <1>10 DEF HandleSave, EmoteApplier
    <3> QED  BY <2>1, <3>1, ConfigNumbers, ScheduleEmoteType DEF emoteClock, LoopTypeOK
  <2> QED  BY <2>1, <2>2, <2>3 DEF LoopTypeOK
<1>11. CASE HandleChange
  BY <1>0, <1>11 DEF HandleChange, TakeEvent, LoopTypeOK
<1>12. CASE FinishAction \/ FinishCommand \/ Command
  BY <1>0, <1>12 DEF FinishAction, FinishCommand, Command, LoopTypeOK
<1>13. CASE HandleRebuild
  <2>1. round' \in Nat /\ Clocks(cfg)
    BY <1>13 DEF HandleRebuild, TakeEvent, LoopTypeOK
  <2> QED  BY <1>0, <1>13, <2>1, ClocksType DEF HandleRebuild, TakeEvent, LoopTypeOK
<1>14. CASE CommandRebuild
  <2>1. round' \in Nat /\ Clocks(cfg)
    BY <1>14 DEF CommandRebuild, LoopTypeOK
  <2> QED  BY <1>0, <1>14, <2>1, ClocksType DEF CommandRebuild, LoopTypeOK
<1>15. CASE UNCHANGED allVars
  BY <1>15 DEF allVars, loopVars, LoopTypeOK, tickClock, emoteClock
<1> QED  BY <1>1, <1>2, <1>3, <1>4, <1>5, <1>6, <1>7, <1>8, <1>9, <1>10, <1>11, <1>12, <1>13,
            <1>14, <1>15 DEF LoopNext

\* Only a module that hears its events is at work.
LEMMA StepQuiet ==
    ASSUME LoopInv, IInv, [LoopNext]_allVars PROVE Gone' /\ Deaf' /\ Rounding'
<1> USE DEF LoopInv, Gone, Deaf, Rounding, LoopIdle, outside, config, page, memory, disk, flags
<1>1. CASE Load
  BY <1>1 DEF Load, Boot
<1>2. CASE Die
  BY <1>2 DEF Die, Crash, Forgotten
<1>3. CASE Autosave \/ WorldMoves
  BY <1>3 DEF Autosave, WorldMoves, OnSave, WorldChanges, loopVars, Idle
<1>4. CASE RoundStarts
  BY <1>4 DEF RoundStarts, NextRound, FirstRound
<1>5. CASE RoundPasses \/ FirstRoundGoesOn
  BY <1>5 DEF RoundPasses, FirstRoundGoesOn, NextRound, RoundGoes, Change, vars
<1>6. CASE FinishTick \/ FinishAction \/ FinishCommand
  BY <1>6 DEF FinishTick, FinishAction, FinishCommand, FinishChange
<1>7. CASE SaveKey
  BY <1>7 DEF SaveKey, vars
<1>8. CASE QueueKey
  BY <1>8 DEF QueueKey, vars
<1>9. CASE AskAction
  BY <1>9 DEF AskAction, vars
<1>10. CASE HandleSave
  BY <1>10 DEF HandleSave, TakeEvent, SetFlags
<1>11. CASE HandleChange
  BY <1>11 DEF HandleChange, TakeEvent, Change, Idle, vars
<1>12. CASE Command
  BY <1>12 DEF Command, Change, Idle
<1>13. CASE HandleRebuild
  BY <1>13 DEF HandleRebuild, TakeEvent, Rebuild
<1>14. CASE CommandRebuild
  BY <1>14 DEF CommandRebuild, Rebuild
<1>15. CASE UNCHANGED allVars
  BY <1>15 DEF allVars, loopVars, vars
<1> QED  BY <1>1, <1>2, <1>3, <1>4, <1>5, <1>6, <1>7, <1>8, <1>9, <1>10, <1>11, <1>12, <1>13,
            <1>14, <1>15 DEF LoopNext

\* Every handler publishes before the next event.
LEMMA StepShown ==
    ASSUME LoopInv, IInv, [LoopNext]_allVars PROVE Shown'
<1> USE DEF LoopInv, Gone, Deaf, Shown, LoopIdle, outside, config, memory, disk, flags
<1>0. ASSUME UNCHANGED <<simReady, graph, state, started, up, listening, cfg, nextTick, page>>,
             at \in {"idle", "round"} \/ at' \notin {"idle", "round"}
      PROVE  Shown'
  BY <1>0 DEF View, page
<1>00. ASSUME Publish PROVE Shown'
  BY <1>00 DEF Publish
<1>1. CASE Load
  BY <1>1 DEF Load, Boot
<1>2. CASE Die
  BY <1>2 DEF Die, Crash
<1>3. CASE Autosave \/ WorldMoves
  BY <1>0, <1>3 DEF Autosave, WorldMoves, OnSave, WorldChanges, loopVars, Idle, tickClock
<1>4. CASE RoundStarts \/ FinishTick \/ FinishAction \/ FinishCommand
  BY <1>00, <1>4 DEF RoundStarts, FinishTick, FinishAction, FinishCommand
<1>5. CASE RoundPasses \/ FirstRoundGoesOn
  <2>1. at \in {"idle", "round"}
    BY <1>5 DEF RoundPasses, FirstRoundGoesOn, NextRound
  <2>2. UNCHANGED vars => Shown'
    BY <1>0, <1>5, <2>1 DEF RoundPasses, FirstRoundGoesOn, RoundGoes, vars, tickClock
  <2>3. at' = "tick" => Shown'
    OBVIOUS
  <2> QED  BY <1>5, <2>2, <2>3 DEF RoundPasses, FirstRoundGoesOn, RoundGoes
<1>7. CASE SaveKey \/ QueueKey \/ AskAction
  BY <1>0, <1>7 DEF SaveKey, QueueKey, AskAction, vars, tickClock
<1>10. CASE HandleSave \/ HandleRebuild \/ CommandRebuild
  BY <1>00, <1>10 DEF HandleSave, HandleRebuild, CommandRebuild
<1>11. CASE HandleChange
  <2>1. Publish \/ at' = "admin"
    BY <1>11 DEF HandleChange
  <2> QED  BY <1>00, <2>1
<1>12. CASE Command
  BY <1>12 DEF Command
<1>15. CASE UNCHANGED allVars
  BY <1>0, <1>15 DEF allVars, loopVars, vars, tickClock
<1> QED  BY <1>1, <1>2, <1>3, <1>4, <1>5, <1>7, <1>10, <1>11, <1>12, <1>15 DEF LoopNext

\* A key the game loop has not caught up with has a save on its way.
LEMMA StepFollowed ==
    ASSUME LoopInv, [LoopNext]_allVars, NEW key \in {"hours", "every"}
    PROVE  Followed(key, store[key], cfg[key])'
<1> USE DEF LoopInv, Gone, Followed, outside, config, memory, disk, flags
<1>a. Followed(key, store[key], cfg[key])
  OBVIOUS
<1>0. ASSUME UNCHANGED <<up, store, inFlight, queue, config>> PROVE Followed(key, store[key], cfg[key])'
  BY <1>0, <1>a DEF SavePending
<1>1. CASE Load
  BY <1>1 DEF Load
<1>2. CASE Die
  BY <1>2 DEF Die
<1>3. CASE Autosave \/ WorldMoves
  BY <1>0, <1>3 DEF Autosave, WorldMoves, OnSave, WorldChanges, loopVars, Idle
<1>4. CASE RoundStarts
  BY <1>0, <1>4 DEF RoundStarts, FirstRound
<1>5. CASE RoundPasses \/ FirstRoundGoesOn
  BY <1>0, <1>5 DEF RoundPasses, FirstRoundGoesOn, RoundGoes, Change, vars
<1>6. CASE FinishTick \/ FinishAction \/ FinishCommand
  BY <1>0, <1>6 DEF FinishTick, FinishAction, FinishCommand, FinishChange
<1>7. CASE SaveKey
  <2>1. PICK written \in SavedKeys \ inFlight : \E value \in Values(written) :
            store' = [store EXCEPT ![written] = value] /\ inFlight' = inFlight \cup {written}
    BY <1>7 DEF SaveKey
  <2>2. CASE written = key
    BY <2>1, <2>2 DEF SavePending
  <2>3. CASE written # key
    <3>1. store'[key] = store[key]
      BY <2>1, <2>3 DEF LoopTypeOK, Stores
    <3>2. SavePending(key) => SavePending(key)'
      BY <1>7, <2>1 DEF SaveKey, SavePending
    <3> QED  BY <1>7, <1>a, <3>1, <3>2 DEF SaveKey, vars
  <2> QED  BY <2>2, <2>3
<1>8. CASE QueueKey
  <2>1. PICK event \in inFlight : inFlight' = inFlight \ {event}
            /\ queue' = (IF listening THEN Append(queue, event) ELSE queue)
    BY <1>8 DEF QueueKey
  <2>2. listening => (SavePending(key) => SavePending(key)')
    BY <2>1, QueueingKeeps
  <2> QED  BY <1>8, <1>a, <2>2 DEF QueueKey, vars
<1>9. CASE AskAction
  <2>1. PICK event \in PageActions : queue' = Append(queue, event)
    BY <1>9 DEF AskAction
  <2>2. inFlight' = inFlight
    BY <1>9 DEF AskAction
  <2>3. SavePending(key) => SavePending(key)'
    BY <2>1, <2>2, QueueingKeeps
  <2> QED  BY <1>9, <1>a, <2>3 DEF AskAction, vars
<1>10. CASE HandleSave
  <2>1. cfg' = store /\ store' = store
    BY <1>10 DEF HandleSave, TakeEvent
  <2> QED  BY <2>1
<1>11. CASE HandleChange \/ HandleRebuild
  <2>1. TakeEvent /\ key # Head(queue)
    BY <1>11 DEF HandleChange, HandleRebuild
  <2>2. SavePending(key) <=> SavePending(key)'
    BY <2>1, TakingKeepsOthers
  <2>3. UNCHANGED <<up, store, config>>
    BY <1>11 DEF HandleChange, HandleRebuild, TakeEvent, Change, Rebuild, vars
  <2> QED  BY <1>a, <2>2, <2>3
<1>12. CASE Command \/ CommandRebuild
  BY <1>0, <1>12 DEF Command, CommandRebuild, Change, Rebuild
<1>15. CASE UNCHANGED allVars
  BY <1>0, <1>15 DEF allVars, loopVars, vars
<1> QED  BY <1>1, <1>2, <1>3, <1>4, <1>5, <1>6, <1>7, <1>8, <1>9, <1>10, <1>11, <1>12, <1>15 DEF LoopNext

\* Whatever leaves the clocks, the config, the simulation and the saves alone
\* keeps their promises, and so does whatever has just counted them anew.
LEMMA StepTicks ==
    ASSUME LoopInv, IInv, IInv', [LoopNext]_allVars PROVE TickAhead' /\ TickCounted'
<1> USE DEF LoopInv, Gone, Deaf, TickAhead, TickCounted, LoopIdle, outside, config,
            memory, disk, flags
<1>t. simReady \in BOOLEAN /\ (~up => ~simReady)
  BY DEF IInv, TypeOK, DownHoldsNothing
<1>0. ASSUME UNCHANGED <<simReady, round, cfg, tickClock>>,
             SavePending("hours") => SavePending("hours")',
             at \in {"idle", "admin", "command"} \/ at' \notin {"idle", "admin", "command"}
      PROVE  TickAhead' /\ TickCounted'
  BY <1>0 DEF tickClock
<1>00. ASSUME round' < nextTick', nextTick' = countedFrom' + Period(cfg'.hours)
       PROVE  TickAhead' /\ TickCounted'
  BY <1>00
<1>n. cfg.hours \in Nat /\ store.hours \in Nat /\ round \in Nat
  BY ConfigNumbers DEF LoopTypeOK
<1>1. CASE Load
  BY <1>1, <1>t DEF Load, Boot
<1>2. CASE Die
  BY <1>2 DEF Die, Crash
<1>3. CASE Autosave \/ WorldMoves
  BY <1>0, <1>3 DEF Autosave, WorldMoves, OnSave, WorldChanges, loopVars, Idle, SavePending
<1>4. CASE RoundStarts
  <2>1. round' \in Nat /\ Clocks(cfg) /\ cfg' = cfg
    BY <1>4, <1>n DEF RoundStarts, NextRound
  <2>2. CASE simReady' /\ ~simReady
    BY <1>00, <2>1, <2>2, ClocksType
  <2>3. CASE ~(simReady' /\ ~simReady)
    <3>1. UNCHANGED tickClock
      BY <2>1, <2>3, ClocksType
    <3>2. simReady' => at' = "round"
      BY <1>4 DEF RoundStarts
    <3>3. SavePending("hours") <=> SavePending("hours")'
      BY <1>4 DEF RoundStarts, SavePending
    <3> QED  BY <2>1, <2>3, <3>1, <3>2, <3>3 DEF tickClock
  <2> QED  BY <2>2, <2>3
<1>5. CASE RoundPasses \/ FirstRoundGoesOn
  <2>1. SavePending("hours") <=> SavePending("hours")'
    BY <1>5 DEF RoundPasses, FirstRoundGoesOn, RoundGoes, SavePending
  <2>2. UNCHANGED <<simReady, cfg, tickClock>>
    BY <1>5 DEF RoundPasses, FirstRoundGoesOn, RoundGoes, Change, vars
  <2>3. CASE RoundGoes
    <3>1. at' = "tick" \/ ~(round' >= nextTick)
      BY <2>3 DEF RoundGoes
    <3>2. round' \in Nat /\ nextTick \in Nat
      BY <1>5, <1>n DEF RoundPasses, FirstRoundGoesOn, NextRound, LoopTypeOK
    <3> QED  BY <2>1, <2>2, <3>1, <3>2 DEF tickClock
  <2>4. CASE ~simReady
    BY <2>2, <2>4
  <2> QED  BY <1>5, <2>3, <2>4 DEF RoundPasses, FirstRoundGoesOn
<1>6. CASE FinishTick
  <2>1. round' \in Nat /\ ScheduleTick(cfg.hours) /\ cfg' = cfg
    BY <1>6, <1>n DEF FinishTick
  <2> QED  BY <1>00, <1>n, <2>1, ScheduleTickType
<1>7. CASE SaveKey
  BY <1>0, <1>7 DEF SaveKey, vars, SavePending
<1>8. CASE QueueKey
  <2>1. PICK event \in inFlight : inFlight' = inFlight \ {event}
            /\ queue' = (IF listening THEN Append(queue, event) ELSE queue)
    BY <1>8 DEF QueueKey
  <2>2. CASE listening
    <3>1. SavePending("hours") => SavePending("hours")'
      BY <2>1, <2>2, QueueingKeeps
    <3> QED  BY <1>8, <3>1 DEF QueueKey, vars, tickClock
  <2>3. CASE ~listening
    BY <1>8, <2>3, <1>t DEF QueueKey, vars
  <2> QED  BY <2>2, <2>3
<1>9. CASE AskAction
  <2>1. PICK event \in PageActions : queue' = Append(queue, event)
    BY <1>9 DEF AskAction
  <2>2. SavePending("hours") => SavePending("hours")'
    BY <1>9, <2>1, QueueingKeeps DEF AskAction
  <2> QED  BY <1>9, <2>2 DEF AskAction, vars, tickClock
<1>10. CASE HandleSave
  <2>1. TakeEvent /\ cfg' = store /\ round' = round /\ at' = "idle" /\ at = "idle"
        /\ simReady' = simReady /\ up
    BY <1>10 DEF HandleSave, TakeEvent, SetFlags
  <2>2. TickApplier(Head(queue), cfg)
    BY <1>10 DEF HandleSave
  <2>3. CASE simReady /\ Head(queue) = "hours"
    <3>1. ScheduleTick(store.hours)
      BY <2>2, <2>3 DEF TickApplier
    <3> QED  BY <1>00, <1>n, <2>1, <3>1, ScheduleTickType
  <2>4. CASE simReady /\ Head(queue) # "hours"
    <3>1. UNCHANGED tickClock
      BY <2>2, <2>4 DEF TickApplier
    <3>2. SavePending("hours") <=> SavePending("hours")'
      BY <2>1, <2>4, TakingKeepsOthers
    <3>3. listening
      BY <2>1, <2>4
    <3>4. SavePending("hours") \/ store["hours"] = cfg["hours"]
      BY <2>1, <3>3 DEF Followed
    <3>5. SavePending("hours")' \/ cfg'.hours = cfg.hours
      BY <2>1, <3>2, <3>4
    <3>6. TickCounted'
      BY <2>4, <3>1, <3>2, <3>5 DEF tickClock
    <3>7. TickAhead'
      BY <2>1, <2>4, <3>1 DEF tickClock
    <3> QED  BY <3>6, <3>7
  <2>5. CASE ~simReady
    BY <2>1, <2>5
  <2> QED  BY <1>t, <2>3, <2>4, <2>5
<1>11. CASE HandleChange
  <2>1. TakeEvent /\ Head(queue) = "change"
    BY <1>11 DEF HandleChange
  <2>2. SavePending("hours") <=> SavePending("hours")'
    BY <2>1, TakingKeepsOthers
  <2> QED  BY <1>0, <1>11, <2>2 DEF HandleChange, TakeEvent, Change, vars
<1>12. CASE FinishAction \/ FinishCommand \/ Command
  BY <1>0, <1>12 DEF FinishAction, FinishCommand, Command, Change, FinishChange, SavePending
<1>13. CASE HandleRebuild \/ CommandRebuild
  <2>1. round' = round /\ Clocks(cfg) /\ cfg' = cfg /\ at = "idle"
    BY <1>13 DEF HandleRebuild, CommandRebuild, TakeEvent
  <2>2. SavePending("hours") <=> SavePending("hours")'
    <3>1. CASE HandleRebuild
      BY <3>1, TakingKeepsOthers DEF HandleRebuild
    <3>2. CASE CommandRebuild
      BY <3>2 DEF CommandRebuild, SavePending
    <3> QED  BY <1>13, <3>1, <3>2
  <2>3. CASE simReady' /\ ~simReady
    BY <1>00, <1>n, <2>1, <2>3, ClocksType
  <2>4. CASE ~(simReady' /\ ~simReady)
    <3>1. UNCHANGED tickClock
      BY <1>n, <2>1, <2>4, ClocksType
    <3> QED  BY <2>1, <2>2, <2>4, <3>1 DEF tickClock
  <2> QED  BY <2>3, <2>4
<1>15. CASE UNCHANGED allVars
  BY <1>0, <1>15 DEF allVars, loopVars, vars, SavePending
<1> QED  BY <1>1, <1>2, <1>3, <1>4, <1>5, <1>6, <1>7, <1>8, <1>9, <1>10, <1>11, <1>12, <1>13,
            <1>15 DEF LoopNext

\* The same of the emote clock, which nothing but a pass moves between saves.
LEMMA StepEmotes ==
    ASSUME LoopInv, IInv, IInv', [LoopNext]_allVars PROVE EmoteCounted'
<1> USE DEF LoopInv, Gone, Deaf, EmoteCounted, LoopIdle, outside, config, memory, disk, flags
<1>t. simReady \in BOOLEAN /\ (~up => ~simReady)
  BY DEF IInv, TypeOK, DownHoldsNothing
<1>0. ASSUME UNCHANGED <<simReady, cfg, emoteClock>>, SavePending("every") => SavePending("every")'
      PROVE  EmoteCounted'
  BY <1>0 DEF emoteClock
<1>00. ASSUME NEW every, every = cfg'.every,
              nextEmote' = {pacedFrom' + delta : delta \in Window(every)}
       PROVE  EmoteCounted'
  BY <1>00
<1>n. cfg.every \in Nat /\ store.every \in Nat /\ round \in Nat
  BY ConfigNumbers DEF LoopTypeOK
<1>1. CASE Load
  BY <1>1, <1>t DEF Load, Boot
<1>2. CASE Die
  BY <1>2 DEF Die, Crash
<1>3. CASE Autosave \/ WorldMoves
  BY <1>0, <1>3 DEF Autosave, WorldMoves, OnSave, WorldChanges, loopVars, Idle, SavePending
<1>4. CASE RoundStarts \/ HandleRebuild \/ CommandRebuild
  <2>1. round' \in Nat /\ Clocks(cfg) /\ cfg' = cfg
    BY <1>4, <1>n DEF RoundStarts, NextRound, HandleRebuild, CommandRebuild, TakeEvent
  <2>2. CASE simReady' /\ ~simReady
    BY <1>00, <2>1, <2>2, ClocksType
  <2>3. CASE ~(simReady' /\ ~simReady)
    <3>1. UNCHANGED emoteClock
      BY <2>1, <2>3, ClocksType
    <3>2. SavePending("every") <=> SavePending("every")'
      <4>1. CASE HandleRebuild
        BY <4>1, TakingKeepsOthers DEF HandleRebuild
      <4>2. CASE RoundStarts \/ CommandRebuild
        BY <4>2 DEF RoundStarts, CommandRebuild, SavePending
      <4> QED  BY <1>4, <4>1, <4>2
    <3> QED  BY <2>1, <2>3, <3>1, <3>2 DEF emoteClock
  <2> QED  BY <2>2, <2>3
<1>5. CASE RoundPasses \/ FirstRoundGoesOn
  <2>1. SavePending("every") <=> SavePending("every")'
    BY <1>5 DEF RoundPasses, FirstRoundGoesOn, RoundGoes, SavePending
  <2>2. UNCHANGED <<simReady, cfg>> /\ round' \in Nat
    BY <1>5, <1>n DEF RoundPasses, FirstRoundGoesOn, NextRound, RoundGoes, Change, vars
  <2>3. ScheduleEmote(cfg.every) \/ UNCHANGED emoteClock
    BY <1>5 DEF RoundPasses, FirstRoundGoesOn, RoundGoes
  <2>4. CASE ScheduleEmote(cfg.every)
    BY <1>00, <1>n, <2>2, <2>4, ScheduleEmoteType
  <2> QED  BY <1>0, <2>1, <2>2, <2>3, <2>4
<1>6. CASE FinishTick \/ FinishAction \/ FinishCommand \/ Command
  BY <1>0, <1>6 DEF FinishTick, FinishAction, FinishCommand, Command, Change, FinishChange, SavePending
<1>7. CASE SaveKey
  BY <1>0, <1>7 DEF SaveKey, vars, SavePending
<1>8. CASE QueueKey
  <2>1. PICK event \in inFlight : inFlight' = inFlight \ {event}
            /\ queue' = (IF listening THEN Append(queue, event) ELSE queue)
    BY <1>8 DEF QueueKey
  <2>2. CASE listening
    <3>1. SavePending("every") => SavePending("every")'
      BY <2>1, <2>2, QueueingKeeps
    <3> QED  BY <1>0, <1>8, <3>1 DEF QueueKey, vars
  <2>3. CASE ~listening
    BY <1>8, <2>3, <1>t DEF QueueKey, vars
  <2> QED  BY <2>2, <2>3
<1>9. CASE AskAction
  <2>1. PICK event \in PageActions : queue' = Append(queue, event)
    BY <1>9 DEF AskAction
  <2>2. SavePending("every") => SavePending("every")'
    BY <1>9, <2>1, QueueingKeeps DEF AskAction
  <2> QED  BY <1>0, <1>9, <2>2 DEF AskAction, vars
<1>10. CASE HandleSave
  <2>1. TakeEvent /\ cfg' = store /\ round' = round /\ at = "idle"
        /\ simReady' = simReady /\ up
    BY <1>10 DEF HandleSave, TakeEvent, SetFlags
  <2>2. EmoteApplier(Head(queue), cfg)
    BY <1>10 DEF HandleSave
  <2>3. CASE simReady /\ Head(queue) = "every"
    <3>1. ScheduleEmote(store.every)
      BY <2>2, <2>3 DEF EmoteApplier
    <3> QED  BY <1>00, <1>n, <2>1, <3>1, ScheduleEmoteType
  <2>4. CASE simReady /\ Head(queue) # "every"
    <3>1. UNCHANGED emoteClock
      BY <2>2, <2>4 DEF EmoteApplier
    <3>2. SavePending("every") <=> SavePending("every")'
      BY <2>1, <2>4, TakingKeepsOthers
    <3>3. SavePending("every") \/ store["every"] = cfg["every"]
      BY <2>1, <2>4 DEF Followed
    <3>4. SavePending("every")' \/ cfg'.every = cfg.every
      BY <2>1, <3>2, <3>3
    <3> QED  BY <2>4, <3>1, <3>2, <3>4 DEF emoteClock
  <2>5. CASE ~simReady
    BY <2>1, <2>5
  <2> QED  BY <1>t, <2>3, <2>4, <2>5
<1>11. CASE HandleChange
  <2>1. TakeEvent /\ Head(queue) = "change"
    BY <1>11 DEF HandleChange
  <2>2. SavePending("every") <=> SavePending("every")'
    BY <2>1, TakingKeepsOthers
  <2> QED  BY <1>0, <1>11, <2>2 DEF HandleChange, Change, vars
<1>12. CASE UNCHANGED allVars
  BY <1>0, <1>12 DEF allVars, loopVars, vars, SavePending
<1> QED  BY <1>1, <1>2, <1>3, <1>4, <1>5, <1>6, <1>7, <1>8, <1>9, <1>10, <1>11, <1>12 DEF LoopNext

\* A server that is down has a clean loop.
LEMMA InitLoopInv == LoopInit => LoopInv
<1> SUFFICES ASSUME LoopInit PROVE LoopInv
  OBVIOUS
<1>1. store \in Stores /\ cfg \in Stores
  BY GameLoopAssumption DEF LoopInit
<1>2. queue \in Seq(Keys \cup PageActions)
  <2>1. queue = <<>>
    BY DEF LoopInit
  <2> QED  BY <2>1
<1>3. LoopTypeOK
  BY <1>1, <1>2 DEF LoopInit, LoopTypeOK
<1>4. ~up /\ ~simReady
  BY DEF LoopInit, Init
<1> QED  BY <1>3, <1>4 DEF LoopInit, LoopInv, Gone, Deaf, Shown, Rounding, Followed, TickAhead,
                          TickCounted, EmoteCounted

LEMMA StepLoopInv == LoopInv /\ IInv /\ IInv' /\ [LoopNext]_allVars => LoopInv'
<1> SUFFICES ASSUME LoopInv, IInv, IInv', [LoopNext]_allVars PROVE LoopInv'
  OBVIOUS
<1>1. Followed("hours", store["hours"], cfg["hours"])' /\ Followed("every", store["every"], cfg["every"])'
  BY StepFollowed
<1> QED  BY <1>1, StepTypes, StepQuiet, StepShown, StepTicks, StepEmotes DEF LoopInv

\* The inductive invariant of the game loop holds always.
THEOREM LoopInvariant == LoopSpec => []LoopInv
<1>1. LoopSpec => []IInv
  BY LoopImplementsRestarts, RestartInvariant, PTL
<1> QED  BY <1>1, InitLoopInv, StepLoopInv, PTL DEF LoopSpec

\* Whatever entry points ran, between events the page shows the module as it
\* is (publishSnapshot).
THEOREM PageIsCurrent == LoopSpec => []SnapshotCurrent
<1>1. LoopInv => SnapshotCurrent
  BY DEF LoopInv, LoopTypeOK, SnapshotCurrent, Shown, Deaf, LoopIdle
<1> QED  BY <1>1, LoopInvariant, PTL

\* For any periods and any saves of them the next tick is a period ahead of
\* what it was last counted from (tick, startSim, configKeyMeta).
THEOREM TicksPaced == LoopSpec => []TicksKeepTheirPace
<1>1. LoopInv => TicksKeepTheirPace
  BY DEF LoopInv, TicksKeepTheirPace, TickAhead, TickCounted, LoopIdle
<1> QED  BY <1>1, LoopInvariant, PTL

\* For any cadences and any saves of them the next emote pass is within a
\* quarter of the cadence (scheduleEmote).
THEOREM EmotesKeepPace == LoopSpec => []EmotesPaced
<1>1. LoopInv => EmotesPaced
  BY DEF LoopInv, EmotesPaced, EmoteCounted, LoopIdle
<1> QED  BY <1>1, LoopInvariant, PTL
=============================================================================
