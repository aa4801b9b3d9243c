--------------------------- MODULE ConfigApplyProofs ---------------------------
(***************************************************************************)
(* ConfigApply, proved for any number of admins, writes and pending saves: *)
(* no write is lost on its way to m.cfg, and the simulation's knobs follow.*)
(* The inductive invariant says where a value still under way is.          *)
(***************************************************************************)
EXTENDS ConfigApply, FiniteSetTheorems, SequenceTheorems, TLAPS

\* A request that will queue an event for the value the store now holds.
Announcing(key) ==
    \E h \in Handlers : Busy(h) /\ handler[h].key = key /\ handler[h].value = store[key]

Queued(key) == \E n \in 1..Len(queue) : queue[n] = key

OnItsWay(key) == Queued(key) \/ Announcing(key)

\* The game loop has the store's value, or will read it before it adopts.
Seen(key) ==
    IF LoopIdle THEN cfg[key] = store[key]
    ELSE \/ \E n \in (reading.count + 1)..Len(KeyOrder) : KeyOrder[n] = key
         \/ reading.got[key] = store[key]

Knob == "MaxActiveFronts"

KnobSeen == simReady => \/ simCfg = store[Knob]
                        \/ OnItsWay(Knob)
                        \/ reading.event = Knob

NothingLost == (\A key \in AllKeys : Seen(key) \/ OnItsWay(key)) /\ KnobSeen

-----------------------------------------------------------------------------

LEMMA OrderLength == Len(KeyOrder) = 5
BY DEF KeyOrder

LEMMA OrderFacts ==
    /\ Len(KeyOrder) = 5
    /\ \A n \in 1..5 : KeyOrder[n] \in AllKeys
    /\ \A key \in AllKeys : \E n \in 1..5 : KeyOrder[n] = key
    /\ Knob \in AllKeys /\ "" \notin AllKeys
<1>1. Len(KeyOrder) = 5
  BY DEF KeyOrder
<1>2. DOMAIN KeyOrder = 1..5
  BY DEF KeyOrder
<1>3. /\ KeyOrder[1] = "MaxActiveFronts" /\ KeyOrder[2] = "BuffsEnabled"
      /\ KeyOrder[3] = "Persist" /\ KeyOrder[4] = "SeasonsEnabled"
      /\ KeyOrder[5] = "PerRoomRefinement"
  BY DEF KeyOrder
<1>4. AllKeys = {KeyOrder[n] : n \in 1..5}
  BY <1>2 DEF AllKeys
<1>5. Knob \in AllKeys
  BY <1>3, <1>4 DEF Knob
<1>6. "" \notin AllKeys
  <2> SUFFICES ASSUME NEW n \in 1..5 PROVE KeyOrder[n] # ""
    BY <1>4
  <2>1. n = 1 \/ n = 2 \/ n = 3 \/ n = 4 \/ n = 5
    OBVIOUS
  <2> QED
    BY <2>1, <1>3
<1> QED
  BY <1>1, <1>4, <1>5, <1>6

LEMMA WritesStayConfigs ==
    ASSUME NEW c \in Configs, NEW key \in AllKeys, NEW value \in Values(key)
    PROVE  [c EXCEPT ![key] = value] \in Configs
<1>1. value \in AnyValue
  BY DEF Values, AnyValue, RefineModes
<1> QED
  BY <1>1 DEF Configs

LEMMA ReadingTypes ==
    ASSUME TypeOK
    PROVE  /\ reading.count \in 0..5 /\ reading.got \in Configs
           /\ reading.event \in Keys \cup {""}
           /\ reading = [event |-> reading.event, count |-> reading.count, got |-> reading.got]
<1>1. reading \in [event : Keys \cup {""}, count : 0..5, got : Configs]
  BY OrderFacts DEF TypeOK
<1> QED
  BY <1>1

LEMMA LiveKeysExist ==
    {"MaxActiveFronts", "BuffsEnabled", "Persist", "SeasonsEnabled",
     "PerRoomRefinement"} \subseteq AllKeys
<1>1. DOMAIN KeyOrder = 1..5
  BY DEF KeyOrder
<1>2. /\ KeyOrder[1] = "MaxActiveFronts" /\ KeyOrder[2] = "BuffsEnabled"
      /\ KeyOrder[3] = "Persist" /\ KeyOrder[4] = "SeasonsEnabled"
      /\ KeyOrder[5] = "PerRoomRefinement"
  BY DEF KeyOrder
<1>3. \A n \in 1..5 : KeyOrder[n] \in AllKeys
  BY <1>1 DEF AllKeys
<1> QED
  BY <1>2, <1>3

\* What asserting the weather does to either layer, mode by mode.
LEMMA WeatherIsAsserted ==
    ASSUME NEW c \in Configs, TypeOK, ApplyWeather(c)
    PROVE  /\ zonesCarry' \in BOOLEAN /\ coated' \in SUBSET Rooms
           /\ zonesCarry' => c["PerRoomRefinement"] = "off"
           /\ c["PerRoomRefinement"] = "off" => coated' = coated
<1>1. c["PerRoomRefinement"] \in {"off", "occupied", "all"}
  <2>1. c["PerRoomRefinement"] \in Values("PerRoomRefinement")
    BY LiveKeysExist DEF Configs
  <2> QED
    BY <2>1 DEF Values, RefineModes
<1>2. zonesCarry' = (c["PerRoomRefinement"] = "off")
  BY DEF ApplyWeather
<1>3. CASE c["PerRoomRefinement"] = "off"
  BY <1>2, <1>3 DEF ApplyWeather, TypeOK
<1>4. CASE c["PerRoomRefinement"] = "occupied"
  BY <1>2, <1>4 DEF ApplyWeather, TypeOK
<1>5. CASE c["PerRoomRefinement"] = "all"
  BY <1>2, <1>5 DEF ApplyWeather, TypeOK
<1> QED
  BY <1>1, <1>3, <1>4, <1>5, <1>2

\* What a step of a request does to its goroutine, and to no other.
LEMMA HandleFrees ==
    ASSUME TypeOK, NEW h \in Handlers, Handle(h)
    PROVE  /\ Busy(h)
           /\ handler' \in [Handlers -> [phase : {"idle", "set", "accepted"},
                                         key : Keys \cup {""}, value : AnyValue \cup {""}]]
           /\ \A g \in Handlers : g # h => handler'[g] = handler[g]
           /\ \/ handler'[h] = Free
              \/ /\ handler'[h].phase = "accepted" /\ handler'[h].key = handler[h].key
                 /\ handler'[h].value = handler[h].value
<1>1. Busy(h)
  BY DEF Handle, HandlerReadBack, HandlerQueue, Busy
<1>2. handler \in [Handlers -> [phase : {"idle", "set", "accepted"},
                               key : Keys \cup {""}, value : AnyValue \cup {""}]]
  BY DEF TypeOK
<1>3. PICK next \in {Free, [handler[h] EXCEPT !.phase = "accepted"]} :
        handler' = [handler EXCEPT ![h] = next]
  BY DEF Handle, HandlerReadBack, HandlerQueue
<1>4. CASE next = Free
  BY <1>1, <1>2, <1>3, <1>4 DEF Free
<1>5. CASE next = [handler[h] EXCEPT !.phase = "accepted"]
  <2>1. handler[h] \in [phase : {"idle", "set", "accepted"},
                       key : Keys \cup {""}, value : AnyValue \cup {""}]
    BY <1>2
  <2>2. /\ next \in [phase : {"idle", "set", "accepted"},
                     key : Keys \cup {""}, value : AnyValue \cup {""}]
        /\ next.phase = "accepted" /\ next.key = handler[h].key /\ next.value = handler[h].value
    BY <1>5, <2>1
  <2> QED
    BY <1>1, <1>2, <1>3, <2>2
<1> QED
  BY <1>3, <1>4, <1>5

(* Types hold through every write, read and event. *)
THEOREM ConfigTypeCorrect == Spec => []TypeOK
<1>1. Init => TypeOK
  <2> SUFFICES ASSUME Init PROVE TypeOK
    OBVIOUS
  <2>1. \A h \in Handlers : ~Busy(h)
    BY DEF Init, Free, Busy
  <2>2. writes \in 0..MaxWrites /\ queue \in Seq(Keys)
    <3>1. writes = 0 /\ queue = <<>>
      BY DEF Init
    <3> QED
      BY <3>1, BoundsAssumption
  <2>3. reading \in [event : Keys \cup {""}, count : 0..Len(KeyOrder), got : Configs]
    <3>1. 0 \in 0..Len(KeyOrder)
      BY OrderLength
    <3> QED
      BY <3>1 DEF Init
  <2>4. handler \in [Handlers -> [phase : {"idle", "set", "accepted"},
                                 key : Keys \cup {""}, value : AnyValue \cup {""}]]
    BY DEF Init, Free
  <2> QED
    BY <2>1, <2>2, <2>3, <2>4 DEF Init, TypeOK, LoopIdle
<1>2. TypeOK /\ [Next]_vars => TypeOK'
  <2> SUFFICES ASSUME TypeOK, [Next]_vars PROVE TypeOK'
    OBVIOUS
  <2> USE KeysAssumption
  <2>1. ASSUME NEW h \in Handlers, HandlerSet(h) PROVE TypeOK'
    <3>1. PICK key \in Keys : \E value \in Values(key) :
            /\ handler' = [handler EXCEPT ![h] = [phase |-> "set", key |-> key, value |-> value]]
            /\ store' = IF key \in Unregistered THEN store ELSE [store EXCEPT ![key] = value]
      BY <2>1 DEF HandlerSet
    <3>2. PICK value \in Values(key) :
            /\ handler' = [handler EXCEPT ![h] = [phase |-> "set", key |-> key, value |-> value]]
            /\ store' = IF key \in Unregistered THEN store ELSE [store EXCEPT ![key] = value]
      BY <3>1
    <3>3. store' \in Configs
      BY <3>2, WritesStayConfigs DEF TypeOK
    <3>4. value \in AnyValue
      BY DEF Values, AnyValue, RefineModes
    <3>7. overlapped' \in BOOLEAN
      BY <2>1 DEF HandlerSet, TypeOK
    <3>5. writes' \in 0..MaxWrites
      <4>1. writes \in 0..MaxWrites /\ writes < MaxWrites /\ writes' = writes + 1
        BY <2>1 DEF HandlerSet, TypeOK
      <4> QED
        BY <4>1, BoundsAssumption
    <3>6. /\ handler' \in [Handlers -> [phase : {"idle", "set", "accepted"},
                                         key : Keys \cup {""}, value : AnyValue \cup {""}]]
          /\ \A g \in Handlers : Busy(g)' =>
                handler'[g].key \in Keys /\ handler'[g].value \in Values(handler'[g].key)
      BY <3>2, <3>4 DEF TypeOK, Busy
    <3> QED
      BY <2>1, <3>3, <3>5, <3>6, <3>7 DEF HandlerSet, TypeOK, LoopIdle, applied
  <2>2. ASSUME NEW h \in Handlers, Handle(h) PROVE TypeOK'
    <3>1. /\ handler[h].key \in Keys
          /\ handler' \in [Handlers -> [phase : {"idle", "set", "accepted"},
                                         key : Keys \cup {""}, value : AnyValue \cup {""}]]
          /\ \A g \in Handlers : Busy(g)' =>
                handler'[g].key \in Keys /\ handler'[g].value \in Values(handler'[g].key)
      <4>1. /\ \A g \in Handlers : Busy(g) =>
                 handler[g].key \in Keys /\ handler[g].value \in Values(handler[g].key)
            /\ Free.phase = "idle"
        BY DEF TypeOK, Free
      <4>2. \A g \in Handlers : \/ handler'[g] = handler[g] \/ handler'[g] = Free
                                \/ handler'[g].key = handler[g].key
                                   /\ handler'[g].value = handler[g].value /\ Busy(g)
        BY <2>2, HandleFrees
      <4> QED
        BY <2>2, <4>1, <4>2, HandleFrees DEF Busy
    <3>2. queue' \in Seq(Keys)
      <4>1. queue \in Seq(Keys)
        BY DEF TypeOK
      <4>2. queue' = queue \/ queue' = Append(queue, handler[h].key)
        BY <2>2 DEF Handle, HandlerReadBack, HandlerQueue
      <4>3. handler[h].key \in Keys
        BY <3>1
      <4> QED
        BY <4>1, <4>2, <4>3
    <3>3. UNCHANGED <<store, writes, overlapped, reading, cfg, simReady, applied, occupied>>
      BY <2>2 DEF Handle, HandlerReadBack, HandlerQueue
    <3> QED
      BY <3>1, <3>2, <3>3 DEF TypeOK, LoopIdle, applied
  <2>3. CASE StartSim
    <3>1. cfg["MaxActiveFronts"] \in Values("MaxActiveFronts")
      BY OrderFacts DEF TypeOK, Configs, Knob
    <3>2. seasonsOn' \in BOOLEAN /\ stripped' \in BOOLEAN
      BY <2>3, TracksAssumption DEF StartSim, SeasonsLoaded, TypeOK
    <3>3. zonesCarry' \in BOOLEAN /\ coated' \in SUBSET Rooms
      BY <2>3, WeatherIsAsserted DEF StartSim, TypeOK
    <3> QED
      BY <2>3, <3>1, <3>2, <3>3 DEF StartSim, TypeOK, Busy, LoopIdle, web
  <2>4. CASE TakeEvent
    <3>1. Head(queue) \in Keys /\ queue' \in Seq(Keys)
      <4>1. queue \in Seq(Keys) /\ queue # <<>> /\ queue' = Tail(queue)
        BY <2>4 DEF TakeEvent, TypeOK
      <4> QED
        BY <4>1
    <3>2. reading' \in [event : Keys \cup {""}, count : 0..Len(KeyOrder), got : Configs]
      <4>1. 0 \in 0..Len(KeyOrder)
        BY OrderLength
      <4> QED
        BY <2>4, <3>1, <4>1 DEF TakeEvent, TypeOK
    <3>3. reading'.count = 0
      BY <2>4 DEF TakeEvent
    <3> QED
      BY <2>4, <3>1, <3>2, <3>3 DEF TakeEvent, TypeOK, Busy, LoopIdle, applied
  <2>5. CASE ReadKey
    <3> DEFINE k == KeyOrder[reading.count + 1]
    <3>1. reading.count + 1 \in 1..5
      <4>1. reading.count \in 0..5 /\ reading.count < Len(KeyOrder)
        BY <2>5, ReadingTypes DEF ReadKey
      <4> QED
        BY <4>1, OrderLength
    <3>2. k \in AllKeys /\ store[k] \in Values(k)
      BY <3>1, OrderFacts DEF TypeOK, Configs
    <3>3. [reading.got EXCEPT ![k] = store[k]] \in Configs
      BY <3>2, WritesStayConfigs DEF TypeOK
    <3> HIDE DEF k
    <3>4. reading' = [event |-> reading.event, count |-> reading.count + 1,
                      got |-> [reading.got EXCEPT ![k] = store[k]]]
      BY <2>5 DEF ReadKey, k
    <3>5. reading' \in [event : Keys \cup {""}, count : 0..Len(KeyOrder), got : Configs]
      <4>1. reading.count + 1 \in 0..Len(KeyOrder)
        BY <3>1, OrderLength
      <4> QED
        BY <3>3, <3>4, <4>1, ReadingTypes
    <3>6. ~LoopIdle'
      <4>1. reading.event # ""
        BY <2>5 DEF ReadKey, LoopIdle
      <4>2. reading'.event = reading.event
        BY <3>4
      <4> QED
        BY <4>1, <4>2 DEF LoopIdle
    <3> QED
      BY <2>5, <3>5, <3>6 DEF ReadKey, TypeOK, Busy, applied, web
  <2>6. CASE ApplyConfigChange
    <3>1. reading.got["MaxActiveFronts"] \in Values("MaxActiveFronts")
      BY OrderFacts DEF TypeOK, Configs, Knob
    <3>2. /\ simCfg' \in IF simReady THEN Values("MaxActiveFronts") ELSE {""}
          /\ seasonsOn' \in BOOLEAN /\ stripped' \in BOOLEAN
      BY <2>6, <3>1, TracksAssumption
        DEF ApplyConfigChange, LiveApply, SimCfgApplied, BuffsApplied, SeasonsApplied,
            SeasonsLoaded, TypeOK, applied
    <3>3. zonesCarry' \in BOOLEAN /\ coated' \in SUBSET Rooms
      <4>1. CASE ~simReady
        BY <2>6, <4>1 DEF ApplyConfigChange, TypeOK, applied
      <4>2. CASE simReady
        BY <2>6, <4>2, WeatherIsAsserted, ReadingTypes
          DEF ApplyConfigChange, LiveApply, RefinementApplied, TypeOK
      <4> QED
        BY <4>1, <4>2
    <3>4. cfg' \in Configs
      BY <2>6, ReadingTypes DEF ApplyConfigChange
    <3>5. /\ reading' \in [event : Keys \cup {""}, count : 0..Len(KeyOrder), got : Configs]
          /\ reading'.count = 0
      <4>1. 0 \in 0..Len(KeyOrder)
        BY OrderLength
      <4>2. reading' = [event |-> "", count |-> 0, got |-> cfg']
        BY <2>6 DEF ApplyConfigChange
      <4> QED
        BY <3>4, <4>1, <4>2
    <3>6. UNCHANGED <<store, queue, handler, writes, overlapped, simReady, occupied>>
      BY <2>6 DEF ApplyConfigChange, web
    <3> QED
      BY <3>2, <3>3, <3>4, <3>5, <3>6 DEF TypeOK, Busy, LoopIdle
  <2>7. CASE Tick
    <3>1. zonesCarry' \in BOOLEAN /\ coated' \in SUBSET Rooms
      BY <2>7, WeatherIsAsserted DEF Tick, TypeOK
    <3> QED
      BY <2>7, <3>1 DEF Tick, TypeOK, Busy, LoopIdle, web
  <2>8. CASE Decay
    BY <2>8 DEF Decay, TypeOK, Busy, LoopIdle, web
  <2>9. CASE Walk
    BY <2>9 DEF Walk, TypeOK, Busy, LoopIdle, web, applied
  <2>10. CASE OnRoomChange
    <3>1. coated' \in SUBSET Rooms
      BY <2>10 DEF OnRoomChange, TypeOK
    <3> QED
      BY <2>10, <3>1 DEF OnRoomChange, TypeOK, Busy, LoopIdle, web
  <2>11. CASE UNCHANGED vars
    BY <2>11 DEF vars, web, applied, TypeOK, Busy, LoopIdle
  <2> QED
    BY <2>1, <2>2, <2>3, <2>4, <2>5, <2>6, <2>7, <2>8, <2>9, <2>10, <2>11 DEF Next, Loop
<1> QED
  BY <1>1, <1>2, PTL DEF Spec

-----------------------------------------------------------------------------

LEMMA BusyKeepsAnnouncing ==
    ASSUME TypeOK, NEW h \in Handlers, handler[h].phase = "set", HandlerReadBack(h),
           NEW key \in AllKeys, OnItsWay(key)
    PROVE  OnItsWay(key)'
<1>1. UNCHANGED <<queue, store>>
  BY DEF HandlerReadBack
<1>2. CASE Queued(key)
  BY <1>1, <1>2 DEF OnItsWay, Queued
<1>3. CASE Announcing(key)
  <2>1. PICK g \in Handlers : Busy(g) /\ handler[g].key = key /\ handler[g].value = store[key]
    BY <1>3 DEF Announcing
  <2>2. Busy(g)' /\ handler'[g].key = key /\ handler'[g].value = store'[key]
    <3>1. CASE g = h
      BY <1>1, <2>1, <3>1 DEF HandlerReadBack, Busy, TypeOK
    <3>2. CASE g # h
      BY <1>1, <2>1, <3>2 DEF HandlerReadBack, Busy, TypeOK
    <3> QED
      BY <3>1, <3>2
  <2> QED
    BY <2>2 DEF OnItsWay, Announcing, Busy
<1> QED
  BY <1>2, <1>3 DEF OnItsWay

LEMMA QueueKeepsOnItsWay ==
    ASSUME TypeOK, NEW h \in Handlers, HandlerQueue(h),
           NEW key \in AllKeys, OnItsWay(key)
    PROVE  OnItsWay(key)'
<1>1. store' = store /\ queue' = Append(queue, handler[h].key) /\ queue \in Seq(Keys)
  BY DEF HandlerQueue, TypeOK
<1>2. handler[h].key \in Keys /\ handler[h].phase = "accepted"
  BY DEF HandlerQueue, Busy, TypeOK
<1>3. /\ Len(queue') = Len(queue) + 1 /\ Len(queue) \in Nat
      /\ queue'[Len(queue) + 1] = handler[h].key
      /\ \A n \in 1..Len(queue) : queue'[n] = queue[n]
  BY <1>1, <1>2
<1>4. CASE Queued(key)
  <2>1. PICK n \in 1..Len(queue) : queue[n] = key
    BY <1>4 DEF Queued
  <2>2. n \in 1..Len(queue')
    BY <1>3
  <2> QED
    BY <1>3, <2>1, <2>2 DEF OnItsWay, Queued
<1>5. CASE Announcing(key)
  <2>1. PICK g \in Handlers : Busy(g) /\ handler[g].key = key /\ handler[g].value = store[key]
    BY <1>5 DEF Announcing
  <2>2. CASE g = h
    <3>1. Len(queue) + 1 \in 1..Len(queue')
      BY <1>3
    <3> QED
      BY <1>3, <2>1, <2>2, <3>1 DEF OnItsWay, Queued
  <2>3. CASE g # h
    <3>1. handler'[g] = handler[g]
      BY <2>3 DEF HandlerQueue, TypeOK
    <3> QED
      BY <1>1, <2>1, <3>1 DEF OnItsWay, Announcing, Busy
  <2> QED
    BY <2>2, <2>3
<1> QED
  BY <1>4, <1>5 DEF OnItsWay

LEMMA SetKeepsNothingLost ==
    ASSUME TypeOK, NothingLost, NEW h \in Handlers, HandlerSet(h)
    PROVE  NothingLost'
<1>1. PICK k \in Keys : \E value \in Values(k) :
        /\ handler' = [handler EXCEPT ![h] = [phase |-> "set", key |-> k, value |-> value]]
        /\ store' = IF k \in Unregistered THEN store ELSE [store EXCEPT ![k] = value]
  BY DEF HandlerSet
<1>2. PICK v \in Values(k) :
        /\ handler' = [handler EXCEPT ![h] = [phase |-> "set", key |-> k, value |-> v]]
        /\ store' = IF k \in Unregistered THEN store ELSE [store EXCEPT ![k] = v]
  BY <1>1
<1>3. UNCHANGED <<queue, reading, cfg, simReady, simCfg>> /\ ~Busy(h)
  BY DEF HandlerSet, applied
<1>4. /\ handler'[h] = [phase |-> "set", key |-> k, value |-> v]
      /\ \A g \in Handlers : g # h => handler'[g] = handler[g]
  BY <1>2 DEF TypeOK
<1>5. Busy(h)' /\ handler'[h].key = k /\ handler'[h].value = v
  BY <1>4 DEF Busy
<1>6. k \in AllKeys /\ store \in Configs
  BY KeysAssumption DEF TypeOK
<1>7. \A key \in AllKeys : store'[key] = store[key] \/ (key = k /\ OnItsWay(key)')
  <2> SUFFICES ASSUME NEW key \in AllKeys, store'[key] # store[key]
               PROVE  key = k /\ OnItsWay(key)'
    OBVIOUS
  <2>1. key = k /\ store'[k] = v
    BY <1>2, <1>6 DEF Configs
  <2> QED
    BY <1>5, <2>1 DEF OnItsWay, Announcing, Busy
<1>8. \A key \in AllKeys : OnItsWay(key) => OnItsWay(key)'
  <2> SUFFICES ASSUME NEW key \in AllKeys, OnItsWay(key) PROVE OnItsWay(key)'
    OBVIOUS
  <2>1. CASE Queued(key)
    BY <1>3, <2>1 DEF OnItsWay, Queued
  <2>2. CASE Announcing(key) /\ store'[key] = store[key]
    <3>1. PICK g \in Handlers : Busy(g) /\ handler[g].key = key /\ handler[g].value = store[key]
      BY <2>2 DEF Announcing
    <3>2. handler'[g] = handler[g]
      BY <1>3, <1>4, <3>1
    <3> QED
      BY <2>2, <3>1, <3>2 DEF OnItsWay, Announcing, Busy
  <2> QED
    BY <1>7, <2>1, <2>2 DEF OnItsWay
<1>9. \A key \in AllKeys : (Seen(key) => Seen(key)' \/ OnItsWay(key)')
  BY <1>3, <1>7 DEF Seen, LoopIdle
<1>10. Knob \in AllKeys
  BY OrderFacts
<1>11. KnobSeen'
  BY <1>3, <1>7, <1>8, <1>10 DEF NothingLost, KnobSeen
<1> QED
  BY <1>8, <1>9, <1>11 DEF NothingLost

LEMMA TakeKeepsNothingLost ==
    ASSUME TypeOK, NothingLost, TakeEvent
    PROVE  NothingLost'
<1>1. /\ UNCHANGED <<store, handler, cfg, simReady, simCfg>>
      /\ reading' = [event |-> Head(queue), count |-> 0, got |-> cfg]
      /\ queue \in Seq(Keys) /\ queue # <<>> /\ queue' = Tail(queue)
  BY DEF TakeEvent, applied, TypeOK
<1>2. Head(queue) \in Keys /\ Head(queue) # ""
  <2>1. Head(queue) \in Keys
    BY <1>1
  <2> QED
    BY <2>1, OrderFacts, KeysAssumption
<1>3. ~LoopIdle' /\ reading'.count = 0
  BY <1>1, <1>2 DEF LoopIdle
<1>4. \A key \in AllKeys : Seen(key)'
  <2> SUFFICES ASSUME NEW key \in AllKeys PROVE Seen(key)'
    OBVIOUS
  <2>1. \E n \in 1..5 : KeyOrder[n] = key
    BY OrderFacts
  <2>2. \E n \in (reading'.count + 1)..Len(KeyOrder) : KeyOrder[n] = key
    BY <1>3, <2>1, OrderLength
  <2> QED
    BY <1>3, <2>2 DEF Seen
<1>5. KnobSeen'
  <2> SUFFICES ASSUME simReady, simCfg # store[Knob], reading'.event # Knob
               PROVE  OnItsWay(Knob)'
    BY <1>1 DEF KnobSeen
  <2>1. Head(queue) # Knob
    BY <1>1
  <2>2. OnItsWay(Knob)
    BY OrderFacts DEF NothingLost, KnobSeen, TakeEvent, LoopIdle
  <2>3. CASE Announcing(Knob)
    BY <1>1, <2>3 DEF OnItsWay, Announcing, Busy
  <2>4. CASE Queued(Knob)
    <3>1. PICK n \in 1..Len(queue) : queue[n] = Knob
      BY <2>4 DEF Queued
    <3>2. n # 1
      BY <1>1, <2>1, <3>1
    <3>3. n - 1 \in 1..Len(queue') /\ queue'[n - 1] = queue[n]
      BY <1>1, <3>1, <3>2
    <3> QED
      BY <3>1, <3>3 DEF OnItsWay, Queued
  <2> QED
    BY <2>2, <2>3, <2>4 DEF OnItsWay
<1> QED
  BY <1>4, <1>5 DEF NothingLost

LEMMA ReadKeepsNothingLost ==
    ASSUME TypeOK, NothingLost, ReadKey
    PROVE  NothingLost'
<1> DEFINE k == KeyOrder[reading.count + 1]
<1>1. /\ UNCHANGED <<store, handler, queue, cfg, simReady, simCfg>>
      /\ ~LoopIdle
      /\ reading' = [event |-> reading.event, count |-> reading.count + 1,
                     got |-> [reading.got EXCEPT ![k] = store[k]]]
  BY DEF ReadKey, applied, web
<1>2. \A key \in AllKeys : OnItsWay(key) => OnItsWay(key)'
  BY <1>1 DEF OnItsWay, Queued, Announcing, Busy
<1>3. reading.count \in 0..5 /\ reading.got \in Configs
  BY ReadingTypes
<1>4. reading'.event = reading.event /\ reading'.count = reading.count + 1
  BY <1>1
<1>5. \A key \in AllKeys : Seen(key) => Seen(key)'
  <2> SUFFICES ASSUME NEW key \in AllKeys, Seen(key) PROVE Seen(key)'
    OBVIOUS
  <2>1. ~LoopIdle'
    BY <1>1, <1>4 DEF LoopIdle
  <2>2. reading'.got[key] = IF key = k THEN store[key] ELSE reading.got[key]
    BY <1>1, <1>3 DEF Configs
  <2> HIDE DEF k
  <2>3. CASE key = k
    BY <1>1, <2>1, <2>2, <2>3 DEF Seen
  <2>4. CASE key # k /\ \E n \in (reading.count + 1)..Len(KeyOrder) : KeyOrder[n] = key
    <3>1. PICK n \in (reading.count + 1)..Len(KeyOrder) : KeyOrder[n] = key
      BY <2>4
    <3>2. n # reading.count + 1
      BY <2>4, <3>1 DEF k
    <3>3. n \in (reading'.count + 1)..Len(KeyOrder)
      BY <1>3, <1>4, <3>1, <3>2, OrderLength
    <3> QED
      BY <2>1, <3>1, <3>3 DEF Seen
  <2>5. CASE key # k /\ reading.got[key] = store[key]
    BY <1>1, <2>1, <2>2, <2>5 DEF Seen
  <2> QED
    BY <1>1, <2>3, <2>4, <2>5 DEF Seen
<1>6. KnobSeen'
  BY <1>1, <1>2, <1>4, OrderFacts DEF NothingLost, KnobSeen
<1> QED
  BY <1>2, <1>5, <1>6 DEF NothingLost

LEMMA ApplyKeepsNothingLost ==
    ASSUME TypeOK, NothingLost, ApplyConfigChange
    PROVE  NothingLost'
<1>1. /\ UNCHANGED <<store, handler, queue, simReady>> /\ ~LoopIdle
      /\ cfg' = reading.got /\ LoopIdle'
      /\ reading.count = Len(KeyOrder)
  BY DEF ApplyConfigChange, web, LoopIdle
<1>2. \A key \in AllKeys : OnItsWay(key) => OnItsWay(key)'
  BY <1>1 DEF OnItsWay, Queued, Announcing, Busy
<1>3. \A key \in AllKeys : reading.got[key] = store[key] \/ OnItsWay(key)
  <2> SUFFICES ASSUME NEW key \in AllKeys, Seen(key) PROVE reading.got[key] = store[key]
    BY DEF NothingLost
  <2>1. (reading.count + 1)..Len(KeyOrder) = {}
    BY <1>1, OrderLength
  <2> QED
    BY <1>1, <2>1 DEF Seen
<1>4. \A key \in AllKeys : Seen(key)' \/ OnItsWay(key)'
  BY <1>1, <1>2, <1>3 DEF Seen
<1>5. KnobSeen'
  <2> SUFFICES ASSUME simReady PROVE simCfg' = store[Knob] \/ OnItsWay(Knob)'
    BY <1>1 DEF KnobSeen
  <2>1. simCfg' = IF reading.event = Knob THEN reading.got[Knob] ELSE simCfg
    BY DEF ApplyConfigChange, LiveApply, SimCfgApplied, Knob
  <2>2. Knob \in AllKeys
    BY OrderFacts
  <2> QED
    BY <1>2, <1>3, <2>1, <2>2 DEF NothingLost, KnobSeen
<1> QED
  BY <1>4, <1>5 DEF NothingLost

(* NothingLost is inductive: a value the game loop lacks is in a queued event's *)
(* key, or in the hands of a request that will read it back and queue one.      *)
THEOREM ConfigNothingLost == Spec => []NothingLost
<1>1. Init => NothingLost
  <2> SUFFICES ASSUME Init PROVE NothingLost
    OBVIOUS
  <2>1. LoopIdle /\ cfg = store /\ ~simReady
    BY DEF Init, LoopIdle
  <2> QED
    BY <2>1 DEF NothingLost, Seen, KnobSeen
<1>2. TypeOK /\ NothingLost /\ [Next]_vars => NothingLost'
  <2> SUFFICES ASSUME TypeOK, NothingLost, [Next]_vars PROVE NothingLost'
    OBVIOUS
  <2> DEFINE Calm == UNCHANGED <<store, handler, queue, reading, cfg>>
  <2>1. ASSUME Calm, UNCHANGED <<simReady, simCfg>> PROVE NothingLost'
    BY <2>1 DEF NothingLost, Seen, LoopIdle, KnobSeen, OnItsWay, Queued, Announcing, Busy
  <2>2. ASSUME NEW h \in Handlers, HandlerSet(h) PROVE NothingLost'
    BY <2>2, SetKeepsNothingLost
  <2>3. ASSUME NEW h \in Handlers, Handle(h) PROVE NothingLost'
    <3>1. \A key \in AllKeys : OnItsWay(key) => OnItsWay(key)'
      BY <2>3, BusyKeepsAnnouncing, QueueKeepsOnItsWay DEF Handle, HandlerReadBack
    <3>2. UNCHANGED <<store, reading, cfg, simReady, simCfg>>
      BY <2>3 DEF Handle, HandlerReadBack, HandlerQueue, applied
    <3>3. \A key \in AllKeys : Seen(key) => Seen(key)'
      BY <3>2 DEF Seen, LoopIdle
    <3> QED
      BY <3>1, <3>2, <3>3, OrderFacts DEF NothingLost, KnobSeen
  <2>4. CASE StartSim
    <3>1. Calm /\ LoopIdle /\ simCfg' = cfg[Knob]
      BY <2>4 DEF StartSim, web, Knob
    <3>2. \A key \in AllKeys : (Seen(key) => Seen(key)') /\ (OnItsWay(key) => OnItsWay(key)')
      BY <3>1 DEF Seen, LoopIdle, OnItsWay, Queued, Announcing, Busy
    <3>3. simCfg' = store'[Knob] \/ OnItsWay(Knob)'
      BY <3>1, <3>2, OrderFacts DEF NothingLost, Seen
    <3> QED
      BY <3>2, <3>3 DEF NothingLost, KnobSeen
  <2>5. CASE TakeEvent
    BY <2>5, TakeKeepsNothingLost
  <2>6. CASE ReadKey
    BY <2>6, ReadKeepsNothingLost
  <2>7. CASE ApplyConfigChange
    BY <2>7, ApplyKeepsNothingLost
  <2>8. CASE Tick
    BY <2>1, <2>8 DEF Tick, web
  <2>9. CASE Decay
    BY <2>1, <2>9 DEF Decay, web
  <2>10. CASE Walk \/ OnRoomChange
    BY <2>1, <2>10 DEF Walk, OnRoomChange, web, applied
  <2>11. CASE UNCHANGED vars
    BY <2>1, <2>11 DEF vars, web, applied
  <2> QED
    BY <2>2, <2>3, <2>4, <2>5, <2>6, <2>7, <2>8, <2>9, <2>10, <2>11 DEF Next, Loop
<1> QED
  BY <1>1, <1>2, ConfigTypeCorrect, PTL DEF Spec

LEMMA QuietMeansSeen ==
    ASSUME TypeOK, NothingLost, Quiet, NEW key \in AllKeys
    PROVE  cfg[key] = store[key] /\ ~OnItsWay(key)
<1>1. ~Announcing(key)
  BY DEF Quiet, Announcing
<1>2. ~Queued(key)
  BY DEF Quiet, Queued
<1> QED
  BY <1>1, <1>2 DEF Quiet, NothingLost, Seen, OnItsWay

(* Once the last event is handled the game loop runs what the store holds: no *)
(* accepted write is lost by the key-by-key re-read or a lost read-back race.  *)
THEOREM NoWriteLost == Spec => []AdoptedWhenQuiet
<1>1. TypeOK /\ NothingLost => AdoptedWhenQuiet
  <2> SUFFICES ASSUME TypeOK, NothingLost, Quiet PROVE cfg = store
    BY DEF AdoptedWhenQuiet
  <2>1. \A key \in AllKeys : cfg[key] = store[key]
    BY QuietMeansSeen
  <2>2. cfg \in [AllKeys -> AnyValue] /\ store \in [AllKeys -> AnyValue]
    BY DEF TypeOK, Configs
  <2> QED
    BY <2>1, <2>2
<1> QED
  BY <1>1, ConfigTypeCorrect, ConfigNothingLost, PTL

(* The simulation's knobs are the adopted config's once the last event is     *)
(* handled: an applier that rebuilds simCfg unconditionally misses nothing.    *)
THEOREM KnobsFollow == Spec => []KnobsFollowConfig
<1>1. TypeOK /\ NothingLost => KnobsFollowConfig
  <2> SUFFICES ASSUME TypeOK, NothingLost, simReady, Quiet PROVE simCfg = cfg[Knob]
    BY DEF KnobsFollowConfig, Knob
  <2>1. cfg[Knob] = store[Knob] /\ ~OnItsWay(Knob)
    BY QuietMeansSeen, OrderFacts
  <2>2. reading.event # Knob
    BY OrderFacts DEF Quiet, LoopIdle
  <2> QED
    BY <2>1, <2>2 DEF NothingLost, KnobSeen
<1> QED
  BY <1>1, ConfigTypeCorrect, ConfigNothingLost, PTL

-----------------------------------------------------------------------------
(* Saves made one after the other: a single save is under way, the game loop's *)
(* config and the store differ at its key at most, and so do the config being  *)
(* read and the adopted one; what runs is then what the adopted config says.   *)

Alone ==
    /\ \A g, h \in Handlers : Busy(g) /\ Busy(h) => g = h
    /\ \A h \in Handlers : Busy(h) => queue = <<>> /\ LoopIdle
    /\ queue # <<>> => LoopIdle /\ Len(queue) = 1

UnderWay(key) ==
    \/ \E h \in Handlers : Busy(h) /\ handler[h].key = key /\ handler[h].value = store[key]
    \/ queue # <<>> /\ Head(queue) = key
    \/ reading.event = key

DiffersAtItsKey == \A key \in AllKeys : cfg[key] = store[key] \/ UnderWay(key)

ReadsItsKey ==
    ~LoopIdle => \A key \in AllKeys : key = reading.event \/ reading.got[key] = cfg[key]

RunsConfig ==
    /\ simReady => /\ seasonsOn = SeasonsLoaded(cfg)
                   /\ cfg["BuffsEnabled"] = "false" => stripped
    /\ zonesCarry => simReady /\ cfg["PerRoomRefinement"] = "off"

OneAtATime == ~overlapped => Alone /\ DiffersAtItsKey /\ ReadsItsKey /\ RunsConfig

LEMMA NothingPending ==
    ASSUME TypeOK, ~(Pending > 0)
    PROVE  LoopIdle /\ queue = <<>> /\ \A h \in Handlers : ~Busy(h)
<1> DEFINE busy == {h \in Handlers : Busy(h)}
<1>1. IsFiniteSet(busy)
  BY HandlersAssumption, FS_Subset
<1>2. Cardinality(busy) \in Nat
  BY <1>1, FS_CardinalityType
<1>3. queue \in Seq(Keys) /\ Len(queue) \in Nat
  <2>1. queue \in Seq(Keys)
    BY DEF TypeOK
  <2> QED
    BY <2>1
<1> DEFINE n == Cardinality(busy)
           loop == IF LoopIdle THEN 0 ELSE 1
<1>4. Pending = n + Len(queue) + loop
  BY DEF Pending
<1>5. loop \in {0, 1} /\ n \in Nat
  BY <1>2
<1> HIDE DEF n, loop
<1>6. n = 0 /\ Len(queue) = 0 /\ loop = 0
  BY <1>3, <1>4, <1>5
<1>7. LoopIdle
  BY <1>6 DEF loop
<1>8. busy = {}
  BY <1>1, <1>6, FS_EmptySet DEF n
<1>9. queue = <<>>
  BY <1>3, <1>6
<1> QED
  BY <1>7, <1>8, <1>9

LEMMA SetIsAlone ==
    ASSUME TypeOK, OneAtATime, NEW h \in Handlers, HandlerSet(h)
    PROVE  OneAtATime'
<1> SUFFICES ASSUME ~overlapped'
             PROVE  (Alone /\ DiffersAtItsKey /\ ReadsItsKey /\ RunsConfig)'
  BY DEF OneAtATime
<1>1. ~overlapped /\ ~(Pending > 0)
  <2>1. overlapped' = (overlapped \/ Pending > 0)
    BY DEF HandlerSet
  <2> QED
    BY <2>1 DEF TypeOK
<1>2. LoopIdle /\ queue = <<>> /\ \A g \in Handlers : ~Busy(g)
  BY <1>1, NothingPending
<1>3. Alone /\ DiffersAtItsKey /\ ReadsItsKey /\ RunsConfig
  BY <1>1 DEF OneAtATime
<1>4. PICK k \in Keys : \E v \in Values(k) :
        /\ handler' = [handler EXCEPT ![h] = [phase |-> "set", key |-> k, value |-> v]]
        /\ store' = IF k \in Unregistered THEN store ELSE [store EXCEPT ![k] = v]
  BY DEF HandlerSet
<1>5. PICK v \in Values(k) :
        /\ handler' = [handler EXCEPT ![h] = [phase |-> "set", key |-> k, value |-> v]]
        /\ store' = IF k \in Unregistered THEN store ELSE [store EXCEPT ![k] = v]
  BY <1>4
<1>6. UNCHANGED <<queue, reading, cfg, simReady, seasonsOn, stripped, zonesCarry>>
  BY DEF HandlerSet, applied
<1>7. /\ handler'[h] = [phase |-> "set", key |-> k, value |-> v]
      /\ \A g \in Handlers : g # h => handler'[g] = handler[g]
  BY <1>5 DEF TypeOK
<1>8. Alone'
  BY <1>2, <1>6, <1>7 DEF Alone, Busy, LoopIdle
<1>9. DiffersAtItsKey'
  <2> SUFFICES ASSUME NEW key \in AllKeys, cfg'[key] # store'[key] PROVE UnderWay(key)'
    BY DEF DiffersAtItsKey
  <2>1. reading.event = "" /\ key # ""
    BY <1>2, OrderFacts DEF LoopIdle
  <2>2. ~UnderWay(key)
    BY <1>2, <2>1 DEF UnderWay
  <2>3. cfg[key] = store[key]
    BY <1>3, <2>2 DEF DiffersAtItsKey
  <2>4. key = k /\ store'[key] = v
    BY <1>5, <1>6, <2>3, KeysAssumption DEF TypeOK, Configs
  <2>5. Busy(h)' /\ handler'[h].key = k /\ handler'[h].value = v
    BY <1>7 DEF Busy
  <2> QED
    BY <2>4, <2>5 DEF UnderWay, Busy
<1>10. ReadsItsKey' /\ RunsConfig'
  BY <1>3, <1>6 DEF ReadsItsKey, RunsConfig, LoopIdle
<1> QED
  BY <1>8, <1>9, <1>10

LEMMA HandleIsAlone ==
    ASSUME TypeOK, OneAtATime, NEW h \in Handlers, Handle(h)
    PROVE  OneAtATime'
<1>1. UNCHANGED <<store, overlapped, reading, cfg, simReady, seasonsOn, stripped, zonesCarry>>
  BY DEF Handle, HandlerReadBack, HandlerQueue, applied
<1> SUFFICES ASSUME ~overlapped
             PROVE  (Alone /\ DiffersAtItsKey /\ ReadsItsKey /\ RunsConfig)'
  BY <1>1 DEF OneAtATime
<1>2. Alone /\ DiffersAtItsKey /\ ReadsItsKey /\ RunsConfig
  BY DEF OneAtATime
<1>3. Busy(h) /\ \A g \in Handlers : g # h => handler'[g] = handler[g]
  BY HandleFrees
<1>4. queue = <<>> /\ LoopIdle /\ \A g \in Handlers : g # h => ~Busy(g)
  BY <1>2, <1>3 DEF Alone
<1>5. ReadsItsKey' /\ RunsConfig'
  BY <1>1, <1>2 DEF ReadsItsKey, RunsConfig, LoopIdle
<1>6. CASE HandlerReadBack(h)
  <2>1. queue' = queue
    BY <1>6 DEF HandlerReadBack
  <2>2. Alone'
    BY <1>1, <1>3, <1>4, <2>1 DEF Alone, Busy, LoopIdle
  <2>3. DiffersAtItsKey'
    <3> SUFFICES ASSUME NEW key \in AllKeys, cfg[key] # store[key] PROVE UnderWay(key)'
      BY <1>1 DEF DiffersAtItsKey
    <3>1. UnderWay(key)
      BY <1>2 DEF DiffersAtItsKey
    <3>2. reading.event # key
      BY <1>4, OrderFacts DEF LoopIdle
    <3>3. handler[h].key = key /\ handler[h].value = store[key]
      BY <1>4, <3>1, <3>2 DEF UnderWay
    <3>4. Busy(h)' /\ handler'[h].key = key /\ handler'[h].value = store'[key]
      BY <1>1, <1>6, <3>3 DEF HandlerReadBack, Busy, TypeOK
    <3> QED
      BY <3>4 DEF UnderWay, Busy
  <2> QED
    BY <1>5, <2>2, <2>3
<1>7. CASE HandlerQueue(h)
  <2>1. queue' = <<handler[h].key>>
    <3>1. queue' = Append(<<>>, handler[h].key)
      BY <1>4, <1>7 DEF HandlerQueue
    <3> QED
      BY <3>1
  <2>2. ~Busy(h)'
    BY <1>7 DEF HandlerQueue, Busy, Free, TypeOK
  <2>3. \A g \in Handlers : ~Busy(g)'
    BY <1>3, <1>4, <2>2 DEF Busy
  <2>4. Alone'
    <3>1. LoopIdle'
      BY <1>1, <1>4 DEF LoopIdle
    <3> QED
      BY <2>1, <2>3, <3>1 DEF Alone, Busy
  <2>5. DiffersAtItsKey'
    <3> SUFFICES ASSUME NEW key \in AllKeys, cfg[key] # store[key] PROVE UnderWay(key)'
      BY <1>1 DEF DiffersAtItsKey
    <3>1. UnderWay(key)
      BY <1>2 DEF DiffersAtItsKey
    <3>2. reading.event # key
      BY <1>4, OrderFacts DEF LoopIdle
    <3>3. handler[h].key = key
      BY <1>4, <3>1, <3>2 DEF UnderWay
    <3> QED
      BY <2>1, <3>3 DEF UnderWay
  <2> QED
    BY <1>5, <2>4, <2>5
<1> QED
  BY <1>6, <1>7 DEF Handle

LEMMA StartRunsConfig ==
    ASSUME TypeOK, OneAtATime, StartSim
    PROVE  OneAtATime'
<1>1. UNCHANGED <<store, queue, handler, overlapped, reading, cfg>> /\ simReady'
  BY DEF StartSim, web
<1>2. RunsConfig' \/ overlapped
  <2> SUFFICES ASSUME ~overlapped PROVE RunsConfig'
    OBVIOUS
  <2>1. ApplyWeather(cfg) /\ cfg \in Configs
    BY DEF StartSim, TypeOK
  <2>2. seasonsOn' = SeasonsLoaded(cfg)
    BY DEF StartSim
  <2>3. stripped' = (stripped \/ cfg["BuffsEnabled"] = "false")
    BY DEF StartSim
  <2>4. cfg["BuffsEnabled"] = "false" => stripped'
    BY <2>3 DEF TypeOK
  <2>5. zonesCarry' => cfg["PerRoomRefinement"] = "off"
    BY <2>1, WeatherIsAsserted
  <2>6. SeasonsLoaded(cfg)' = SeasonsLoaded(cfg)
    BY <1>1 DEF SeasonsLoaded
  <2> QED
    BY <1>1, <2>2, <2>4, <2>5, <2>6 DEF RunsConfig
<1> QED
  BY <1>1, <1>2 DEF OneAtATime, Alone, DiffersAtItsKey, UnderWay, ReadsItsKey, Busy, LoopIdle

LEMMA TakeIsAlone ==
    ASSUME TypeOK, OneAtATime, TakeEvent
    PROVE  OneAtATime'
<1>1. /\ UNCHANGED <<store, handler, overlapped, cfg, simReady, seasonsOn, stripped, zonesCarry>>
      /\ reading' = [event |-> Head(queue), count |-> 0, got |-> cfg]
      /\ queue \in Seq(Keys) /\ queue # <<>> /\ queue' = Tail(queue)
      /\ LoopIdle
  BY DEF TakeEvent, applied, TypeOK
<1> SUFFICES ASSUME ~overlapped
             PROVE  (Alone /\ DiffersAtItsKey /\ ReadsItsKey /\ RunsConfig)'
  BY <1>1 DEF OneAtATime
<1>2. Alone /\ DiffersAtItsKey /\ RunsConfig
  BY DEF OneAtATime
<1>3. queue' = <<>> /\ \A h \in Handlers : ~Busy(h)
  <2>1. Len(queue) = 1 /\ \A h \in Handlers : ~Busy(h)
    BY <1>1, <1>2 DEF Alone
  <2> QED
    BY <1>1, <2>1
<1>4. reading'.event = Head(queue) /\ reading'.got = cfg
  BY <1>1
<1>5. Alone'
  BY <1>1, <1>3 DEF Alone, Busy
<1>6. DiffersAtItsKey'
  <2> SUFFICES ASSUME NEW key \in AllKeys, cfg[key] # store[key] PROVE UnderWay(key)'
    BY <1>1 DEF DiffersAtItsKey
  <2>1. UnderWay(key)
    BY <1>2 DEF DiffersAtItsKey
  <2>2. Head(queue) = key
    BY <1>1, <1>3, <2>1, OrderFacts DEF UnderWay, LoopIdle
  <2> QED
    BY <1>4, <2>2 DEF UnderWay
<1>7. ReadsItsKey'
  BY <1>1, <1>4 DEF ReadsItsKey
<1>8. RunsConfig'
  BY <1>1, <1>2 DEF RunsConfig
<1> QED
  BY <1>5, <1>6, <1>7, <1>8

LEMMA ReadIsAlone ==
    ASSUME TypeOK, OneAtATime, ReadKey
    PROVE  OneAtATime'
<1> DEFINE k == KeyOrder[reading.count + 1]
<1>1. /\ UNCHANGED <<store, handler, queue, overlapped, cfg, simReady, seasonsOn, stripped, zonesCarry>>
      /\ ~LoopIdle
      /\ reading' = [event |-> reading.event, count |-> reading.count + 1,
                     got |-> [reading.got EXCEPT ![k] = store[k]]]
  BY DEF ReadKey, applied, web
<1> SUFFICES ASSUME ~overlapped
             PROVE  (Alone /\ DiffersAtItsKey /\ ReadsItsKey /\ RunsConfig)'
  BY <1>1 DEF OneAtATime
<1>2. Alone /\ DiffersAtItsKey /\ ReadsItsKey /\ RunsConfig
  BY DEF OneAtATime
<1>3. reading'.event = reading.event /\ reading'.got = [reading.got EXCEPT ![k] = store[k]]
  BY <1>1
<1>4. queue = <<>> /\ \A h \in Handlers : ~Busy(h)
  BY <1>1, <1>2 DEF Alone
<1>5. Alone' /\ RunsConfig'
  BY <1>1, <1>2, <1>4 DEF Alone, RunsConfig, Busy
<1>6. DiffersAtItsKey'
  BY <1>1, <1>2, <1>3 DEF DiffersAtItsKey, UnderWay, Busy
<1>7. ReadsItsKey'
  <2> SUFFICES ASSUME NEW key \in AllKeys, key # reading.event PROVE reading'.got[key] = cfg[key]
    BY <1>1, <1>3 DEF ReadsItsKey
  <2>1. reading.got[key] = cfg[key]
    BY <1>1, <1>2 DEF ReadsItsKey
  <2>2. cfg[key] = store[key]
    BY <1>2, <1>4 DEF DiffersAtItsKey, UnderWay
  <2>3. reading'.got[key] = IF key = k THEN store[key] ELSE reading.got[key]
    BY <1>3, ReadingTypes DEF Configs
  <2> QED
    BY <2>1, <2>2, <2>3
<1> QED
  BY <1>5, <1>6, <1>7

LEMMA ApplyRunsConfig ==
    ASSUME TypeOK, OneAtATime, NothingLost, ApplyConfigChange
    PROVE  OneAtATime'
<1>1. /\ UNCHANGED <<store, handler, queue, overlapped, simReady>>
      /\ ~LoopIdle /\ LoopIdle' /\ cfg' = reading.got
  BY DEF ApplyConfigChange, web, LoopIdle
<1> SUFFICES ASSUME ~overlapped
             PROVE  (Alone /\ DiffersAtItsKey /\ ReadsItsKey /\ RunsConfig)'
  BY <1>1 DEF OneAtATime
<1>2. Alone /\ ReadsItsKey /\ RunsConfig
  BY DEF OneAtATime
<1>3. queue = <<>> /\ \A h \in Handlers : ~Busy(h)
  BY <1>1, <1>2 DEF Alone
<1>4. Alone' /\ ReadsItsKey'
  BY <1>1, <1>3 DEF Alone, ReadsItsKey, Busy
<1>5. DiffersAtItsKey'
  <2> SUFFICES ASSUME NEW key \in AllKeys PROVE cfg'[key] = store'[key]
    BY DEF DiffersAtItsKey
  <2>1. ~OnItsWay(key)
    BY <1>3 DEF OnItsWay, Queued, Announcing
  <2>2. NothingLost'
    BY ApplyKeepsNothingLost
  <2>3. ~OnItsWay(key)'
    BY <1>1, <2>1 DEF OnItsWay, Queued, Announcing, Busy
  <2> QED
    BY <1>1, <2>2, <2>3 DEF NothingLost, Seen
<1>6. \A key \in AllKeys : key = reading.event \/ cfg'[key] = cfg[key]
  BY <1>1, <1>2 DEF ReadsItsKey
<1>7. RunsConfig'
  <2>1. CASE ~simReady
    <3>1. UNCHANGED <<seasonsOn, stripped, zonesCarry>>
      BY <2>1 DEF ApplyConfigChange, applied
    <3> QED
      BY <1>1, <1>2, <2>1, <3>1 DEF RunsConfig
  <2>2. CASE simReady
    <3> DEFINE e == reading.event
    <3>1. /\ BuffsApplied(e, cfg, cfg') /\ SeasonsApplied(e, cfg, cfg')
          /\ RefinementApplied(e, cfg, cfg')
      BY <2>2, <1>1 DEF ApplyConfigChange, LiveApply
    <3>2. seasonsOn' = SeasonsLoaded(cfg)'
      <4>1. CASE e = "SeasonsEnabled" /\ cfg[e] # cfg'[e]
        BY <3>1, <4>1 DEF SeasonsApplied, SeasonsLoaded
      <4>2. CASE ~(e = "SeasonsEnabled" /\ cfg[e] # cfg'[e])
        <5>1. cfg'["SeasonsEnabled"] = cfg["SeasonsEnabled"]
          BY <1>6, <4>2, LiveKeysExist
        <5> QED
          BY <1>2, <2>2, <3>1, <4>2, <5>1 DEF SeasonsApplied, SeasonsLoaded, RunsConfig
      <4> QED
        BY <4>1, <4>2
    <3>3. cfg'["BuffsEnabled"] = "false" => stripped'
      <4> SUFFICES ASSUME cfg'["BuffsEnabled"] = "false" PROVE stripped'
        OBVIOUS
      <4>1. stripped' = (stripped \/ /\ e = "BuffsEnabled"
                                     /\ cfg[e] = "true" /\ cfg'[e] = "false")
        BY <3>1 DEF BuffsApplied
      <4>2. CASE cfg["BuffsEnabled"] = "false"
        <5>1. stripped
          BY <1>2, <2>2, <4>2 DEF RunsConfig
        <5> QED
          BY <4>1, <5>1
      <4>3. CASE cfg["BuffsEnabled"] # "false"
        <5>1. e = "BuffsEnabled"
          BY <1>6, <4>3, LiveKeysExist
        <5>2. cfg["BuffsEnabled"] \in Values("BuffsEnabled")
          BY LiveKeysExist DEF TypeOK, Configs
        <5>3. cfg["BuffsEnabled"] = "true"
          BY <4>3, <5>2 DEF Values
        <5> QED
          BY <4>1, <5>1, <5>3
      <4> QED
        BY <4>2, <4>3
    <3>4. zonesCarry' => cfg'["PerRoomRefinement"] = "off"
      <4>1. CASE e # "PerRoomRefinement" \/ cfg[e] = cfg'[e]
        <5>1. cfg'["PerRoomRefinement"] = cfg["PerRoomRefinement"]
          BY <1>6, <4>1, LiveKeysExist
        <5> QED
          BY <1>2, <3>1, <4>1, <5>1 DEF RefinementApplied, RunsConfig
      <4>2. CASE e = "PerRoomRefinement" /\ cfg[e] # cfg'[e] /\ cfg'[e] # "off"
        <5>1. ApplyWeather(cfg') /\ cfg' \in Configs
          BY <1>1, <3>1, <4>2, ReadingTypes DEF RefinementApplied
        <5> QED
          BY <5>1, WeatherIsAsserted
      <4> QED
        BY <4>1, <4>2
    <3> QED
      BY <1>1, <2>2, <3>2, <3>3, <3>4 DEF RunsConfig
  <2> QED
    BY <2>1, <2>2
<1> QED
  BY <1>4, <1>5, <1>7

LEMMA LayersRunConfig ==
    ASSUME TypeOK, OneAtATime, Tick \/ Decay \/ Walk \/ OnRoomChange
    PROVE  OneAtATime'
<1>1. UNCHANGED <<store, queue, handler, overlapped, reading, cfg, simReady, seasonsOn, stripped>>
  BY DEF Tick, Decay, Walk, OnRoomChange, web, applied
<1>2. RunsConfig => RunsConfig'
  <2>1. zonesCarry' => zonesCarry \/ (simReady /\ cfg["PerRoomRefinement"] = "off")
    <3>1. CASE Tick
      BY <3>1, WeatherIsAsserted DEF Tick, TypeOK
    <3>2. CASE Decay \/ Walk \/ OnRoomChange
      BY <3>2 DEF Decay, Walk, OnRoomChange, TypeOK, applied
    <3> QED
      BY <3>1, <3>2
  <2> QED
    BY <1>1, <2>1 DEF RunsConfig, SeasonsLoaded
<1> QED
  BY <1>1, <1>2 DEF OneAtATime, Alone, DiffersAtItsKey, UnderWay, ReadsItsKey, Busy, LoopIdle

(* OneAtATime is inductive: as long as every save began with nothing pending,  *)
(* whatever the keys, the event's difference is the whole difference.          *)
THEOREM ConfigOneAtATime == Spec => []OneAtATime
<1>1. Init => OneAtATime
  <2> SUFFICES ASSUME Init PROVE OneAtATime
    OBVIOUS
  <2>1. \A h \in Handlers : ~Busy(h)
    BY DEF Init, Free, Busy
  <2> QED
    BY <2>1 DEF Init, OneAtATime, Alone, DiffersAtItsKey, ReadsItsKey, RunsConfig, LoopIdle
<1>2. TypeOK /\ NothingLost /\ OneAtATime /\ [Next]_vars => OneAtATime'
  <2> SUFFICES ASSUME TypeOK, NothingLost, OneAtATime, [Next]_vars PROVE OneAtATime'
    OBVIOUS
  <2>1. CASE UNCHANGED vars
    BY <2>1 DEF vars, web, applied, OneAtATime, Alone, DiffersAtItsKey, UnderWay, ReadsItsKey,
                RunsConfig, Busy, LoopIdle
  <2> QED
    BY <2>1, SetIsAlone, HandleIsAlone, StartRunsConfig, TakeIsAlone, ReadIsAlone,
       ApplyRunsConfig, LayersRunConfig DEF Next, Loop
<1> QED
  BY <1>1, <1>2, ConfigTypeCorrect, ConfigNothingLost, PTL DEF Spec

(* The badges "live" of SeasonsEnabled and "live to disable" of BuffsEnabled   *)
(* keep their promise for saves made one after the other.                      *)
THEOREM SerialSavesKeepTheirPromise == Spec => []SerialSavesApply
<1>1. OneAtATime => SerialSavesApply
  BY DEF OneAtATime, RunsConfig, SerialSavesApply, SeasonsFollowConfig
<1> QED
  BY <1>1, ConfigOneAtATime, PTL

(* As long as saves come one after the other, zones carry weather only while  *)
(* refinement is off, no room is coated then, and the save that turns it off   *)
(* bares every room with players, whatever strays the other rooms still wear.  *)
THEOREM OneLayer == Spec => OneLayerAsserted
<1>1. TypeOK /\ OneAtATime /\ OneAtATime' /\ [Next]_vars
        => [~overlapped' /\ zonesCarry' =>
              /\ cfg'["PerRoomRefinement"] = "off"
              /\ coated' \subseteq coated
              /\ cfg["PerRoomRefinement"] # "off" => coated' \cap occupied' = {}]_vars
  <2> SUFFICES ASSUME TypeOK, OneAtATime, OneAtATime', Next, ~overlapped', zonesCarry'
               PROVE  /\ cfg'["PerRoomRefinement"] = "off"
                      /\ coated' \subseteq coated
                      /\ cfg["PerRoomRefinement"] # "off" => coated' \cap occupied' = {}
    OBVIOUS
  <2>1. cfg'["PerRoomRefinement"] = "off" /\ simReady'
    BY DEF OneAtATime, RunsConfig
  <2>2. ASSUME cfg' = cfg, coated' \subseteq coated
        PROVE  coated' \subseteq coated
               /\ (cfg["PerRoomRefinement"] # "off" => coated' \cap occupied' = {})
    BY <2>1, <2>2
  <2>3. ASSUME NEW h \in Handlers, HandlerSet(h) \/ Handle(h)
        PROVE  cfg' = cfg /\ coated' \subseteq coated
    BY <2>3 DEF HandlerSet, Handle, HandlerReadBack, HandlerQueue, applied
  <2>4. CASE StartSim \/ Tick
    <3>1. cfg' = cfg /\ ApplyWeather(cfg)
      BY <2>4 DEF StartSim, Tick
    <3>2. coated' = coated
      BY <2>1, <3>1, WeatherIsAsserted DEF TypeOK
    <3> QED
      BY <2>1, <2>2, <3>1, <3>2
  <2>5. CASE TakeEvent \/ ReadKey \/ Decay \/ Walk
    <3>1. cfg' = cfg /\ coated' \subseteq coated
      BY <2>5 DEF TakeEvent, ReadKey, Decay, Walk, applied
    <3> QED
      BY <2>1, <2>2, <3>1
  <2>6. CASE OnRoomChange
    BY <2>1, <2>6 DEF OnRoomChange
  <2>7. CASE ApplyConfigChange
    <3> DEFINE e == reading.event
    <3>1. /\ ~LoopIdle /\ cfg' = reading.got /\ overlapped' = overlapped
          /\ simReady' = simReady /\ occupied' = occupied
      BY <2>7 DEF ApplyConfigChange, web
    <3>2. RefinementApplied(e, cfg, cfg')
      <4>1. simReady
        BY <2>1, <3>1
      <4>2. LiveApply(reading.event, cfg, reading.got)
        BY <2>7, <4>1 DEF ApplyConfigChange
      <4> QED
        BY <3>1, <4>2 DEF LiveApply
    <3>3. "PerRoomRefinement" = e \/ cfg'["PerRoomRefinement"] = cfg["PerRoomRefinement"]
      BY <3>1, LiveKeysExist DEF OneAtATime, ReadsItsKey
    <3>4. CASE e # "PerRoomRefinement" \/ cfg[e] = cfg'[e]
      <4>1. coated' = coated
        BY <3>2, <3>4 DEF RefinementApplied
      <4>2. cfg["PerRoomRefinement"] = "off"
        BY <2>1, <3>3, <3>4
      <4> QED
        BY <2>1, <4>1, <4>2
    <3>5. CASE e = "PerRoomRefinement" /\ cfg[e] # cfg'[e]
      <4>1. coated' = coated \ occupied
        BY <2>1, <3>2, <3>5 DEF RefinementApplied
      <4> QED
        BY <2>1, <3>1, <4>1
    <3> QED
      BY <3>4, <3>5
  <2> QED
    BY <2>1, <2>2, <2>3, <2>4, <2>5, <2>6, <2>7 DEF Next, Loop
<1> QED
  BY <1>1, ConfigTypeCorrect, ConfigOneAtATime, PTL DEF Spec, OneLayerAsserted

-----------------------------------------------------------------------------
(* How much is under way: writes not read back, saves without an event,        *)
(* events, keys to read and the adoption that follows, and the start.          *)

Unread == {h \in Handlers : handler[h].phase = "set"}
Unqueued == {h \in Handlers : handler[h].phase = "accepted"}
ToRead == IF LoopIdle THEN 0 ELSE 6 - reading.count
ToStart == IF simReady THEN 0 ELSE 1
Work == <<Cardinality(Unread), Cardinality(Unqueued), Len(queue), ToRead, ToStart>>

\* The order of the words, from the first number that differs.
Less(p, q) == \E i \in 1..5 : p[i] < q[i] /\ \A j \in 1..(i - 1) : p[j] = q[j]

Counted ==
    /\ IsFiniteSet(Unread) /\ IsFiniteSet(Unqueued)
    /\ Cardinality(Unread) \in Nat /\ Cardinality(Unqueued) \in Nat
    /\ Len(queue) \in Nat /\ ToRead \in Nat /\ ToStart \in Nat

LEMMA ToReadIs ==
    /\ LoopIdle => ToRead = 0
    /\ ~LoopIdle => ToRead = 6 - reading.count
    /\ LoopIdle' => ToRead' = 0
    /\ ~LoopIdle' => ToRead' = 6 - reading'.count
BY Zenon DEF ToRead

LEMMA WorkIsCounted == TypeOK => Counted
<1> SUFFICES ASSUME TypeOK PROVE Counted
  OBVIOUS
<1>1. IsFiniteSet(Unread) /\ IsFiniteSet(Unqueued)
  <2>1. Unread \subseteq Handlers /\ Unqueued \subseteq Handlers
    BY DEF Unread, Unqueued
  <2> QED
    BY <2>1, HandlersAssumption, FS_Subset
<1>2. ToRead \in Nat /\ ToStart \in Nat
  <2>1. reading.count \in 0..5
    BY ReadingTypes
  <2>2. CASE LoopIdle
    BY <2>2, ToReadIs DEF ToStart
  <2>3. CASE ~LoopIdle
    BY <2>1, <2>3, ToReadIs DEF ToStart
  <2> QED
    BY <2>2, <2>3
<1>3. Len(queue) \in Nat
  BY LenProperties DEF TypeOK
<1> QED
  BY <1>1, <1>2, <1>3, FS_CardinalityType DEF Counted

LEMMA OneFewer ==
    ASSUME NEW S, IsFiniteSet(S), NEW x \in S
    PROVE  Cardinality(S \ {x}) < Cardinality(S)
<1>1. Cardinality(S \ {x}) = Cardinality(S) - 1
  BY FS_RemoveElement
<1>2. Cardinality(S) \in Nat
  BY FS_CardinalityType
<1> QED
  BY <1>1, <1>2

\* Nothing is left to do exactly when the module is at rest.
LEMMA NoWorkIsQuiet ==
    TypeOK => (Work = <<0, 0, 0, 0, 0>> <=> Quiet /\ simReady)
<1> SUFFICES ASSUME TypeOK PROVE Work = <<0, 0, 0, 0, 0>> <=> Quiet /\ simReady
  OBVIOUS
<1>1. Counted
  BY WorkIsCounted
<1>2. Cardinality(Unread) = 0 <=> Unread = {}
  BY <1>1, FS_EmptySet DEF Counted
<1>3. Cardinality(Unqueued) = 0 <=> Unqueued = {}
  BY <1>1, FS_EmptySet DEF Counted
<1>4. (\A h \in Handlers : ~Busy(h)) <=> Unread = {} /\ Unqueued = {}
  BY DEF Busy, Unread, Unqueued, TypeOK
<1>5. Len(queue) = 0 <=> queue = <<>>
  BY EmptySeq, LenProperties DEF TypeOK
<1>6. ToRead = 0 <=> LoopIdle
  <2>1. reading.count \in 0..5
    BY ReadingTypes
  <2>2. LoopIdle => ToRead = 0
    BY ToReadIs
  <2>3. ASSUME ~LoopIdle PROVE ToRead # 0
    BY <2>1, <2>3, ToReadIs
  <2> QED
    BY <2>2, <2>3
<1>7. ToStart = 0 <=> simReady
  BY DEF ToStart
<1> QED
  BY <1>2, <1>3, <1>4, <1>5, <1>6, <1>7 DEF Work, Quiet

LEMMA StepWorks ==
    ASSUME TypeOK, Counted', Loop \/ \E h \in Handlers : Handle(h)
    PROVE  Less(Work', Work)
<1> DEFINE a == Cardinality(Unread)
           b == Cardinality(Unqueued)
           c == Len(queue)
<1>1. Counted
  BY WorkIsCounted
<1>2. /\ a \in Nat /\ b \in Nat /\ c \in Nat /\ ToRead \in Nat /\ ToStart \in Nat
      /\ a' \in Nat /\ b' \in Nat /\ c' \in Nat /\ ToRead' \in Nat /\ ToStart' \in Nat
  BY <1>1 DEF Counted
<1>3. \/ a' < a
      \/ a' = a /\ b' < b
      \/ a' = a /\ b' = b /\ c' < c
      \/ a' = a /\ b' = b /\ c' = c /\ ToRead' < ToRead
      \/ a' = a /\ b' = b /\ c' = c /\ ToRead' = ToRead /\ ToStart' < ToStart
  <2>1. ASSUME NEW h \in Handlers, HandlerReadBack(h)
        PROVE  a' < a
    <3>1. Unread' = Unread \ {h} /\ h \in Unread
      BY <2>1 DEF HandlerReadBack, Free, Unread, TypeOK
    <3> QED
      BY <1>1, <3>1, OneFewer DEF Counted
  <2>2. ASSUME NEW h \in Handlers, HandlerQueue(h)
        PROVE  a' = a /\ b' < b
    <3>1. Unread' = Unread /\ Unqueued' = Unqueued \ {h} /\ h \in Unqueued
      BY <2>2 DEF HandlerQueue, Free, Unread, Unqueued, TypeOK
    <3> QED
      BY <1>1, <3>1, OneFewer DEF Counted
  <2>3. ASSUME handler' = handler
        PROVE  a' = a /\ b' = b
    BY <2>3 DEF Unread, Unqueued
  <2>4. CASE TakeEvent
    <3>1. handler' = handler /\ queue' = Tail(queue) /\ queue # <<>> /\ queue \in Seq(Keys)
      BY <2>4 DEF TakeEvent, TypeOK
    <3>2. c' < c
      BY <3>1, HeadTailProperties, EmptySeq, LenProperties
    <3> QED
      BY <2>3, <3>1, <3>2
  <2>5. CASE ReadKey
    <3>1. handler' = handler /\ queue' = queue /\ ~LoopIdle /\ reading.count \in 0..5
      BY <2>5, ReadingTypes, OrderLength DEF ReadKey, web
    <3>2. reading'.event = reading.event /\ reading'.count = reading.count + 1
      BY <2>5 DEF ReadKey
    <3>3. ToRead = 6 - reading.count
      BY <3>1, ToReadIs
    <3>4. ~LoopIdle'
      BY <3>1, <3>2 DEF LoopIdle
    <3>5. ToRead' = 6 - (reading.count + 1)
      BY <3>2, <3>4, ToReadIs
    <3> QED
      BY <2>3, <3>1, <3>3, <3>5
  <2>6. CASE ApplyConfigChange
    <3>1. handler' = handler /\ queue' = queue /\ ~LoopIdle /\ reading.count = 5
      BY <2>6, OrderLength DEF ApplyConfigChange, web
    <3>2. reading'.event = ""
      BY <2>6 DEF ApplyConfigChange
    <3>3. ToRead = 1
      BY <3>1, ToReadIs
    <3>4. LoopIdle'
      BY <3>2 DEF LoopIdle
    <3>5. ToRead' = 0
      BY <3>4, ToReadIs
    <3> QED
      BY <2>3, <3>1, <3>3, <3>5
  <2>7. CASE StartSim
    <3>1. handler' = handler /\ queue' = queue /\ reading' = reading /\ ~simReady /\ simReady'
      BY <2>7 DEF StartSim, web
    <3>2. ToRead' = ToRead /\ ToStart' < ToStart
      BY <3>1 DEF ToRead, ToStart, LoopIdle
    <3> QED
      BY <2>3, <3>1, <3>2
  <2> QED
    BY <2>1, <2>2, <2>4, <2>5, <2>6, <2>7 DEF Loop, Handle
<1>4. Work = <<a, b, c, ToRead, ToStart>> /\ Work' = <<a', b', c', ToRead', ToStart'>>
  BY DEF Work
<1> HIDE DEF a, b, c
<1>5. CASE a' < a
  BY <1>4, <1>5 DEF Less
<1>6. CASE a' = a /\ b' < b
  BY <1>4, <1>6 DEF Less
<1>7. CASE a' = a /\ b' = b /\ c' < c
  BY <1>4, <1>7 DEF Less
<1>8. CASE a' = a /\ b' = b /\ c' = c /\ ToRead' < ToRead
  BY <1>4, <1>8 DEF Less
<1>9. CASE a' = a /\ b' = b /\ c' = c /\ ToRead' = ToRead /\ ToStart' < ToStart
  BY <1>4, <1>9 DEF Less
<1> QED
  BY <1>3, <1>5, <1>6, <1>7, <1>8, <1>9

(* Nobody keeps the others busy for ever: whatever saves are under way, every  *)
(* step of a request or of the game loop leaves strictly less to do; ticks,    *)
(* decays and moves leave it as it is, and only a new save adds to it; with    *)
(* nothing left the module runs what the store holds (onConfigChanged).        *)
THEOREM WorkRunsOut ==
    Spec => /\ [](Work = <<0, 0, 0, 0, 0>> <=> Quiet /\ simReady)
            /\ [](Work = <<0, 0, 0, 0, 0>> => cfg = store)
            /\ [][(Loop \/ \E h \in Handlers : Handle(h)) => Less(Work', Work)]_vars
            /\ [][Tick \/ Decay \/ Walk \/ OnRoomChange => Work' = Work]_vars
<1>1. TypeOK /\ Counted' => ((Loop \/ \E h \in Handlers : Handle(h)) => Less(Work', Work))
  BY StepWorks
<1>2. Tick \/ Decay \/ Walk \/ OnRoomChange => Work' = Work
  <2> SUFFICES ASSUME Tick \/ Decay \/ Walk \/ OnRoomChange PROVE Work' = Work
    OBVIOUS
  <2>1. handler' = handler /\ queue' = queue /\ reading' = reading /\ simReady' = simReady
    BY DEF Tick, Decay, Walk, OnRoomChange, web
  <2>2. Unread' = Unread /\ Unqueued' = Unqueued /\ ToRead' = ToRead /\ ToStart' = ToStart
    BY <2>1 DEF Unread, Unqueued, ToRead, ToStart, LoopIdle
  <2> QED
    BY <2>1, <2>2 DEF Work
<1>3. TypeOK /\ AdoptedWhenQuiet => (Work = <<0, 0, 0, 0, 0>> => cfg = store)
  BY NoWorkIsQuiet DEF AdoptedWhenQuiet
<1> QED
  BY <1>1, <1>2, <1>3, NoWorkIsQuiet, WorkIsCounted, ConfigTypeCorrect, NoWriteLost, PTL
     DEF Spec
=============================================================================
