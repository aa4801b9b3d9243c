------------------------------ MODULE RoomWeather ------------------------------
(***************************************************************************)
(* Where weather lives: on zone mutator lists (mode "off") or on the lists *)
(* of rooms ("occupied": those with players, "all": every room), under     *)
(* players who move, log in and out, RoomChange events that arrive later,  *)
(* mode changes, graph rebuilds, ticks, and engine-side decay              *)
(* (weather_tick.go, weather_admin.go, engine/apply.go, engine/refine.go). *)
(*                                                                         *)
(* Abstractions.  The simulation is its result: a tick or an admin action  *)
(* yields any weather map over the zones of the graph.  A mutator list is  *)
(* how often each weather-* id is live in it: the engine's Add appends a   *)
(* duplicate when the id is live already, its Remove retires the id.       *)
(***************************************************************************)
EXTENDS Integers, Sequences

CONSTANTS
    Zones, Rooms, Players,
    ZoneOf,         \* the zone a room is in
    Indoor,         \* the rooms whose biome counts as indoors
    Types,          \* weather types, Clear among them
    Loaded,         \* the mutator ids whose spec file is loaded
    Graphs,         \* the sets of zones a crawl of the world can yield
    Modes,          \* the PerRoomRefinement values in use
    MaxQueue        \* bound: RoomChange events waiting for the game loop

Clear == "clear"
Nowhere == "nowhere"    \* where a player out of the world is
Calm == [type |-> Clear, indoor |-> FALSE]   \* the absence of a mutator ("" in the code)

\* weather-<type> and weather-<type>-indoor.
Ids == [type : Types \ {Clear}, indoor : BOOLEAN]

ASSUME PlacesAssumption ==
    ZoneOf \in [Rooms -> Zones] /\ Indoor \subseteq Rooms /\ Nowhere \notin Rooms
ASSUME TypesAssumption == Clear \in Types /\ Loaded \subseteq Ids
ASSUME GraphsAssumption == Graphs # {} /\ \A g \in Graphs : g \subseteq Zones
ASSUME ModesAssumption == Modes # {} /\ Modes \subseteq {"off", "occupied", "all"}
ASSUME QueueAssumption == MaxQueue \in Nat

VARIABLES
    simReady,   \* m.simReady
    mode,       \* m.cfg.PerRoomRefinement
    nodes,      \* the zones of m.graph
    weather,    \* m.state.Weather
    zoneList,   \* weather-* ids live on each zone's mutator list
    roomList,   \* and on each room's
    location,   \* the room each player is in
    queue       \* RoomChange events the game loop has not handled, oldest first

lists == <<zoneList, roomList>>
vars == <<simReady, mode, nodes, weather, lists, location, queue>>

-----------------------------------------------------------------------------
(* Engine bindings.                                                        *)

Bare == [id \in Ids |-> 0]

PlayersIn(r) == {p \in Players : location[p] = r}
Occupied == {r \in Rooms : PlayersIn(r) # {}}

\* MutatorIdFor and roomWantId; a zone without weather reads as unset.
WantId(w, z, indoor) ==
    IF z \in DOMAIN w /\ w[z] # Clear THEN [type |-> w[z], indoor |-> indoor] ELSE Calm

ZoneWant(w, z) == WantId(w, z, FALSE)
RoomWant(w, r) == WantId(w, ZoneOf[r], r \in Indoor)

\* Mutated form: the wanted id is added whether or not it is live already.
ReconcileListAlways(list, want) ==
    [id \in Ids |-> IF id # want THEN 0
                    ELSE IF id \in Loaded THEN list[id] + 1 ELSE list[id]]

\* reconcileList: everything but want goes; want is added only if absent.
ReconcileList(list, want) ==
    [id \in Ids |-> IF id # want THEN 0
                    ELSE IF list[id] = 0 /\ id \in Loaded THEN 1 ELSE list[id]]

\* Mutated form: a zone whose weather turned clear is passed over.
ReconcileSkipsClear(w) ==
    [z \in Zones |-> IF z \in DOMAIN w /\ w[z] # Clear
                     THEN ReconcileList(zoneList[z], ZoneWant(w, z)) ELSE zoneList[z]]

\* Reconcile iterates over the weather map, StripZoneWeather over the graph.
Reconcile(w) ==
    [z \in Zones |-> IF z \in DOMAIN w
                     THEN ReconcileList(zoneList[z], ZoneWant(w, z)) ELSE zoneList[z]]
StripZoneWeather(g) == [z \in Zones |-> IF z \in g THEN Bare ELSE zoneList[z]]

\* RefineRoom over a set of rooms.
RefineRooms(rooms, w) ==
    [r \in Rooms |-> IF r \in rooms
                     THEN ReconcileList(roomList[r], RoomWant(w, r)) ELSE roomList[r]]

StripRooms(rooms) == [r \in Rooms |-> IF r \in rooms THEN Bare ELSE roomList[r]]

RoomsIn(g) == {r \in Rooms : ZoneOf[r] \in g}

\* Mutated form: the zones keep their weather when a room mode is in force.
ApplyWeatherBoth(m, g, w) ==
    CASE m = "off" -> zoneList' = Reconcile(w) /\ UNCHANGED roomList
      [] m = "all" -> UNCHANGED zoneList /\ roomList' = RefineRooms(RoomsIn(g), w)
      [] m = "occupied" -> UNCHANGED zoneList /\ roomList' = RefineRooms(Occupied, w)

\* applyWeather, the one switch between zone and room weather.
ApplyWeather(m, g, w) ==
    \/ m = "off" /\ zoneList' = Reconcile(w) /\ UNCHANGED roomList
    \/ m = "all" /\ zoneList' = StripZoneWeather(g) /\ roomList' = RefineRooms(RoomsIn(g), w)
    \/ m = "occupied" /\ zoneList' = StripZoneWeather(g) /\ roomList' = RefineRooms(Occupied, w)

-----------------------------------------------------------------------------
(* Players: external, as onRoomChange and GetRoomsWithPlayers see them.    *)

Changed(from, to) == Append(queue, [from |-> from, to |-> to])

\* The engine completes a move, then queues the event.
Move(p, r) ==
    /\ location[p] \in Rooms \ {r} /\ Len(queue) < MaxQueue
    /\ location' = [location EXCEPT ![p] = r]
    /\ queue' = Changed(location[p], r)
    /\ UNCHANGED <<simReady, mode, nodes, weather, lists>>

\* A login moves the player into the saved room: From equals To.
Login(p, r) ==
    /\ location[p] = Nowhere /\ Len(queue) < MaxQueue
    /\ location' = [location EXCEPT ![p] = r]
    /\ queue' = Changed(r, r)
    /\ UNCHANGED <<simReady, mode, nodes, weather, lists>>

\* Leaving the world changes no room, so no event.
Logout(p) ==
    /\ location[p] \in Rooms
    /\ location' = [location EXCEPT ![p] = Nowhere]
    /\ UNCHANGED <<simReady, mode, nodes, weather, lists, queue>>

\* A mutator's decayrate retires it from one list.
Decay ==
    /\ \/ \E z \in Zones : zoneList' = [zoneList EXCEPT ![z] = Bare] /\ UNCHANGED roomList
       \/ \E r \in Rooms : roomList' = [roomList EXCEPT ![r] = Bare] /\ UNCHANGED zoneList
    /\ UNCHANGED <<simReady, mode, nodes, weather, location, queue>>

-----------------------------------------------------------------------------
(* The module, on the game loop.                                           *)

\* startSim, with the weather restored or not yet simulated.
StartSim ==
    /\ ~simReady /\ simReady' = TRUE
    /\ ApplyWeather(mode, nodes, weather)
    /\ UNCHANGED <<mode, nodes, weather, location, queue>>

\* Mutated form: only rooms the module never refined are refined on entry.
OnRoomChangeIfBare ==
    /\ queue # <<>>
    /\ LET e == Head(queue)
           strip == IF e.from # e.to /\ PlayersIn(e.from) = {} THEN {e.from} ELSE {}
       IN  roomList' = IF simReady /\ mode = "occupied"
                       THEN [r \in Rooms |-> IF r = e.to /\ roomList[r] = Bare
                                             THEN RefineRooms({e.to}, weather)[r]
                                             ELSE StripRooms(strip)[r]]
                       ELSE roomList
    /\ queue' = Tail(queue)
    /\ UNCHANGED <<simReady, mode, nodes, weather, zoneList, location>>

\* onRoomChange: refine the room entered, strip the one left if it is empty now.
OnRoomChange ==
    /\ queue # <<>>
    /\ LET e == Head(queue)
           strip == IF e.from # e.to /\ PlayersIn(e.from) = {} THEN {e.from} ELSE {}
       IN  roomList' = IF simReady /\ mode = "occupied"
                       THEN [r \in Rooms |-> IF r = e.to THEN RefineRooms({e.to}, weather)[r]
                                             ELSE StripRooms(strip)[r]]
                       ELSE roomList
    /\ queue' = Tail(queue)
    /\ UNCHANGED <<simReady, mode, nodes, weather, zoneList, location>>

\* A tick, a forced spawn or a clear: new weather over the graph, then applied.
NewWeather ==
    /\ simReady
    /\ \E w \in [nodes -> Types] :
        /\ weather' = w
        /\ ApplyWeather(mode, nodes, w)
    /\ UNCHANGED <<simReady, mode, nodes, location, queue>>

\* rebuildGraph: the weather map is still that of the old graph.
Rebuild ==
    /\ \E g \in Graphs :
        /\ nodes' = g
        /\ simReady' = TRUE
        /\ ApplyWeather(mode, g, weather)
    /\ UNCHANGED <<mode, weather, location, queue>>

\* PerRoomRefinement's live applier: "off" strips the occupied rooms first.
SetMode ==
    /\ \E m \in Modes \ {mode} :
        /\ mode' = m
        /\ CASE ~simReady -> UNCHANGED lists
             [] simReady /\ m = "off" ->
                    roomList' = StripRooms(Occupied) /\ zoneList' = Reconcile(weather)
             [] simReady /\ m # "off" -> ApplyWeather(m, nodes, weather)
    /\ UNCHANGED <<simReady, nodes, weather, location, queue>>

\* Boot: zone mutators do not survive it, room lists come from the room files
\* and may hold one id of an earlier run; the weather is restored or unset.
Init ==
    /\ simReady = FALSE
    /\ mode \in Modes
    /\ nodes \in Graphs
    /\ weather \in {<<>>} \cup UNION {[g -> Types] : g \in Graphs}
    /\ zoneList = [z \in Zones |-> Bare]
    /\ roomList \in [Rooms -> {Bare} \cup {[Bare EXCEPT ![id] = 1] : id \in Loaded}]
    /\ location = [p \in Players |-> Nowhere]
    /\ queue = <<>>

External == \E p \in Players : Logout(p) \/ \E r \in Rooms : Move(p, r) \/ Login(p, r)

Next == External \/ Decay \/ StartSim \/ OnRoomChange \/ NewWeather \/ Rebuild \/ SetMode

Spec == Init /\ [][Next]_vars

-----------------------------------------------------------------------------

TypeOK ==
    /\ simReady \in BOOLEAN /\ mode \in Modes /\ nodes \in Graphs
    /\ \E g \in SUBSET Zones : weather \in [g -> Types]
    /\ zoneList \in [Zones -> [Ids -> Nat]] /\ roomList \in [Rooms -> [Ids -> Nat]]
    /\ location \in [Players -> Rooms \cup {Nowhere}]
    /\ queue \in Seq([from : Rooms, to : Rooms])

Only(list, want) == \A id \in Ids : list[id] > 0 => id = want /\ list[id] = 1
Single(list) == \E want \in Ids \cup {Calm} : Only(list, want)

\* No list ever holds two weather mutators, whose names, alerts and buffs would
\* stack, nor one of them twice, although Add appends a live id again.
OneWeatherPerList ==
    (\A z \in Zones : Single(zoneList[z])) /\ (\A r \in Rooms : Single(roomList[r]))

\* In the room modes no player is shown another weather than the zone's: a room
\* carries its own id or, once decayed, nothing, except, in mode "occupied",
\* while the RoomChange event of an entry still waits (the one-render lag the
\* README accepts), however moves, logins, ticks and mode changes interleave.
PlayersSeeTheirWeather ==
    simReady =>
        /\ mode = "occupied" => \A r \in Occupied :
                \/ Only(roomList[r], RoomWant(weather, r))
                \/ \E n \in 1..Len(queue) : queue[n].to = r
        /\ mode = "all" => \A r \in RoomsIn(nodes) : Only(roomList[r], RoomWant(weather, r))

\* In a room mode the rooms are the only carriers in the zones of the graph.
RoomsAreTheOnlyCarriers ==
    simReady /\ mode # "off" => \A z \in nodes : zoneList[z] = Bare

\* In mode "off" a zone with known weather carries that weather or nothing, be
\* the graph a newer one than the weather's (Reconcile).
ZonesShowTheirWeather ==
    simReady /\ mode = "off" => \A z \in DOMAIN weather : Only(zoneList[z], ZoneWant(weather, z))

\* The README's promise to builders: any weather-* mutator that does not match
\* the simulation's view is stripped from a zone within one tick.
TickStripsStaleZones ==
    [][NewWeather => \A z \in Zones : Only(zoneList'[z], ZoneWant(weather', z))]_vars
=============================================================================
