--------------------------- MODULE RoomWeatherProofs ---------------------------
(***************************************************************************)
(* RoomWeather, proved for any world, players, weather types and pending   *)
(* events.  The four safety invariants are inductive together: that a list *)
(* holds no id twice is what makes a reconciled list hold its want alone.  *)
(***************************************************************************)
EXTENDS RoomWeather, TLAPS

Lists == [Ids -> Nat]

AllSingle(zl, rl) ==
    /\ zl \in [Zones -> Lists] /\ rl \in [Rooms -> Lists]
    /\ \A z \in Zones : Single(zl[z])
    /\ \A r \in Rooms : Single(rl[r])

IInv == TypeOK /\ OneWeatherPerList /\ PlayersSeeTheirWeather
        /\ RoomsAreTheOnlyCarriers /\ ZonesShowTheirWeather

-----------------------------------------------------------------------------

LEMMA FirstOfQueue ==
    ASSUME NEW S, NEW s \in Seq(S), s # <<>>
    PROVE  s[1] \in S
OBVIOUS

\* A bare list is any place's own weather.
LEMMA BareFacts ==
    /\ Bare \in Lists /\ Single(Bare)
    /\ \A want : Only(Bare, want)
<1>1. Bare \in Lists /\ \A id \in Ids : Bare[id] = 0
  BY DEF Bare, Lists
<1>2. \A want : Only(Bare, want)
  BY <1>1 DEF Only
<1> QED
  BY <1>1, <1>2 DEF Single

\* reconcileList leaves the wanted id alone, once, of a list without doubles.
LEMMA ReconcileFacts ==
    ASSUME NEW list \in Lists, Single(list), NEW want \in Ids \cup {Calm}
    PROVE  /\ ReconcileList(list, want) \in Lists
           /\ Only(ReconcileList(list, want), want)
           /\ Single(ReconcileList(list, want))
<1>1. \A id \in Ids : list[id] \in Nat /\ list[id] <= 1
  <2>1. PICK w \in Ids \cup {Calm} : Only(list, w)
    BY DEF Single
  <2> QED
    BY <2>1 DEF Only, Lists
<1>2. ReconcileList(list, want) \in Lists
  BY <1>1 DEF ReconcileList, Lists
<1>3. \A id \in Ids : ReconcileList(list, want)[id] =
        IF id # want THEN 0 ELSE IF list[id] = 0 /\ id \in Loaded THEN 1 ELSE list[id]
  BY DEF ReconcileList
<1>4. Only(ReconcileList(list, want), want)
  BY <1>1, <1>3 DEF Only
<1> QED
  BY <1>2, <1>4 DEF Single

LEMMA WantFacts ==
    ASSUME NEW w, \E g \in SUBSET Zones : w \in [g -> Types]
    PROVE  /\ \A z \in Zones : ZoneWant(w, z) \in Ids \cup {Calm}
           /\ \A r \in Rooms : RoomWant(w, r) \in Ids \cup {Calm}
           /\ DOMAIN w \subseteq Zones
<1>1. PICK g \in SUBSET Zones : w \in [g -> Types]
  OBVIOUS
<1>2. \A z \in Zones : \A indoor \in BOOLEAN : WantId(w, z, indoor) \in Ids \cup {Calm}
  BY <1>1 DEF WantId, Ids
<1>3. \A z \in Zones : ZoneWant(w, z) \in Ids \cup {Calm}
  BY <1>2 DEF ZoneWant
<1>4. \A r \in Rooms : RoomWant(w, r) \in Ids \cup {Calm}
  <2> SUFFICES ASSUME NEW r \in Rooms PROVE RoomWant(w, r) \in Ids \cup {Calm}
    OBVIOUS
  <2>1. ZoneOf[r] \in Zones /\ (r \in Indoor) \in BOOLEAN
    BY PlacesAssumption
  <2> QED
    BY <1>2, <2>1 DEF RoomWant
<1> QED
  BY <1>1, <1>3, <1>4

\* What applyWeather leaves, in every mode.
LEMMA ApplyFacts ==
    ASSUME AllSingle(zoneList, roomList),
           NEW m \in {"off", "occupied", "all"}, NEW g \in SUBSET Zones, NEW w,
           \E d \in SUBSET Zones : w \in [d -> Types],
           ApplyWeather(m, g, w)
    PROVE  /\ AllSingle(zoneList', roomList')
           /\ m = "off" => \A z \in DOMAIN w : Only(zoneList'[z], ZoneWant(w, z))
           /\ m # "off" => \A z \in g : zoneList'[z] = Bare
           /\ m = "occupied" => \A r \in Occupied : Only(roomList'[r], RoomWant(w, r))
           /\ m = "all" => \A r \in RoomsIn(g) : Only(roomList'[r], RoomWant(w, r))
<1>1. /\ \A z \in Zones : zoneList[z] \in Lists /\ Single(zoneList[z])
      /\ \A r \in Rooms : roomList[r] \in Lists /\ Single(roomList[r])
  BY DEF AllSingle
<1>2. \A z \in Zones : LET n == ReconcileList(zoneList[z], ZoneWant(w, z))
                       IN  n \in Lists /\ Only(n, ZoneWant(w, z)) /\ Single(n)
  BY <1>1, WantFacts, ReconcileFacts
<1>3. \A r \in Rooms : LET n == ReconcileList(roomList[r], RoomWant(w, r))
                       IN  n \in Lists /\ Only(n, RoomWant(w, r)) /\ Single(n)
  BY <1>1, WantFacts, ReconcileFacts
<1>4. \A rooms : /\ RefineRooms(rooms, w) \in [Rooms -> Lists]
                 /\ \A r \in Rooms : Single(RefineRooms(rooms, w)[r])
                 /\ \A r \in Rooms \cap rooms : Only(RefineRooms(rooms, w)[r], RoomWant(w, r))
  BY <1>1, <1>3 DEF RefineRooms
<1>5. /\ StripZoneWeather(g) \in [Zones -> Lists]
      /\ \A z \in Zones : Single(StripZoneWeather(g)[z])
      /\ \A z \in g : StripZoneWeather(g)[z] = Bare
  BY <1>1, BareFacts DEF StripZoneWeather
<1>6. /\ Reconcile(w) \in [Zones -> Lists]
      /\ \A z \in Zones : Single(Reconcile(w)[z])
      /\ \A z \in DOMAIN w : Only(Reconcile(w)[z], ZoneWant(w, z))
  BY <1>1, <1>2, WantFacts DEF Reconcile
<1>7. CASE m = "off" /\ zoneList' = Reconcile(w) /\ UNCHANGED roomList
  BY <1>1, <1>6, <1>7 DEF AllSingle
<1>8. CASE m = "all" /\ zoneList' = StripZoneWeather(g) /\ roomList' = RefineRooms(RoomsIn(g), w)
  <2>1. RoomsIn(g) \subseteq Rooms
    BY DEF RoomsIn
  <2> QED
    BY <1>4, <1>5, <1>8, <2>1 DEF AllSingle
<1>9. CASE m = "occupied" /\ zoneList' = StripZoneWeather(g) /\ roomList' = RefineRooms(Occupied, w)
  <2>1. Occupied \subseteq Rooms
    BY DEF Occupied
  <2> QED
    BY <1>4, <1>5, <1>9, <2>1 DEF AllSingle
<1> QED
  BY <1>7, <1>8, <1>9 DEF ApplyWeather

-----------------------------------------------------------------------------

LEMMA InvListFacts ==
    ASSUME IInv
    PROVE  /\ AllSingle(zoneList, roomList)
           /\ mode \in {"off", "occupied", "all"} /\ nodes \in SUBSET Zones
           /\ \E d \in SUBSET Zones : weather \in [d -> Types]
BY ModesAssumption, GraphsAssumption DEF IInv, TypeOK, OneWeatherPerList, AllSingle, Lists

\* An invariant state, its lists and the rest apart.
LEMMA InvOf ==
    ASSUME IInv, AllSingle(zoneList', roomList'), UNCHANGED <<location, queue>>,
           simReady' \in BOOLEAN, mode' \in Modes, nodes' \in Graphs,
           \E d \in SUBSET Zones : weather' \in [d -> Types],
           simReady' => 
             /\ mode' = "off" => \A z \in DOMAIN weather' : Only(zoneList'[z], ZoneWant(weather', z))
             /\ mode' # "off" => \A z \in nodes' : zoneList'[z] = Bare
             /\ mode' = "occupied" => \A r \in Occupied : Only(roomList'[r], RoomWant(weather', r))
             /\ mode' = "all" => \A r \in RoomsIn(nodes') : Only(roomList'[r], RoomWant(weather', r))
    PROVE  IInv'
<1>1. TypeOK'
  BY DEF IInv, TypeOK, AllSingle, Lists
<1>2. OneWeatherPerList'
  BY DEF OneWeatherPerList, AllSingle, Single, Only
<1>3. Occupied' = Occupied
  BY DEF Occupied, PlayersIn
<1>4. PlayersSeeTheirWeather'
  BY <1>3 DEF PlayersSeeTheirWeather, Only, RoomWant, WantId, RoomsIn
<1>5. RoomsAreTheOnlyCarriers' /\ ZonesShowTheirWeather'
  BY DEF RoomsAreTheOnlyCarriers, ZonesShowTheirWeather, Only, ZoneWant, WantId
<1> QED
  BY <1>1, <1>2, <1>4, <1>5 DEF IInv

LEMMA ApplyKeepsInv ==
    ASSUME IInv, UNCHANGED <<location, queue>>, simReady', mode' \in Modes, nodes' \in Graphs,
           \E d \in SUBSET Zones : weather' \in [d -> Types],
           simReady' \in BOOLEAN, ApplyWeather(mode', nodes', weather')
    PROVE  IInv'
<1>1. mode' \in {"off", "occupied", "all"} /\ nodes' \in SUBSET Zones
  BY ModesAssumption, GraphsAssumption
<1> QED
  BY <1>1, InvListFacts, ApplyFacts, InvOf

LEMMA WalkKeepsInv ==
    ASSUME IInv, UNCHANGED <<simReady, mode, nodes, weather, lists>>,
           NEW p \in Players, NEW from \in Rooms, NEW r \in Rooms,
           location' = [location EXCEPT ![p] = r], queue' = Changed(from, r)
    PROVE  IInv'
<1>1. /\ queue \in Seq([from : Rooms, to : Rooms])
      /\ queue' = Append(queue, [from |-> from, to |-> r])
      /\ location \in [Players -> Rooms \cup {Nowhere}]
  BY DEF IInv, TypeOK, Changed
<1>2. /\ queue' \in Seq([from : Rooms, to : Rooms])
      /\ Len(queue') = Len(queue) + 1 /\ Len(queue) \in Nat
      /\ queue'[Len(queue) + 1] = [from |-> from, to |-> r]
      /\ \A n \in 1..Len(queue) : queue'[n] = queue[n]
  BY <1>1
<1>3. Occupied' \subseteq Occupied \cup {r}
  BY <1>1 DEF Occupied, PlayersIn
<1>4. \A q \in Rooms : (\E n \in 1..Len(queue) : queue[n].to = q)
                        => \E n \in 1..Len(queue') : queue'[n].to = q
  <2> SUFFICES ASSUME NEW q \in Rooms, NEW n \in 1..Len(queue), queue[n].to = q
               PROVE  n \in 1..Len(queue') /\ queue'[n].to = q
    OBVIOUS
  <2> QED
    BY <1>2
<1>5. \E n \in 1..Len(queue') : queue'[n].to = r
  <2>1. Len(queue) + 1 \in 1..Len(queue') /\ queue'[Len(queue) + 1].to = r
    BY <1>2
  <2> QED
    BY <2>1
<1>6. TypeOK'
  BY <1>1, <1>2 DEF IInv, TypeOK, lists
<1>7. PlayersSeeTheirWeather'
  <2> SUFFICES ASSUME simReady, mode = "occupied", NEW q \in Occupied'
               PROVE  \/ Only(roomList[q], RoomWant(weather, q))
                      \/ \E n \in 1..Len(queue') : queue'[n].to = q
    BY DEF PlayersSeeTheirWeather, IInv, lists, RoomsIn, Only, RoomWant, WantId
  <2>1. q \in Rooms
    BY DEF Occupied
  <2> QED
    BY <1>3, <1>4, <1>5, <2>1 DEF IInv, PlayersSeeTheirWeather
<1>8. OneWeatherPerList' /\ RoomsAreTheOnlyCarriers' /\ ZonesShowTheirWeather'
  BY DEF IInv, OneWeatherPerList, RoomsAreTheOnlyCarriers, ZonesShowTheirWeather, lists,
         Single, Only, ZoneWant, WantId
<1> QED
  BY <1>6, <1>7, <1>8 DEF IInv

LEMMA EventKeepsInv ==
    ASSUME IInv, OnRoomChange
    PROVE  IInv'
<1> DEFINE e == Head(queue)
           strip == IF e.from # e.to /\ PlayersIn(e.from) = {} THEN {e.from} ELSE {}
           refined == [r \in Rooms |-> IF r = e.to THEN RefineRooms({e.to}, weather)[r]
                                       ELSE StripRooms(strip)[r]]
<1>1. /\ queue \in Seq([from : Rooms, to : Rooms]) /\ queue # <<>> /\ queue' = Tail(queue)
      /\ UNCHANGED <<simReady, mode, nodes, weather, zoneList, location>>
      /\ roomList' = IF simReady /\ mode = "occupied" THEN refined ELSE roomList
  BY DEF OnRoomChange, IInv, TypeOK
<1>2. /\ queue' \in Seq([from : Rooms, to : Rooms])
      /\ e \in [from : Rooms, to : Rooms] /\ e = queue[1]
      /\ \A n \in 2..Len(queue) : n - 1 \in 1..Len(queue') /\ queue'[n - 1] = queue[n]
  <2>1. queue' \in Seq([from : Rooms, to : Rooms])
    BY <1>1
  <2>2. e \in [from : Rooms, to : Rooms] /\ e = queue[1]
    <3>1. queue \in Seq([from : Rooms, to : Rooms]) /\ queue # <<>>
      BY <1>1
    <3>2. e = queue[1]
      BY <3>1 DEF e
    <3> QED
      BY <3>1, <3>2, FirstOfQueue
  <2>3. \A n \in 2..Len(queue) : n - 1 \in 1..Len(queue') /\ queue'[n - 1] = queue[n]
    BY <1>1
  <2> QED
    BY <2>1, <2>2, <2>3
<1> HIDE DEF e
<1>3. Occupied' = Occupied
  BY <1>1 DEF Occupied, PlayersIn
<1>4. \A r \in Rooms : refined[r] = IF r = e.to THEN ReconcileList(roomList[r], RoomWant(weather, r))
                                    ELSE IF r \in strip THEN Bare ELSE roomList[r]
  BY DEF RefineRooms, StripRooms
<1>5. AllSingle(zoneList, roomList) /\ \E d \in SUBSET Zones : weather \in [d -> Types]
  BY InvListFacts
<1>6. \A r \in Rooms : /\ refined[r] \in Lists /\ Single(refined[r])
                       /\ r = e.to => Only(refined[r], RoomWant(weather, r))
                       /\ r # e.to => refined[r] \in {Bare, roomList[r]}
  <2> SUFFICES ASSUME NEW r \in Rooms
               PROVE  /\ refined[r] \in Lists /\ Single(refined[r])
                      /\ r = e.to => Only(refined[r], RoomWant(weather, r))
                      /\ r # e.to => refined[r] \in {Bare, roomList[r]}
    OBVIOUS
  <2> HIDE DEF strip, refined
  <2>1. roomList[r] \in Lists /\ Single(roomList[r])
    BY <1>5 DEF AllSingle
  <2>2. LET n == ReconcileList(roomList[r], RoomWant(weather, r))
        IN  n \in Lists /\ Only(n, RoomWant(weather, r)) /\ Single(n)
    BY <1>5, <2>1, ReconcileFacts, WantFacts
  <2>3. CASE r = e.to
    BY <1>4, <2>2, <2>3
  <2>4. CASE r # e.to
    BY <1>4, <2>1, <2>4, BareFacts
  <2> QED
    BY <2>3, <2>4
<1>7. refined \in [Rooms -> Lists]
  BY <1>6
<1> HIDE DEF refined
<1>8. AllSingle(zoneList', roomList')
  BY <1>1, <1>5, <1>6, <1>7 DEF AllSingle
<1>9. TypeOK'
  BY <1>1, <1>2, <1>8 DEF IInv, TypeOK, AllSingle, Lists
<1>10. OneWeatherPerList'
  BY <1>8 DEF OneWeatherPerList, AllSingle, Single, Only
<1>11. PlayersSeeTheirWeather'
  <2>1. CASE simReady /\ mode = "occupied"
    <3> SUFFICES ASSUME NEW r \in Occupied
                 PROVE  \/ Only(refined[r], RoomWant(weather, r))
                        \/ \E n \in 1..Len(queue') : queue'[n].to = r
      BY <1>1, <1>3, <2>1 DEF PlayersSeeTheirWeather, Only, RoomWant, WantId
    <3>1. r \in Rooms
      BY DEF Occupied
    <3>2. CASE r = e.to
      BY <1>6, <3>1, <3>2
    <3>3. CASE r # e.to /\ Only(roomList[r], RoomWant(weather, r))
      BY <1>6, <3>1, <3>3, BareFacts
    <3>4. CASE r # e.to /\ \E n \in 1..Len(queue) : queue[n].to = r
      <4>1. PICK n \in 1..Len(queue) : queue[n].to = r
        BY <3>4
      <4>2. n # 1
        BY <1>2, <3>4, <4>1
      <4>3. n \in 2..Len(queue)
        BY <1>1, <4>1, <4>2
      <4> QED
        BY <1>2, <4>1, <4>3
    <3> QED
      BY <2>1, <3>2, <3>3, <3>4 DEF IInv, PlayersSeeTheirWeather
  <2>2. CASE ~(simReady /\ mode = "occupied")
    BY <1>1, <2>2 DEF IInv, PlayersSeeTheirWeather, RoomsIn, Only, RoomWant, WantId
  <2> QED
    BY <2>1, <2>2
<1>12. RoomsAreTheOnlyCarriers' /\ ZonesShowTheirWeather'
  BY <1>1 DEF IInv, RoomsAreTheOnlyCarriers, ZonesShowTheirWeather, Only, ZoneWant, WantId
<1> QED
  BY <1>9, <1>10, <1>11, <1>12 DEF IInv

LEMMA LogoutKeepsInv ==
    ASSUME IInv, NEW p \in Players, Logout(p)
    PROVE  IInv'
<1>1. /\ location' = [location EXCEPT ![p] = Nowhere]
      /\ UNCHANGED <<simReady, mode, nodes, weather, lists, queue>>
      /\ location \in [Players -> Rooms \cup {Nowhere}]
  BY DEF Logout, IInv, TypeOK
<1>2. Occupied' \subseteq Occupied
  BY <1>1, PlacesAssumption DEF Occupied, PlayersIn
<1>3. TypeOK'
  BY <1>1 DEF IInv, TypeOK, lists
<1>4. PlayersSeeTheirWeather'
  BY <1>1, <1>2 DEF IInv, PlayersSeeTheirWeather, lists, RoomsIn, Only, RoomWant, WantId
<1> QED
  BY <1>1, <1>3, <1>4 DEF IInv, OneWeatherPerList, RoomsAreTheOnlyCarriers, ZonesShowTheirWeather,
     lists, Single, Only, ZoneWant, WantId

LEMMA DecayKeepsInv ==
    ASSUME IInv, Decay
    PROVE  IInv'
<1>1. UNCHANGED <<simReady, mode, nodes, weather, location, queue>>
  BY DEF Decay
<1>2. zoneList \in [Zones -> Lists] /\ roomList \in [Rooms -> Lists]
  BY InvListFacts DEF AllSingle
<1>3. /\ zoneList' \in [Zones -> Lists] /\ \A z \in Zones : zoneList'[z] \in {zoneList[z], Bare}
      /\ roomList' \in [Rooms -> Lists] /\ \A r \in Rooms : roomList'[r] \in {roomList[r], Bare}
  BY <1>2, BareFacts DEF Decay
<1>4. AllSingle(zoneList', roomList')
  BY <1>3, InvListFacts, BareFacts DEF AllSingle
<1>5. TypeOK' /\ OneWeatherPerList'
  BY <1>1, <1>4 DEF IInv, TypeOK, AllSingle, Lists, OneWeatherPerList, Single, Only
<1>6. Occupied' = Occupied /\ Occupied \subseteq Rooms
  BY <1>1 DEF Occupied, PlayersIn
<1>7. \A r \in Rooms : Only(roomList[r], RoomWant(weather, r)) => Only(roomList'[r], RoomWant(weather, r))
  BY <1>3, BareFacts
<1>8. PlayersSeeTheirWeather'
  <2>1. RoomsIn(nodes) \subseteq Rooms
    BY DEF RoomsIn
  <2> QED
    BY <1>1, <1>6, <1>7, <2>1 DEF IInv, PlayersSeeTheirWeather, RoomsIn, Only, RoomWant, WantId
<1>9. RoomsAreTheOnlyCarriers'
  <2>1. nodes \subseteq Zones
    BY InvListFacts
  <2> QED
    BY <1>1, <1>3, <2>1 DEF IInv, RoomsAreTheOnlyCarriers
<1>10. ZonesShowTheirWeather'
  <2>1. DOMAIN weather \subseteq Zones
    BY InvListFacts, WantFacts
  <2>2. \A z \in Zones : Only(zoneList[z], ZoneWant(weather, z)) => Only(zoneList'[z], ZoneWant(weather, z))
    BY <1>3, BareFacts
  <2> QED
    BY <1>1, <2>1, <2>2 DEF IInv, ZonesShowTheirWeather, Only, ZoneWant, WantId
<1> QED
  BY <1>5, <1>8, <1>9, <1>10 DEF IInv

LEMMA ModeKeepsInv ==
    ASSUME IInv, SetMode
    PROVE  IInv'
<1>1. PICK m \in Modes \ {mode} :
        /\ mode' = m
        /\ CASE ~simReady -> UNCHANGED lists
             [] simReady /\ m = "off" ->
                    roomList' = StripRooms(Occupied) /\ zoneList' = Reconcile(weather)
             [] simReady /\ m # "off" -> ApplyWeather(m, nodes, weather)
  BY DEF SetMode
<1>2. UNCHANGED <<simReady, nodes, weather, location, queue>> /\ mode' \in Modes
  BY <1>1 DEF SetMode
<1>3. simReady \in BOOLEAN /\ nodes \in Graphs /\ \E d \in SUBSET Zones : weather \in [d -> Types]
  BY DEF IInv, TypeOK
<1>4. CASE ~simReady
  <2>1. UNCHANGED lists
    BY <1>1, <1>4
  <2>2. AllSingle(zoneList', roomList')
    BY <2>1, InvListFacts DEF lists
  <2> QED
    BY <1>2, <1>3, <1>4, <2>2, InvOf
<1>5. CASE simReady /\ mode' # "off"
  <2>1. ApplyWeather(mode', nodes', weather')
    BY <1>1, <1>2, <1>5 DEF ApplyWeather, RoomsIn, Occupied, PlayersIn, Reconcile, StripZoneWeather,
       RefineRooms, ZoneWant, RoomWant, WantId
  <2> QED
    BY <1>2, <1>3, <1>5, <2>1, ApplyKeepsInv
<1>6. CASE simReady /\ mode' = "off"
  <2>1. roomList' = StripRooms(Occupied) /\ zoneList' = Reconcile(weather)
    BY <1>1, <1>6
  <2>2. AllSingle(zoneList, roomList) /\ \A r \in Rooms : roomList[r] \in Lists /\ Single(roomList[r])
    BY InvListFacts DEF AllSingle
  <2>3. /\ Reconcile(weather) \in [Zones -> Lists]
        /\ \A z \in Zones : Single(Reconcile(weather)[z])
        /\ \A z \in DOMAIN weather : Only(Reconcile(weather)[z], ZoneWant(weather, z))
    BY <1>3, <2>2, ReconcileFacts, WantFacts DEF Reconcile, AllSingle
  <2>4. StripRooms(Occupied) \in [Rooms -> Lists] /\ \A r \in Rooms : Single(StripRooms(Occupied)[r])
    BY <2>2, BareFacts DEF StripRooms
  <2>5. AllSingle(zoneList', roomList')
    BY <2>1, <2>3, <2>4 DEF AllSingle
  <2>6. \A z \in DOMAIN weather' : Only(zoneList'[z], ZoneWant(weather', z))
    BY <1>2, <2>1, <2>3 DEF ZoneWant, WantId
  <2> QED
    BY <1>2, <1>3, <1>6, <2>5, <2>6, InvOf
<1> QED
  BY <1>3, <1>4, <1>5, <1>6

\* The invariants hold together in every reachable state.
THEOREM RoomWeatherInvariant == Spec => []IInv
<1>1. Init => IInv
  <2> SUFFICES ASSUME Init PROVE IInv
    OBVIOUS
  <2>1. zoneList \in [Zones -> Lists] /\ \A z \in Zones : Single(zoneList[z])
    BY BareFacts DEF Init
  <2>2. roomList \in [Rooms -> Lists] /\ \A r \in Rooms : Single(roomList[r])
    <3> SUFFICES ASSUME NEW list \in {Bare} \cup {[Bare EXCEPT ![id] = 1] : id \in Loaded}
                 PROVE  list \in Lists /\ Single(list)
      BY DEF Init
    <3>1. CASE list = Bare
      BY <3>1, BareFacts
    <3>2. CASE list # Bare
      <4>1. PICK id \in Loaded : list = [Bare EXCEPT ![id] = 1]
        BY <3>2
      <4>2. id \in Ids
        BY TypesAssumption
      <4>3. list \in Lists /\ \A j \in Ids : list[j] = IF j = id THEN 1 ELSE 0
        BY <4>1 DEF Bare, Lists
      <4>4. Only(list, id)
        BY <4>3 DEF Only
      <4> QED
        BY <4>2, <4>3, <4>4 DEF Single
    <3> QED
      BY <3>1, <3>2
  <2>3. \E g \in SUBSET Zones : weather \in [g -> Types]
    <3>1. CASE weather = <<>>
      <4>1. {} \in SUBSET Zones /\ weather \in [{} -> Types]
        BY <3>1
      <4> QED
        BY <4>1
    <3>2. CASE weather # <<>>
      BY <3>2, GraphsAssumption DEF Init
    <3> QED
      BY <3>1, <3>2
  <2>4. TypeOK
    <3>1. queue \in Seq([from : Rooms, to : Rooms])
      BY DEF Init
    <3>2. location \in [Players -> Rooms \cup {Nowhere}]
      BY DEF Init
    <3>3. simReady \in BOOLEAN /\ mode \in Modes /\ nodes \in Graphs
      BY DEF Init
    <3> QED
      BY <2>1, <2>2, <2>3, <3>1, <3>2, <3>3 DEF TypeOK, Lists
  <2> QED
    BY <2>1, <2>2, <2>4 DEF Init, IInv, OneWeatherPerList, PlayersSeeTheirWeather,
       RoomsAreTheOnlyCarriers, ZonesShowTheirWeather
<1>2. IInv /\ [Next]_vars => IInv'
  <2> SUFFICES ASSUME IInv, [Next]_vars PROVE IInv'
    OBVIOUS
  <2>1. mode \in Modes /\ nodes \in Graphs /\ \E d \in SUBSET Zones : weather \in [d -> Types]
    BY DEF IInv, TypeOK
  <2>2. ASSUME NEW p \in Players, Logout(p) PROVE IInv'
    BY <2>2, LogoutKeepsInv
  <2>3. ASSUME NEW p \in Players, NEW r \in Rooms, Move(p, r) \/ Login(p, r) PROVE IInv'
    <3>1. PICK from \in Rooms : queue' = Changed(from, r)
      BY <2>3 DEF Move, Login
    <3>2. UNCHANGED <<simReady, mode, nodes, weather, lists>> /\ location' = [location EXCEPT ![p] = r]
      BY <2>3 DEF Move, Login
    <3> QED
      BY <3>1, <3>2, WalkKeepsInv
  <2>4. CASE Decay
    BY <2>4, DecayKeepsInv
  <2>5. CASE StartSim
    <3>1. ApplyWeather(mode', nodes', weather') /\ simReady' = TRUE
          /\ UNCHANGED <<mode, nodes, weather, location, queue>>
      BY <2>5 DEF StartSim, ApplyWeather, RoomsIn, Occupied, PlayersIn, Reconcile, StripZoneWeather,
         RefineRooms, ZoneWant, RoomWant, WantId
    <3> QED
      BY <2>1, <3>1, ApplyKeepsInv
  <2>6. CASE OnRoomChange
    BY <2>6, EventKeepsInv
  <2>7. CASE NewWeather
    <3>1. PICK w \in [nodes -> Types] : weather' = w /\ ApplyWeather(mode, nodes, w)
      BY <2>7 DEF NewWeather
    <3>2. simReady' = simReady /\ simReady /\ UNCHANGED <<mode, nodes, location, queue>>
      BY <2>7 DEF NewWeather
    <3>3. \E d \in SUBSET Zones : weather' \in [d -> Types]
      BY <2>1, <3>1, GraphsAssumption
    <3>4. ApplyWeather(mode', nodes', weather')
      BY <3>1, <3>2 DEF ApplyWeather, RoomsIn, Occupied, PlayersIn, Reconcile, StripZoneWeather,
         RefineRooms, ZoneWant, RoomWant, WantId
    <3> QED
      BY <2>1, <3>2, <3>3, <3>4, ApplyKeepsInv DEF IInv, TypeOK
  <2>8. CASE Rebuild
    <3>1. PICK g \in Graphs : nodes' = g /\ simReady' = TRUE /\ ApplyWeather(mode, g, weather)
      BY <2>8 DEF Rebuild
    <3>2. UNCHANGED <<mode, weather, location, queue>>
      BY <2>8 DEF Rebuild
    <3>3. ApplyWeather(mode', nodes', weather')
      BY <3>1, <3>2 DEF ApplyWeather, RoomsIn, Occupied, PlayersIn, Reconcile, StripZoneWeather,
         RefineRooms, ZoneWant, RoomWant, WantId
    <3> QED
      BY <2>1, <3>1, <3>2, <3>3, ApplyKeepsInv
  <2>9. CASE SetMode
    BY <2>9, ModeKeepsInv
  <2>10. CASE UNCHANGED vars
    <3>0. UNCHANGED <<simReady, mode, nodes, weather, zoneList, roomList, location, queue>>
      BY <2>10 DEF vars, lists
    <3>1. TypeOK'
      BY <3>0 DEF IInv, TypeOK
    <3>2. OneWeatherPerList'
      BY <3>0 DEF IInv, OneWeatherPerList, Single, Only
    <3>3. PlayersSeeTheirWeather'
      BY <3>0 DEF IInv, PlayersSeeTheirWeather, Occupied, PlayersIn, Only, RoomsIn, RoomWant, WantId
    <3>4. RoomsAreTheOnlyCarriers'
      BY <3>0 DEF IInv, RoomsAreTheOnlyCarriers, Only
    <3>5. ZonesShowTheirWeather'
      BY <3>0 DEF IInv, ZonesShowTheirWeather, Only, ZoneWant, WantId
    <3> QED
      BY <3>1, <3>2, <3>3, <3>4, <3>5 DEF IInv
  <2> QED
    BY <2>2, <2>3, <2>4, <2>5, <2>6, <2>7, <2>8, <2>9, <2>10 DEF Next, External
<1> QED
  BY <1>1, <1>2, PTL DEF Spec

(* Every state of the placement of weather is well formed. *)
THEOREM RoomTypeCorrect == Spec => []TypeOK
BY RoomWeatherInvariant, PTL DEF IInv

(* No zone and no room ever carries two weather mutators, or one twice. *)
THEOREM NeverTwoWeathers == Spec => []OneWeatherPerList
BY RoomWeatherInvariant, PTL DEF IInv

(* No player is shown another zone's or an older weather once the events of *)
(* the entries into the room are handled.                                   *)
THEOREM PlayersSee == Spec => []PlayersSeeTheirWeather
BY RoomWeatherInvariant, PTL DEF IInv

(* In the room modes no zone of the graph carries weather. *)
THEOREM OnlyRoomsCarry == Spec => []RoomsAreTheOnlyCarriers
BY RoomWeatherInvariant, PTL DEF IInv

(* In mode "off" a zone the simulation knows shows its weather or nothing. *)
THEOREM ZonesShow == Spec => []ZonesShowTheirWeather
BY RoomWeatherInvariant, PTL DEF IInv
=============================================================================
