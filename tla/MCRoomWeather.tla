---------------------------- MODULE MCRoomWeather ----------------------------
(***************************************************************************)
(* Small instances of RoomWeather: zone "a" with an outdoor and an indoor  *)
(* room, zone "b" with an outdoor room, "b" dropped by some crawls.        *)
(***************************************************************************)
EXTENDS RoomWeather, TLC

CONSTANTS p1, p2

MCZones == {"a", "b"}
MCRooms == {"field", "cave", "hill"}
MCZoneOf == [field |-> "a", cave |-> "a", hill |-> "b"]
MCIndoor == {"cave"}

TwoTypes == {"clear", "rain"}

OnePlayer == {p1}
TwoPlayers == {p1, p2}

\* Players are interchangeable: no action or property names one.
PlayerSymmetry == Permutations(TwoPlayers)

\* Every spec file is there.
MCLoaded == Ids

Crawls == {MCZones, {"a"}}

AllModes == {"off", "occupied", "all"}
ZoneMode == {"off"}
=============================================================================
