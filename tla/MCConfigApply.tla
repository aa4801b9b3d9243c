---------------------------- MODULE MCConfigApply ----------------------------
(* Small instances of ConfigApply for TLC. *)
EXTENDS ConfigApply, TLC

CONSTANTS h1, h2, r1

TwoHandlers == {h1, h2}
OneRoom == {r1}

NoKeys == {}
SeasonKeys == {"SeasonsEnabled", "MaxActiveFronts"}
KnobAndLiveKeys == {"MaxActiveFronts", "SeasonsEnabled", "BuffsEnabled", "PerRoomRefinement"}
=============================================================================
