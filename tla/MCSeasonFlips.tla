---------------------------- MODULE MCSeasonFlips ----------------------------
(***************************************************************************)
(* Small instances of SeasonFlips: zones "a" and "b", a track of two or    *)
(* three seasons and one of two; crawls that rebind "b" or lose its track. *)
(***************************************************************************)
EXTENDS SeasonFlips

MCZones == {"a", "b"}
MCSeasonCount == [temperate |-> 3, monsoon |-> 2]
TwoSeasons == [temperate |-> 2, monsoon |-> 2]

Both == [a |-> "temperate", b |-> "temperate"]
Rebound == [a |-> "temperate", b |-> "monsoon"]
Lost == [a |-> "temperate", b |-> Unbound]

MCCrawls == {Both, Rebound, Lost}
OneCrawl == {Both}
=============================================================================
