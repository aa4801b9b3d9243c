------------------------------- MODULE MCCrawler -------------------------------
(***************************************************************************)
(* Every graph on four zones, one room and at most one exit per border;    *)
(* and one world with everything the crawler has to sort out: a secret     *)
(* exit, two exits over one border, one that comes back, one inside a      *)
(* zone, one to a room of no zone, a room that does not load.              *)
(***************************************************************************)
EXTENDS Crawler

MCZones == 1 .. 4
MCRooms == 1 .. 6

NoBiomes == [z \in MCZones |-> "none"]

\* Room z is zone z's; the borders in "crossed" have an exit each,
\* named for its two zones.
Plain(crossed) ==
    [zones |-> MCZones, zoneOf |-> [r \in MCZones |-> r], loads |-> MCZones,
     outdoor |-> {1}, biome |-> NoBiomes,
     exits |-> [x \in crossed |-> [from |-> x \div 10, to |-> x % 10, secret |-> FALSE]]]

Borders == {12, 13, 14, 23, 24, 34}

Exit(r, s, hidden) == [from |-> r, to |-> s, secret |-> hidden]

Motley ==
    [zones |-> MCZones,
     zoneOf |-> <<1, 2, 3, 4, 1>>,
     loads |-> {1, 2, 3, 5, 6},
     outdoor |-> {2, 4}, biome |-> NoBiomes,
     exits |-> <<Exit(1, 2, FALSE), Exit(2, 1, FALSE), Exit(5, 2, FALSE), Exit(1, 5, FALSE),
                 Exit(3, 2, TRUE), Exit(4, 3, FALSE), Exit(3, 6, FALSE)>>]

MCExits == 1 .. 7 \cup Borders

MCWorlds == {Plain(crossed) : crossed \in SUBSET Borders} \cup {Motley}

Skip(zones) == [matches |-> zones, bad |-> FALSE]
Bad == [matches |-> {}, bad |-> TRUE]

MCOptions ==
    {[secret |-> TRUE, patterns |-> <<>>],
     [secret |-> FALSE, patterns |-> <<Skip({2})>>],
     [secret |-> TRUE, patterns |-> <<Skip({2, 4}), Bad, Skip({3})>>],
     [secret |-> TRUE, patterns |-> <<Skip({1, 2}), Skip({3, 4}), Bad>>]}
=============================================================================
