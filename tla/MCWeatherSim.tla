------------------------------ MODULE MCWeatherSim ------------------------------
(***************************************************************************)
(* Small instances of WeatherSim: zones "a", "b", "c" in a line, or "a"    *)
(* and "b" as islands with "c" dropped from the graph; two biomes, the     *)
(* second without a profile of its own; intensities in quarters.           *)
(***************************************************************************)
EXTENDS WeatherSim

Symmetric(edges) ==
    [z \in Zones |-> {y \in Zones : {y, z} \in edges /\ y # z}]

GraphOf(nodes, biome, edges) ==
    [nodes |-> nodes, biome |-> [z \in nodes |-> biome[z]], nbrs |-> Symmetric(edges)]

MCZones == {"a", "b", "c"}

BiomeOf == [a |-> "sea", b |-> "sea", c |-> "bog"]

Line == GraphOf(MCZones, BiomeOf, {{"a", "b"}, {"b", "c"}})
Islands == GraphOf({"a", "b"}, BiomeOf, {})

\* The sea feeds a front and lets it drift; the default profile saps it and
\* may hold it; "bog" has no profile.
Mild == [sea |-> [weights |-> [rain |-> 2, clear |-> 1], delta |-> 1,
                  resistance |-> "none", spawns |-> TRUE],
         default |-> [weights |-> [rain |-> 0, clear |-> 1], delta |-> -1,
                      resistance |-> "some", spawns |-> FALSE]]

\* A season in which nothing spawns, nothing moves and the sea draws no types.
Still == [sea |-> [weights |-> [rain |-> 0], delta |-> 0,
                   resistance |-> "all", spawns |-> FALSE],
          default |-> [weights |-> <<>>, delta |-> 0,
                       resistance |-> "all", spawns |-> TRUE]]

\* Half of the strength is lost at every hop (pow).
Halving == [h \in 0 .. MaxFrontRadius |-> 2 ^ (MaxFrontRadius - h)]

MCTypes == {"clear", "rain"}

MCGraphs == {Line, Islands}

MCClimates == {Mild, Still}

\* A lowered budget leaves two fronts over it, and a tick that may spawn a third.
MCConfigs == {[budget |-> 1, spawn |-> "maybe"], [budget |-> 2, spawn |-> "always"]}
OneFront == {[budget |-> 1, spawn |-> "maybe"]}
=============================================================================
