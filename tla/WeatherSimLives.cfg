\* No hard cap on age: only the soft cap and its growing decay end a front,
\* while the sea feeds it.  Ticks are fair.
CONSTANTS
    Zones <- MCZones
    WeatherTypes <- MCTypes
    Graphs <- MCGraphs
    Climates <- MCClimates
    Configs <- OneFront
    Scale = 4
    AgePenalty = 1
    HistoryLen = 1
    FrontHardAge = 0
    Falloff <- Halving
    MinProjected = 1
    MaxFrontRadius = 1
    SpawnIntensities = {3}
    SpawnMaxAges = {1, 2}
    ForcedIntensities = {0}
    ForcedDefault = 2
    ForcedMaxAge = 2
    MaxId = 1
    MaxForced = 1
SPECIFICATION FairSpec
INVARIANTS BoundedLives
PROPERTIES EveryFrontDies RerollOnlyMoversOrStranded
