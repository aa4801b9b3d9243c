\* Three fronts over two graphs, two climates and two settings of the knobs.
CONSTANTS
    Zones <- MCZones
    WeatherTypes <- MCTypes
    Graphs <- MCGraphs
    Climates <- MCClimates
    Configs <- MCConfigs
    Scale = 4
    AgePenalty = 1
    HistoryLen = 1
    FrontHardAge = 2
    Falloff <- Halving
    MinProjected = 1
    MaxFrontRadius = 2
    SpawnIntensities = {3}
    SpawnMaxAges = {1}
    ForcedIntensities = {0, 5}
    ForcedDefault = 2
    ForcedMaxAge = 1
    MaxId = 3
    MaxForced = 2
SPECIFICATION Spec
INVARIANTS QueryAgreesWithWeather
PROPERTIES TickRespectsBudget ClearTakesEffect LedgerSpec
