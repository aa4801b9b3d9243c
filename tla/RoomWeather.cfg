SPECIFICATION Spec
CONSTANTS
    p1 = p1
    p2 = p2
    Zones <- MCZones
    Rooms <- MCRooms
    Players <- TwoPlayers
    ZoneOf <- MCZoneOf
    Indoor <- MCIndoor
    Types <- TwoTypes
    Loaded <- MCLoaded
    Graphs <- Crawls
    Modes <- AllModes
    MaxQueue = 2
SYMMETRY PlayerSymmetry
INVARIANTS OneWeatherPerList PlayersSeeTheirWeather RoomsAreTheOnlyCarriers ZonesShowTheirWeather
