SPECIFICATION Spec
CONSTANTS
    p1 = p1
    p2 = p2
    Zones <- MCZones
    Rooms <- MCRooms
    Players <- OnePlayer
    ZoneOf <- MCZoneOf
    Indoor <- MCIndoor
    Types <- TwoTypes
    Loaded <- MCLoaded
    Graphs <- Crawls
    Modes <- ZoneMode
    MaxQueue = 1
PROPERTIES TickStripsStaleZones
