\* A behaviour is one call of Build, which returns: it may stop.
CONSTANTS
    Zones <- MCZones
    Rooms <- MCRooms
    Exits <- MCExits
    Worlds <- MCWorlds
    Options <- MCOptions
SPECIFICATION FairSpec
CHECK_DEADLOCK FALSE
INVARIANTS ComponentsCounted ExclusionInduces NeighborsAgree BadPatternsNeverCount
PROPERTIES CrawlEnds
