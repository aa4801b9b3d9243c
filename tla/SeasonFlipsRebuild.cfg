\* A rebuild between a turn of the calendar and the next tick.
CONSTANTS
    Zones <- MCZones
    SeasonCount <- MCSeasonCount
    Crawls <- OneCrawl
    TracksUsable = TRUE
    MaxQueue = 0
SPECIFICATION Spec
INVARIANTS ListenersFollow
