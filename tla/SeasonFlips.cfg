\* Everything at once: turns, ticks, rebuilds, the switch, decay and restarts.
CONSTANTS
    Zones <- MCZones
    SeasonCount <- TwoSeasons
    Crawls <- MCCrawls
    TracksUsable = TRUE
    MaxQueue = 1
SPECIFICATION FairSpec
INVARIANTS SeasonsShown EventsSuffice
PROPERTIES SeasonsCatchUp
