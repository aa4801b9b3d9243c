\* Every entry point of the game loop, with crashes.  It may stop: the rounds
\* and the requests run out.
CONSTANTS
    MaxChanges = 2
    MaxWorld = 1
    Hours = {1, 2}
    Cadences = {5, 6}
    FirstStores <- MCFirstStores
    RoundsPerHour = 2
    MaxRound = 4
    SavedKeys = {"hours", "every"}
    MaxRequests = 2
SPECIFICATION LoopSpec
INVARIANTS SnapshotCurrent TicksKeepTheirPace EmotesPaced ReadyWhenMapped ResumesWhereItWas
PROPERTIES GraphNeverAges JournalSpec
CHECK_DEADLOCK FALSE
