SPECIFICATION Spec
CONSTANTS
    h1 = h1
    h2 = h2
    Handlers <- TwoHandlers
    Keys <- SeasonKeys
    Unregistered <- NoKeys
    TracksUsable = TRUE
    r1 = r1
    Rooms <- OneRoom
    MaxWrites = 2
    MaxPending = 2
INVARIANTS SeasonsFollowConfig
