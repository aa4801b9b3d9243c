CONSTANTS
    FirstOverlay <- MCFirst
    NewKeys <- MCNew
    OverrideKeys <- MCOverrides
    Values <- MCValues
    Default <- MCDefault
    OverriddenBuffs <- MCOverridden
    Shipped <- MCShipped
    SpecOf <- MCSpecOf
    MaxSaves = 2
    MaxEdits = 1
SPECIFICATION Spec
INVARIANTS FileKeepsWhatWasAsked OperatorIsHonoured HealedForGood BuffsOffMeansNone
