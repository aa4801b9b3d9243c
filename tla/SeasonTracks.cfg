\* All files over three calendars.
CONSTANTS
    Calendars <- MCCalendars
    FileLists <- MCFiles
    BaseWeight = 2
SPECIFICATION Spec
INVARIANTS OddsStayBetween
PROPERTIES AcceptsWhatGoesRound SeasonsTurnInOrder OddsMoveGently
