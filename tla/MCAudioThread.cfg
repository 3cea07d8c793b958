SPECIFICATION FairSpec
INVARIANT BlockedIsQuiet
PROPERTY FreeReturns
PROPERTY StopOfPlayingReturns
PROPERTY StartedPlays
