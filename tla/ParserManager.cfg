\* Two mount points, a source that returns, two requests for real-time parsing.
SPECIFICATION Spec
CONSTANTS
    Mount <- TwoMounts
    Session <- ThreeSessions
    MountOf <- Stations
    Request <- TwoRequests
    None = None
    MaxStops = 1
INVARIANTS DictionariesAgree OneWebParser EndedParserHasWaiter
PROPERTIES CorrectionStoppedOnlyBy
CHECK_DEADLOCK FALSE
