\* Two signals and a web request at any moment, one cleanup step that raises.
SPECIFICATION ServiceFairSpec
CONSTANTS
    MaxSignals = 2
    MaxFailures = 1
INVARIANTS CleanedOnce OnlyRaisersStayUp
PROPERTIES ShutdownEnds
CHECK_DEADLOCK FALSE
