\* Two rovers of one user at a limit of one, in all and on the mount point, and the administration.
SPECIFICATION FairSpec
CONSTANTS
    Session <- TwoSessions
    User <- OneUser
    UserOf <- Both
    MaxConns = 1
    PerMount = 1
    Free = Free
    Thread = Thread
    Page = Page
    MaxAdmin = 2
INVARIANTS CountIsEntries OvershootIsBurst UserWithinLimit NothingLeftBehind
PROPERTIES DepartedRoverIsForgotten
CHECK_DEADLOCK FALSE
