\* Three requests of two logins: a preview, and two that race with it.
SPECIFICATION Spec
CONSTANTS
    Request = {r1, r2, r3}
    Login = {l1, l2}
    Socket = {k1}
    User <- TwoUsers
    File <- TwoFiles
    Slots = 2
    MaxLogins = 2
    MaxPreviews = 1
    None = None
    Free = Free
SYMMETRY RequestSymmetry
INVARIANTS NothingOutlivesItsLogin ImportIsItsPreview
PROPERTIES CommitIsStillWanted
CHECK_DEADLOCK FALSE
