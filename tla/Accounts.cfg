\* Three requests of the pages, in any mixture, beside a rover; two passwords.
SPECIFICATION Spec
CONSTANTS
    UserName = {u1, u2}
    MountName = {m1, m2}
    Password = {p1, p2}
    Request = {r1, r2, r3}
    Rover = {c1}
    MaxId = 2
    None = None
SYMMETRY Symmetry
INVARIANTS TypeOK RowsAgree StaleRoverOnlyBy
CHECK_DEADLOCK FALSE
