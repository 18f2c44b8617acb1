\* Three rows of two users, pages of up to two rows.
SPECIFICATION WalkSpec
CONSTANTS
    r1 = r1
    r2 = r2
    r3 = r3
    u1 = u1
    u2 = u2
    Rows = {r1, r2, r3}
    Users = {u1, u2}
    MaxLimit = 2
    Limits = {1, 3}
    Callers = {"an admin", "another"}
    MaxClock = 3
SYMMETRY Symmetry
CONSTRAINT NotShrunk
INVARIANTS
    WalkMissesNothing
    PageIsFull
\* The list ends, the changes of the table are bounded.
CHECK_DEADLOCK FALSE
