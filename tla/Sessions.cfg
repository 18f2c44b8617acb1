\* Two users, one of whom may be banned and change his password, two commands at a
\* time; the refresh token outlives the access token by a tick.
SPECIFICATION Spec
CONSTANTS
    u1 = u1
    u2 = u2
    Users = {u1, u2}
    Bannable = {u1}
    Commands = {p1, p2}
    AccessTTL = 1
    RefreshTTL = 2
    Missing = Missing
    Unreadable = Unreadable
    None = None
INVARIANTS
    TypeOK
    RequestIsOwn
PROPERTIES
    LockedOutForGood
    BannedIsLockedOut
