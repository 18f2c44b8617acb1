\* All callers load the Container FOR UPDATE.
SPECIFICATION FairSpec
CONSTANTS
    user = user
    scheduler = scheduler
    node = node
    Workers = {user, scheduler, node}
    ForUpdate = {user, scheduler, node}
    Wants <- MCWants
    None = None
    MaxFailures = 2
INVARIANTS
    TypeOK
    LastEventIsStatus
PROPERTIES
    TransitionsFollowTable
    RowIsReleased
