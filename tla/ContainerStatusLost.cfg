\* The user cancels a Container that was loaded without a lock.
SPECIFICATION Spec
CONSTANTS
    user = user
    scheduler = scheduler
    node = node
    Workers = {user, scheduler, node}
    ForUpdate = {scheduler, node}
    Wants <- MCWants
    None = None
    MaxFailures = 0
PROPERTY
    CancelledOnlyIfNotScheduled
