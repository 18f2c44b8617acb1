\* One server: graceful stop and the consumer, one failure.
SPECIFICATION FairSpec
CONSTANTS
    s1 = s1
    s2 = s2
    c1 = c1
    c2 = c2
    c3 = c3
    Calls = {c1, c2}
    Servers = {s1}
    At <- MCAtOne
    MaxTasks = 2
    None = None
    MaxFailures = 1
INVARIANTS
    StatusFollowsStream
PROPERTIES
    StopCompletes
    ConsumerNotStuck
\* The system stops when the calls are done and the Tasks handled.
CHECK_DEADLOCK FALSE
