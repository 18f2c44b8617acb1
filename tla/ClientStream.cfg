\* Two streams, one Task, one redelivery.
SPECIFICATION FairSpec
CONSTANTS
    Streams = {s1, s2}
    MaxTasks = 1
    MaxRedeliveries = 1
    Node = Node
    None = None
INVARIANTS
    TypeOK
    AloneIsReachable
PROPERTIES
    SendIsReceived
    TaskReachesStream
    EndsWithJob
    StopCompletes
\* A stopped server, or one that has died, does nothing more.
CHECK_DEADLOCK FALSE
