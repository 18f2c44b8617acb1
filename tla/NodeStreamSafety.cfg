\* Three calls on two servers, two failures.
SPECIFICATION Spec
CONSTANTS
    s1 = s1
    s2 = s2
    c1 = c1
    c2 = c2
    c3 = c3
    Calls = {c1, c2, c3}
    Servers = {s1, s2}
    At <- MCAtTwo
    MaxTasks = 1
    None = None
    MaxFailures = 2
INVARIANTS
    TypeOK
    OneStreamPerServer
    StreamsFromItsChannel
    LastEventIsStatus
    OnlineOnlyIfServed
\* The system stops when the calls are done and the Tasks handled.
CHECK_DEADLOCK FALSE
