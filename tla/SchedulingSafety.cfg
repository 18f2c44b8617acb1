\* Two processes, two Containers that both fit on one Node, one of which may be cancelled.
SPECIFICATION Spec
CONSTANTS
    Processes = {p1, p2}
    n1 = n1
    c1 = c1
    c2 = c2
    Nodes = {n1}
    Containers = {c1, c2}
    Limit <- MCLimit
    Capacity <- MCCapacity
    Reschedule = {c1}
    Cancellable = {c1}
    MaxTasks = 2
    MaxConnects = 1
    MaxFailures = 1
    None = None
CONSTRAINT UntilDisturbed
SYMMETRY Symmetry
INVARIANTS
    TypeOK
    Accounting
    RunsOnOneNode
PROPERTY
    ImplementsPlacement
\* The system stops when nothing is left to handle.
CHECK_DEADLOCK FALSE
