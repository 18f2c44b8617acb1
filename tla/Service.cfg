\* Three RPCs of one username; two Nodes of one name; one signal, two crashes, failed
\* commits or events stored by a Send that failed, two failures of what is tried again
\* (which is when the process gives up the database).
SPECIFICATION Spec
CONSTANTS
    Clients = {c1, c2, c3}
    Nodes = {n1, n2}
    Tries = 2
    MaxStops = 1
    MaxFailures = 2
    MaxRetries = 2
    None = None
INVARIANTS
    TypeOK
    PhantomOnlyByFailure
PROPERTIES
    NodeReplicated
\* Once all requests are answered and no signal comes, nothing happens.
CHECK_DEADLOCK FALSE
