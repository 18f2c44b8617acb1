\* Liveness of one message that two members of the queue group handle.
SPECIFICATION FairSpec
CONSTANTS
    Requests = {r1}
    Members = {m1, m2}
    h1 = h1
    h2 = h2
    Rpc = Rpc
    None = None
    UUIDs = {u1}
    MaxFailures = 2
    Chain <- MCChain
    Subscribed <- MCSubscribed
    Emits <- MCEmitsNone
PROPERTIES
    ImplementsFairDelivery
\* The system stops when every message is acknowledged.
CHECK_DEADLOCK FALSE
