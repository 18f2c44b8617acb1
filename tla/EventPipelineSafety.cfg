\* Safety and refinement: one request, two members, up to two failures.
SPECIFICATION Spec
CONSTANTS
    Requests = {r1}
    Members = {m1, m2}
    h1 = h1
    h2 = h2
    Rpc = Rpc
    None = None
    UUIDs = {u1, u2, u3}
    MaxFailures = 2
    Chain <- MCChain
    Subscribed <- MCSubscribed
    Emits <- MCEmits
SYMMETRY Symmetry
INVARIANTS
    TypeOK
    NoLostEvents
    EffectsExactlyOnce
    EffectsInChainOrder
    NoPhantomWithoutFailure
PROPERTIES
    ImplementsDelivery
\* The system stops when every message is acknowledged.
CHECK_DEADLOCK FALSE
