\* Two clients, two ids, two signals the subject has and one it lacks.  Three
\* handlers: a doomed one may outlive its successor and that one's successor.
SPECIFICATION Spec
CONSTANTS
    c1 = c1
    c2 = c2
    h1 = h1
    h2 = h2
    h3 = h3
    id1 = id1
    id2 = id2
    s1 = s1
    s2 = s2
    s3 = s3
    Conns = {c1, c2}
    Handlers = {h1, h2, h3}
    Ids = {id1, id2}
    Signatures = {s1, s2, s3}
    Exposed = {s1, s2}
    NoConn = NoConn
    NoHandler = NoHandler
    NoSignature = NoSignature
    MaxWired = 2
SYMMETRY MCSymmetry3
INVARIANTS
    TypeOK
    NoDanglingPointers
    RegisteredHandlerInUse
    NoIdleHandler
PROPERTIES
    ImplementsSubscriptions
