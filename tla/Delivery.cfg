\* Two clients that connect once and use every other operation, one call at a
\* time, while the subject emits twice.
SPECIFICATION Spec
CONSTANTS
    c1 = c1
    c2 = c2
    c3 = c3
    h1 = h1
    h2 = h2
    id1 = id1
    id2 = id2
    id3 = id3
    s1 = s1
    s2 = s2
    r1 = r1
    r2 = r2
    cl1 = cl1
    cl2 = cl2
    Conns = {c1, c2}
    Handlers = {h1, h2}
    Ids = {id1, id2}
    Signatures = {s1}
    Exposed = {s1}
    NoConn = NoConn
    NoHandler = NoHandler
    NoSignature = NoSignature
    MaxWired = 4
    Clients = {cl1, cl2}
    Receivers = {r1, r2}
    NoReceiver = NoReceiver
    IdsOf <- OwnIds
    NullId = NullId
    Uses <- Roles
    MaxCalls <- FourAndTwo
    MaxConnects = 1
    MaxNested = 1
    MaxEmits = 2
SYMMETRY Symmetry
INVARIANTS
    TypeOK
    OwedOnTheWay
    OncePerRequest
    NoDeadReceiver
PROPERTIES
    InOrder
\* An application may stop calling.
CHECK_DEADLOCK FALSE
