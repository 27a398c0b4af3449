\* Two clients that only connect and disconnect receivers, one call at a time,
\* and may leave; the server deletes promptly.
SPECIFICATION PromptSpec
CONSTANTS
    c1 = c1
    c2 = c2
    c3 = c3
    h1 = h1
    h2 = h2
    id1 = id1
    id2 = id2
    id3 = id3
    s1 = s1
    s2 = s2
    r1 = r1
    r2 = r2
    cl1 = cl1
    cl2 = cl2
    Conns = {c1, c2}
    Handlers = {h1, h2}
    Ids = {id1, id2}
    Signatures = {s1, s2}
    Exposed = {s1, s2}
    NoConn = NoConn
    NoHandler = NoHandler
    NoSignature = NoSignature
    MaxWired = 4
    Clients = {cl1, cl2}
    Receivers = {r1, r2}
    NoReceiver = NoReceiver
    IdsOf <- OwnIds
    NullId = NullId
    Uses <- Pairs
    MaxCalls <- FourEach
    MaxConnects = 1
    MaxNested = 1
SYMMETRY Symmetry
INVARIANTS
    EndsAgree
    LiveHandlerRegistered
\* An application may stop calling.
CHECK_DEADLOCK FALSE
