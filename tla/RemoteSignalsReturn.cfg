\* Clients that reconnect, with calls nested in calls; the address of a client's
\* old connection object is used again for its new one.  Do the calls return?
SPECIFICATION FairSpec
CONSTANTS
    c1 = c1
    c2 = c2
    c3 = c3
    h1 = h1
    h2 = h2
    id1 = id1
    id2 = id2
    id3 = id3
    s1 = s1
    s2 = s2
    r1 = r1
    r2 = r2
    cl1 = cl1
    cl2 = cl2
    Conns = {c1, c2, c3}
    Handlers = {h1, h2}
    Ids = {id1, id2, id3}
    Signatures = {s1}
    Exposed = {s1}
    NoConn = NoConn
    NoHandler = NoHandler
    NoSignature = NoSignature
    MaxWired = 4
    Clients = {cl1, cl2}
    Receivers = {r1}
    NoReceiver = NoReceiver
    IdsOf <- OwnIds
    NullId = NullId
    Uses <- Reconnecting
    MaxCalls <- ThreeAndTwo
    MaxConnects = 2
    MaxNested = 3
INVARIANTS
    IdIsMine
PROPERTIES
    CallsReturn
\* An application may stop calling.
CHECK_DEADLOCK FALSE
