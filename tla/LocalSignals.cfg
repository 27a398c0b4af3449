\* Two objects with two signals, and two remote methods; links are connected
\* twice at once, and objects come and go at the same addresses.
SPECIFICATION Spec
CONSTANTS
    o1 = o1
    o2 = o2
    sig1 = sig1
    sig2 = sig2
    m1 = m1
    m2 = m2
    h1 = h1
    h2 = h2
    h3 = h3
    Objects = {o1, o2}
    Signals = {sig1, sig2}
    Methods = {m1, m2}
    Handlers = {h1, h2, h3}
    MaxCalls = 3
    MaxNested = 2
SYMMETRY MCSymmetry
INVARIANTS
    TypeOK
    RelayedOnce
    EntriesMatchWiring
PROPERTIES
    ImplementsLinks
\* Applications may stop, and leaked handlers use up Handlers.
CHECK_DEADLOCK FALSE
