\* Services that listen again, at names and at ports, with other subjects, that end
\* in every way and are followed by others; a client that does as it likes.
SPECIFICATION Spec
CONSTANTS
    sv1 = sv1
    sv2 = sv2
    n1 = n1
    n2 = n2
    p1 = p1
    p2 = p2
    x1 = x1
    x2 = x2
    Services = {sv1, sv2}
    Nobody = Nobody
    Names = {n1, n2}
    Ports = {p1, p2}
    NoServer = NoServer
    Idle = Idle
    Subjects = {x1, x2}
    NoSubject = NoSubject
    Clients = {cl1}
    NoAddress = NoAddress
    Contested = {}
SYMMETRY Symmetry
INVARIANTS
    TypeOK
    ListensAsTold
    OneCounterpart
