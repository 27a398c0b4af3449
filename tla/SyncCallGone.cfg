\* A service is deleted while a call waits.
SPECIFICATION Spec
CONSTANTS
    p1 = p1
    p2 = p2
    Programs = {p1, p2}
    Kinds = {"plain"}
    Faults = {"destroy"}
    MaxCalls = 1
SYMMETRY Symmetry
INVARIANTS
    TrueMeansInvoked
\* Programs may stop calling.
CHECK_DEADLOCK FALSE
