\* Programs that call each other and themselves, while services are deleted and
\* programs killed: are the answers true, and do the calls return?  A "plain"
\* method would be a "mute" one that answers, or one that "loops" in vain.
SPECIFICATION FairSpec
CONSTANTS
    p1 = p1
    p2 = p2
    Programs = {p1, p2}
    Kinds = {"loops", "mute", "missing", "empty"}
    Faults = {"destroy", "kill", "write"}
    MaxCalls = 2
INVARIANTS
    TypeOK
    AnswerIsTrue
    ConnectionAwaitsMethod
PROPERTIES
    CallReturns
\* Programs may stop calling.
CHECK_DEADLOCK FALSE
