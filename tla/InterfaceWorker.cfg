\* One call at a time: do the threads agree on what exists, and does
\* connectToServer return when the server leaves?
SPECIFICATION FairSpec
CONSTANTS
    Overlap = {}
    Faults = {"leave"}
    MaxCalls = 4
    MaxSends = 2
    MaxNested = 1
    MaxSockets = 2
INVARIANTS
    TypeOK
    NoDeadSocket
    ConnectionOutlivesWait
PROPERTIES
    ConnectReturns
    DisconnectReturns
\* The application may stop calling, and disconnectFromServer may block for ever.
CHECK_DEADLOCK FALSE
