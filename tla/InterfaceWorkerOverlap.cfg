\* Calls made while connectToServer waits, of everything but itself.
SPECIFICATION Spec
CONSTANTS
    Overlap = {"send", "disconnect"}
    Faults = {"leave", "write"}
    MaxCalls = 3
    MaxSends = 2
    MaxNested = 2
    MaxSockets = 2
INVARIANTS
    CallerWaits
PROPERTIES
    RegisteredOnReturn
\* The application may stop calling, and disconnectFromServer may block for ever.
CHECK_DEADLOCK FALSE
