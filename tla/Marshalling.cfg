\* "Opaque" has no stream operators, "Local" is registered with the client
\* only and "Remote" with the server only.
SPECIFICATION CallSpec
CONSTANTS
    v1 = v1
    v2 = v2
    i1 = i1
    i2 = i2
    Streamable = {"int", "Local", "Remote"}
    Plain = {"int", "Local", "Remote", "Opaque"}
    ClientTypes = {"int", "Local", "Opaque", "QImage", "QList<QImage>"}
    ServerTypes = {"int", "Remote", "Opaque", "QImage", "QList<QImage>"}
    Values = {v1, v2}
    Images = {i1, i2}
    Methods <- MCMethods
    MaxArguments = 2
    MaxImages = 2
INVARIANTS
    CallTypeOK
    ArgumentsArrive
    ReturnArrives
    LikeInvokeMethod
\* A call is over when it has returned, or lost.
CHECK_DEADLOCK FALSE
