\* Up to four messages of one to three bytes, cut up in every way.
SPECIFICATION FairSpec
CONSTANTS
    Header = 4
    Sizes = {1, 2, 3}
    Garbage = {1, 5}
    MaxMessages = 4
INVARIANTS
    TypeOK
    NothingLeftBehind
PROPERTIES
    InOrder
    AllProcessed
\* The sender may have nothing more to send.
CHECK_DEADLOCK FALSE
