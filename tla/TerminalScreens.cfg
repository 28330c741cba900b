\* Two requests one after the other, two polls of each under way; no symmetry,
\* liveness properties.
CONSTANTS
    MaxRequests = 2
    MaxMoves = 1
    Slots = {s1, s2}
    Outcomes = {"COMPLETED", "CANCELLED"}
SPECIFICATION FairSpec
INVARIANTS
    TypeOK
    OneResultAtATime
    WaitingKeepsPolling
    NoStaleResult
PROPERTIES
    CancelLeaves
    ResolvedIsShown
\* The last request may be over and its receipt left.
CHECK_DEADLOCK FALSE
