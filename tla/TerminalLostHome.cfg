\* One request, cancelled while a poll is under way.
CONSTANTS
    MaxRequests = 1
    MaxMoves = 1
    Slots = {s1, s2}
    Outcomes = {"COMPLETED", "CANCELLED"}
SPECIFICATION Spec
SYMMETRY Symmetry
INVARIANTS
    HomeStaysFirst
\* The last request may be over and its receipt left.
CHECK_DEADLOCK FALSE
