\* One device that may touch a control before the last one was answered.
CONSTANTS
    Devices = {d1}
    Requests = {q1, q2}
    Payments = {p1}
    Connections = {c1, c2}
    Modes = {PRIMARY, FALLBACK}
    DefaultMode = PRIMARY
    MaxEdits = 2
    None = None
SPECIFICATION Spec
SYMMETRY Symmetry
INVARIANTS
    TypeOK
    EditsKept
    StoredValuesWereChosen
    NoCallAfterDisconnect
PROPERTIES
    PolicyNeverReset
\* The screen may stay open with nothing left to do.
CHECK_DEADLOCK FALSE
