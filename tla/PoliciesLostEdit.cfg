\* One device, two controls touched quickly, no failure needed.
CONSTANTS
    Devices = {d1}
    Requests = {q1, q2}
    Payments = {}
    Connections = {c1}
    Modes = {PRIMARY, FALLBACK}
    DefaultMode = PRIMARY
    MaxEdits = 2
    None = None
SPECIFICATION Spec
SYMMETRY Symmetry
INVARIANTS
    LastChoiceStored
\* The screen may stay open with nothing left to do.
CHECK_DEADLOCK FALSE
