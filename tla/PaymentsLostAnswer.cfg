\* A retry after an aborted request.
CONSTANTS
    Keys = {k1}
    Users = {u1}
    Handlers = {h1}
    Refs = {r1, r2, r3, r4}
    MockProviders = {EQUITY}
    AsyncProviders = {MPESA}
    None = None
SPECIFICATION Spec
SYMMETRY Symmetry
INVARIANTS
    RetryNeverChargesTwice
\* The server may stop: every request answered and no other one arriving.
CHECK_DEADLOCK FALSE
