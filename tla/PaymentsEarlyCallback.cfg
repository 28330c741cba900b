\* A callback that arrives before the attempt is committed.
CONSTANTS
    Keys = {k1}
    Users = {u1}
    Handlers = {h1}
    Refs = {r1, r2}
    MockProviders = {EQUITY}
    AsyncProviders = {MPESA}
    None = None
SPECIFICATION Spec
SYMMETRY Symmetry
INVARIANTS
    NoCallbackLost
\* The server may stop: every request answered and no other one arriving.
CHECK_DEADLOCK FALSE
