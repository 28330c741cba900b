\* Two customers claim one request.
CONSTANTS
    Keys = {k1}
    Users = {u1, u2}
    Handlers = {h1, h2}
    Refs = {r1, r2, r3, r4}
    MockProviders = {EQUITY}
    AsyncProviders = {MPESA}
    None = None
SPECIFICATION Spec
SYMMETRY Symmetry
PROPERTIES
    ClaimIsFinal
\* The server may stop: every request answered and no other one arriving.
CHECK_DEADLOCK FALSE
