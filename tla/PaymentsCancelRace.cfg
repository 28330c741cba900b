\* A cancel races a claim.
CONSTANTS
    Keys = {k1}
    Users = {u1}
    Handlers = {h1, h2}
    Refs = {r1, r2, r3, r4}
    MockProviders = {EQUITY}
    AsyncProviders = {MPESA}
    None = None
SPECIFICATION Spec
SYMMETRY Symmetry
PROPERTIES
    ResolvedIsFinal
\* The server may stop: every request answered and no other one arriving.
CHECK_DEADLOCK FALSE
