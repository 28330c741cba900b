\* Requests that wait for row locks, callbacks whose deliveries fail; no
\* symmetry, liveness properties.
CONSTANTS
    Keys = {k1}
    Users = {u1}
    Handlers = {h1, h2}
    Refs = {r1, r2, r3}
    MockProviders = {EQUITY}
    AsyncProviders = {MPESA}
    Amounts = {50, 45099}
    CallbackURL = TRUE
    None = None
SPECIFICATION DarajaFairSpec
INVARIANTS
    DarajaTypeOK
    CompletedChargeIsNear
PROPERTIES
    EveryRequestEnds
    AnsweredPromptSettles
\* The server may stop: every request answered and no other one arriving.
CHECK_DEADLOCK FALSE
