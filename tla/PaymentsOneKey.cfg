\* Three requests on one payment: claims, cancels, retries and callbacks race.
CONSTANTS
    Keys = {k1}
    Users = {u1, u2}
    Handlers = {h1, h2, h3}
    Refs = {r1, r2, r3, r4}
    MockProviders = {EQUITY}
    AsyncProviders = {MPESA}
    None = None
SPECIFICATION Spec
SYMMETRY Symmetry
INVARIANTS
    TypeOK
    RoutingIsExclusive
    OneLiveCallPerRouting
    CompletedIsCharged
    PendingHasPrompt
    AttemptsTellTheTruth
    CustomerPaymentRoutedOnce
PROPERTIES
    CustomerPaymentIsFinal
    ForgottenByAbortOnly
    FinalAtRest
    ImplementsPurchase
\* The server may stop: every request answered and no other one arriving.
CHECK_DEADLOCK FALSE
