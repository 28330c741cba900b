\* A customer taps twice while answers get lost and fetches race.
CONSTANTS
    Keys = {k1, k2}
    Users = {u1}
    Handlers = {h1, h2}
    Refs = {r1, r2, r3}
    MockProviders = {EQUITY}
    AsyncProviders = {MPESA}
    None = None
    Customer = u1
    Funds = 1
    HistoryTaps = 1
SPECIFICATION WalletSpec
SYMMETRY Symmetry
INVARIANTS
    WalletTypeOK
    TapChargesOnce
    PaidIsCharged
    DeclinedChargesByPrompt
    BalancesCatchUp
    HistoryCatchesUp
    ListedPaidHasCharge
PROPERTIES
    ImplementsCheckout
\* The phone may be left alone.
CHECK_DEADLOCK FALSE
