\* Two users on one phone, overlapping restore, logins and logouts.
CONSTANTS
    Users = {u1, u2}
    Tasks = {t1, t2}
    Requests = {q1, q2}
    MaxLogins = 3
    MaxRestarts = 1
    None = None
SPECIFICATION Spec
SYMMETRY Symmetry
INVARIANTS
    TypeOK
    ScreenFollowsToken
    StorageFollowsToken
    FetchRepairs
    BioIDIsOwn
    LoadingMeansLogin
\* The phone may be left alone.
CHECK_DEADLOCK FALSE
