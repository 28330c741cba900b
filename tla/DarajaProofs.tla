---------------------------- MODULE DarajaProofs ----------------------------
(***************************************************************************)
(* Theorems of Daraja: the adapter's tokens and amounts change nothing of  *)
(* what Payments does, so every theorem of Payments is one of Daraja, and  *)
(* a completed payment was charged its amount up to half a shilling.       *)
(***************************************************************************)
EXTENDS Daraja, PaymentsRefinementProofs

\* Rounding half up is off by at most half a shilling.
LEMMA RoundingIsNear ==
  ASSUME NEW c \in Nat
  PROVE  Shillings(c) \in Nat /\ Near(Shillings(c), c)
  BY DEF Shillings, Near

\* Every step of the adapter is one of Payments, or none.
LEMMA DarajaStep == [DarajaNext]_darajaVars => [Next]_vars
  <1> SUFFICES ASSUME [DarajaNext]_darajaVars PROVE [Next]_vars
    OBVIOUS
  <1>1. ASSUME NEW h \in Handlers, DarajaRoute(h) PROVE [Next]_vars
    BY <1>1 DEF DarajaRoute, GetToken, PushAmount, Next, Route, vars
  <1>2. ASSUME NEW h \in Handlers, DarajaLock(h) \/ DarajaAbort(h) \/ Arrive(h) PROVE [Next]_vars
    BY <1>2 DEF DarajaLock, DarajaAbort, Next
  <1>3. ASSUME NEW r \in Refs, DarajaIgnores(r) \/ CustomerAnswers(r) PROVE [Next]_vars
    BY <1>3 DEF DarajaIgnores, Next
  <1>4. CASE UNCHANGED darajaVars
    BY <1>4 DEF darajaVars
  <1> QED BY <1>1, <1>2, <1>3, <1>4 DEF DarajaNext

\* The adapter implements the provider calls of Payments (daraja.py,
\* initiate_payment): what is proved of Spec holds of DarajaSpec.
THEOREM DarajaImplementsPayments == DarajaSpec => Spec
  <1>1. DarajaInit => Init
    BY DEF DarajaInit
  <1> QED BY <1>1, DarajaStep, PTL DEF DarajaSpec, Spec

\* With the adapter in place, purchases are still decided once and atomically.
THEOREM DarajaPurchases == DarajaSpec => ImplementsPurchase
  BY DarajaImplementsPayments, PurchaseImplemented, PTL

\* A token is held for the push of the next candidate, after calls that failed.
TokensForPush ==
    \A h \in token :
        /\ pc[h] = "route" /\ job[h].todo # <<>>
        /\ Head(job[h].todo) \in AsyncProviders
        /\ \A r \in job[h].done : ledger[r].outcome = "failed"

\* A push asked for the rounded amount of its payment.
PushesAskAmount ==
    \A r \in Refs :
        ledger[r].outcome # "unused" /\ ledger[r].provider \in AsyncProviders =>
            asked[r] = Shillings(amount[ledger[r].key])

\* The adapter's own tables.
AdapterTyped == amount \in [Keys -> Amounts] /\ asked \in [Refs -> Nat] /\ token \subseteq Handlers

\* The inductive invariant: what was pushed is known of every call, not only of
\* the one that completed a payment.
AdapterInv == TruthInv /\ AdapterTyped /\ TokensForPush /\ PushesAskAmount

LEMMA AdapterInit == DarajaInit => AdapterInv
  <1> SUFFICES ASSUME DarajaInit PROVE AdapterInv
    OBVIOUS
  <1>1. Init
    BY DEF DarajaInit
  <1>2. PushesAskAmount
    BY <1>1 DEF PushesAskAmount, Init, NoCall
  <1> QED BY <1>1, <1>2, TruthInit DEF AdapterInv, AdapterTyped, TokensForPush, DarajaInit

\* A step that leaves a token's request alone keeps the token good.
LEMMA TokensStay ==
  ASSUME TruthInv, [Next]_vars, TokensForPush,
         \A h \in token' : h \in token /\ h \in Handlers /\ pc'[h] = pc[h] /\ job'[h] = job[h]
  PROVE  TokensForPush'
  <1>1. ASSUME NEW h \in token', NEW r \in job[h].done PROVE ledger'[r].outcome = "failed"
    <2>1. r \in Refs /\ ledger[r].outcome = "failed"
      BY <1>1 DEF TokensForPush, TruthInv, OnceInv, LockInv, TypeOK, Jobs
    <2> QED BY <2>1, CallsAreKept DEF CallKept
  <1> QED BY <1>1 DEF TokensForPush

\* The steps of a routing that are not a push.
OtherRoute(h) ==
    FindNoPolicy(h) \/ LoadCandidates(h) \/ CallMock(h) \/ PushAnswered(h)
    \/ FinishLive(h) \/ FinishDead(h)

LEMMA OtherRouteIsNoPush ==
  ASSUME TruthInv, NEW h \in Handlers, OtherRoute(h) PROVE Route(h) /\ ~SendPush(h)
  <1> SUFFICES ASSUME SendPush(h) PROVE FALSE
    BY DEF OtherRoute, Route
  <1>1. /\ pc[h] = "route" /\ pc'[h] = "push" /\ Head(job[h].todo) \notin MockProviders
    BY OneAsyncProvider DEF SendPush, NextCall, Goto, TruthInv, OnceInv, LockInv, TypeOK
  <1>2. ~FindNoPolicy(h) /\ ~LoadCandidates(h) /\ ~CallMock(h) /\ ~PushAnswered(h)
    BY <1>1 DEF FindNoPolicy, LoadCandidates, CallMock, PushAnswered
  <1>3. ~FinishLive(h) /\ ~FinishDead(h)
    BY <1>1 DEF FinishLive, FinishDead, CommitRouting, Return, Goto, TruthInv, OnceInv, LockInv, TypeOK
  <1> QED BY <1>2, <1>3 DEF OtherRoute

\* The request that holds a token only pushes, or aborts.
LEMMA HolderWaits ==
  ASSUME TruthInv, TokensForPush, NEW h \in Handlers, h \in token
  PROVE  ~Arrive(h) /\ ~Lock(h) /\ ~OtherRoute(h)
  <1>1. /\ pc[h] = "route" /\ Head(job[h].todo) \in AsyncProviders
        /\ ~RoutingEnds(h)
    BY DEF TokensForPush, RoutingEnds, MustStop, StopsRouting, Result
  <1>2. ~Arrive(h)
    BY <1>1 DEF Arrive, CreatePayment, ReadForClaim, OpenRequest, ReadForCancel, ReadCallback, Start
  <1>3. ~Lock(h)
    BY <1>1 DEF Lock, InsertPayment, InsertConflict, CommitRequest, FlushClaim, CommitCancel, Settle
  <1> QED BY <1>1, <1>2, <1>3, OneAsyncProvider
          DEF OtherRoute, FindNoPolicy, LoadCandidates, CallMock, PushAnswered, FinishLive, FinishDead

\* No step but SendPush makes a call to Daraja.
LEMMA OnlyPushesAsk ==
  ASSUME TruthInv, NEW r \in Refs, ledger[r].outcome = "unused", ledger'[r].outcome # "unused",
         \/ \E g \in Handlers : Arrive(g) \/ Lock(g) \/ Abort(g) \/ OtherRoute(g)
         \/ \E s \in Refs : CustomerAnswers(s) \/ IgnoreCallback(s)
         \/ UNCHANGED vars
  PROVE  ledger'[r].provider \notin AsyncProviders
  <1>1. [Next]_vars
    BY OtherRouteIsNoPush DEF Next
  <1>2. PICK h \in Handlers : /\ CallMock(h) \/ SendPush(h)
                              /\ ledger'[r].provider = Head(job[h].todo)
    BY <1>1, CallsAreMade
  <1>3. CASE CallMock(h)
    BY <1>2, <1>3, OneAsyncProvider DEF CallMock
  <1>4. CASE SendPush(h)
    <2>1. pc[h] = "route" /\ pc'[h] = "push"
      BY <1>4 DEF SendPush, NextCall, Goto, TruthInv, OnceInv, LockInv, TypeOK
    <2>2. ASSUME NEW g \in Handlers, Arrive(g) \/ Lock(g) \/ Abort(g) \/ Route(g) PROVE g = h
      BY <2>1, <2>2, OthersStay DEF TruthInv, OnceInv
    <2>3. ~Arrive(h) /\ ~Lock(h)
      BY <2>1 DEF Arrive, CreatePayment, ReadForClaim, OpenRequest, ReadForCancel, ReadCallback,
         Start, Lock, InsertPayment, InsertConflict, CommitRequest, FlushClaim, CommitCancel, Settle
    <2>4. ~Abort(h)
      BY <2>1 DEF Abort, Return, Goto, TruthInv, OnceInv, LockInv, TypeOK
    <2>5. \A s \in Refs : ~CustomerAnswers(s) /\ ~IgnoreCallback(s)
      BY <2>1 DEF CustomerAnswers, IgnoreCallback
    <2> QED BY <1>4, <2>1, <2>2, <2>3, <2>4, <2>5, OtherRouteIsNoPush DEF vars
  <1> QED BY <1>2, <1>3, <1>4

LEMMA AdapterStep == AdapterInv /\ [DarajaNext]_darajaVars => AdapterInv'
  <1> SUFFICES ASSUME AdapterInv, [DarajaNext]_darajaVars PROVE AdapterInv'
    OBVIOUS
  <1>1. [Next]_vars /\ TruthInv'
    BY DarajaStep, TruthStep DEF AdapterInv
  <1>2. amount' = amount
    BY DEF DarajaNext, DarajaRoute, GetToken, PushAmount, DarajaLock, DarajaAbort, DarajaIgnores,
       adapter, darajaVars
  <1>3. CASE \E h \in Handlers : GetToken(h)
    <2>1. PICK h \in Handlers : GetToken(h)
      BY <1>3
    <2>2. \A r \in job[h].done : ledger[r].outcome = "failed"
      BY <2>1, DeadCallFailed DEF GetToken, NextCall, RoutingEnds, MustStop, StopsRouting
    <2>3. TokensForPush'
      BY <2>1, <2>2 DEF GetToken, NextCall, RoutingEnds, AdapterInv, TokensForPush, vars
    <2>4. AdapterTyped' /\ PushesAskAmount'
      BY <2>1 DEF GetToken, AdapterInv, AdapterTyped, PushesAskAmount, vars
    <2> QED BY <1>1, <2>3, <2>4 DEF AdapterInv
  <1>4. CASE \E h \in Handlers : PushAmount(h)
    <2>1. PICK h \in Handlers : PushAmount(h)
      BY <1>4
    <2> DEFINE c == amount[job[h].key]
    <2>2. c \in Nat /\ Shillings(c) \in Nat
      <3>1. job[h].key \in Keys
        BY <2>1 DEF PushAmount, SendPush, NextCall, AdapterInv, TruthInv, OnceInv, LockInv, JobsAreSet
      <3>2. c \in Nat
        BY <3>1, AmountsAreCents DEF AdapterInv, AdapterTyped
      <3> QED BY <3>2, RoundingIsNear
    <2>3. AdapterTyped'
      BY <2>1, <2>2 DEF PushAmount, AdapterInv, AdapterTyped
    <2>4. TokensForPush'
      <3>1. \A g \in token' : /\ g \in token /\ g \in Handlers
                              /\ pc'[g] = pc[g] /\ job'[g] = job[g]
        BY <2>1, OthersStay DEF PushAmount, Route, AdapterInv, AdapterTyped, TruthInv, OnceInv
      <3> QED BY <1>1, <3>1, TokensStay DEF AdapterInv
    <2>5. PushesAskAmount'
      <3>1. NextCall(h) /\ \E outcome : Called(h, outcome)
        BY <2>1 DEF PushAmount, SendPush
      <3>2. /\ NewRef \in Refs /\ ledger'[NewRef].key = job[h].key
            /\ \A r \in Refs \ {NewRef} : ledger'[r] = ledger[r] /\ asked'[r] = asked[r]
            /\ asked'[NewRef] = Shillings(c)
        BY <2>1, <3>1, NewRefIsFree DEF NextCall, Called, PushAmount, AdapterInv, AdapterTyped,
           TruthInv, OnceInv, LockInv, TypeOK
      <3> QED BY <1>2, <3>2 DEF PushesAskAmount, AdapterInv
    <2> QED BY <1>1, <2>3, <2>4, <2>5 DEF AdapterInv
  <1>5. CASE ~(\E h \in Handlers : GetToken(h) \/ PushAmount(h))
    <2>0. \/ \E h \in Handlers : Arrive(h) \/ Lock(h) \/ DarajaAbort(h) \/ OtherRoute(h)
          \/ \E r \in Refs : CustomerAnswers(r) \/ IgnoreCallback(r)
          \/ UNCHANGED vars
      BY <1>5 DEF DarajaNext, DarajaRoute, DarajaLock, DarajaIgnores, OtherRoute, darajaVars
    <2>1. asked' = asked /\ token' \subseteq token
      BY <1>5 DEF DarajaNext, DarajaRoute, DarajaLock, DarajaAbort, DarajaIgnores, adapter, darajaVars
    <2>2. ASSUME NEW g \in token' PROVE pc'[g] = pc[g] /\ job'[g] = job[g]
      <3>0. g \in token /\ g \in Handlers
        BY <2>1, <2>2 DEF AdapterInv, AdapterTyped
      <3>1. CASE UNCHANGED vars
        BY <3>1 DEF vars
      <3>2. ASSUME NEW r \in Refs, IgnoreCallback(r) \/ CustomerAnswers(r)
            PROVE  pc' = pc /\ job' = job
        BY <3>2 DEF IgnoreCallback, CustomerAnswers
      <3>3. ASSUME NEW h \in Handlers, Arrive(h) \/ Lock(h) PROVE pc'[g] = pc[g] /\ job'[g] = job[g]
        <4>1. h # g
          BY <3>0, <3>3, HolderWaits DEF AdapterInv
        <4> QED BY <3>0, <3>3, <4>1, OthersStay DEF AdapterInv, TruthInv, OnceInv
      <3>4. ASSUME NEW h \in Handlers, OtherRoute(h) PROVE pc'[g] = pc[g] /\ job'[g] = job[g]
        <4>1. Route(h) /\ h # g
          BY <3>0, <3>4, HolderWaits, OtherRouteIsNoPush DEF AdapterInv
        <4> QED BY <3>0, <4>1, OthersStay DEF AdapterInv, TruthInv, OnceInv
      <3>5. ASSUME NEW h \in Handlers, DarajaAbort(h) PROVE pc'[g] = pc[g] /\ job'[g] = job[g]
        BY <3>0, <2>2, <3>5, OthersStay DEF DarajaAbort, AdapterInv, TruthInv, OnceInv
      <3> QED BY <2>0, <3>1, <3>2, <3>3, <3>4, <3>5
    <2>3. TokensForPush'
      BY <1>1, <2>1, <2>2, TokensStay DEF AdapterInv, AdapterTyped
    <2>4. PushesAskAmount'
      <3> SUFFICES ASSUME NEW r \in Refs, ledger'[r].outcome # "unused",
                          ledger'[r].provider \in AsyncProviders
                   PROVE  asked[r] = Shillings(amount[ledger'[r].key])
        BY <1>2, <2>1 DEF PushesAskAmount
      <3>1. CASE ledger[r].outcome # "unused"
        BY <1>1, <3>1, CallsAreKept DEF CallKept, AdapterInv, PushesAskAmount
      <3>2. CASE ledger[r].outcome = "unused"
        BY <2>0, <3>2, OnlyPushesAsk DEF DarajaAbort, AdapterInv
      <3> QED BY <3>1, <3>2
    <2> QED BY <1>1, <1>2, <2>1, <2>3, <2>4 DEF AdapterInv, AdapterTyped
  <1> QED BY <1>3, <1>4, <1>5

\* Whatever aborts, races and redeliveries happened, a payment that Daraja completed
\* was charged the amount of its transaction up to half a shilling (daraja.py,
\* initiate_payment with its ROUND_HALF_UP; handle_daraja_callback).
THEOREM ChargeIsNear == DarajaSpec => []CompletedChargeIsNear
  <1>1. AdapterInv => CompletedChargeIsNear
    <2> SUFFICES ASSUME AdapterInv, NEW k \in Keys, row[k].status = "COMPLETED",
                        row[k].selected \in AsyncProviders
                 PROVE  \E r \in Refs : /\ ledger[r].key = k /\ ledger[r].outcome = "charged"
                                       /\ Near(asked[r], amount[k])
      BY DEF CompletedChargeIsNear
    <2>1. PICK r \in Refs : /\ ledger[r].key = k /\ ledger[r].outcome = "charged"
                           /\ ledger[r].provider = row[k].selected
      BY DEF AdapterInv, TruthInv, TablesTrue, CompletedIsCharged
    <2>2. asked[r] = Shillings(amount[k])
      BY <2>1 DEF AdapterInv, PushesAskAmount
    <2>3. amount[k] \in Nat
      BY AmountsAreCents DEF AdapterInv, AdapterTyped
    <2> QED BY <2>1, <2>2, <2>3, RoundingIsNear
  <1> QED BY AdapterInit, AdapterStep, <1>1, PTL DEF DarajaSpec

\* The type invariant of the adapter: a token is only ever held by a request
\* that is about to push.
THEOREM DarajaTypeCorrect == DarajaSpec => []DarajaTypeOK
  <1>1. AdapterInv => DarajaTypeOK
    BY DEF AdapterInv, AdapterTyped, TokensForPush, DarajaTypeOK, TruthInv, OnceInv, LockInv
  <1> QED BY AdapterInit, AdapterStep, <1>1, PTL DEF DarajaSpec

=============================================================================
