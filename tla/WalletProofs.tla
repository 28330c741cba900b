---------------------------- MODULE WalletProofs ----------------------------
(***************************************************************************)
(* Theorems of Wallet: a tap charges at most once, what the phone tells of *)
(* a payment is true, and balances and history older than what it told are *)
(* being fetched again.                                                    *)
(***************************************************************************)
EXTENDS WalletRefinement, PaymentsRefinementProofs

\* The steps one request of the phone takes at the server.
Handling(h) ==
    \/ InsertPayment(h) \/ Settle(h) \/ Abort(h)
    \/ FindNoPolicy(h) \/ LoadCandidates(h) \/ CallMock(h) \/ SendPush(h) \/ PushAnswered(h)
    \/ FinishLive(h) \/ FinishDead(h)
    \/ \E r \in Refs : ReadCallback(h, r)

\* What a step of the wallet is to the backend.
LEMMA WalletSteps ==
  ASSUME [Phone \/ Server]_walletVars
  PROVE  \/ \E h \in Handlers, k \in Keys : PostArrives(h, k)
         \/ \E h \in Handlers : Handling(h) /\ UNCHANGED phone
         \/ \E r \in Refs : (CustomerAnswers(r) \/ IgnoreCallback(r)) /\ UNCHANGED phone
         \/ UNCHANGED <<vars, arrived>>
  <1>1. CASE Phone
    BY <1>1 DEF Phone, TapPay, ShowOutcome, Answered, ShowError, ShowView, FetchFails,
       PullToRefresh, ConnectionsChange
  <1>2. CASE Server
    BY <1>2 DEF Server, PayFromMock, AnswerPost, ReadAttempts, ReadBalances, ReadRows, ServerStep,
       Restart, Handling, phone
  <1> QED BY <1>1, <1>2 DEF walletVars, phone

LEMMA WalletStep == [Phone \/ Server]_walletVars => [Next]_vars
  <1> SUFFICES ASSUME [Phone \/ Server]_walletVars PROVE [Next]_vars
    OBVIOUS
  <1>1. ASSUME NEW h \in Handlers, NEW k \in Keys, PostArrives(h, k) PROVE Arrive(h)
    BY <1>1, CustomerIsUser DEF PostArrives, Arrive
  <1>2. ASSUME NEW h \in Handlers, Handling(h) PROVE Arrive(h) \/ Lock(h) \/ Route(h) \/ Abort(h)
    BY <1>2 DEF Handling, Arrive, Lock, Route
  <1> QED BY <1>1, <1>2, WalletSteps DEF Next, vars

\* The phone is one of the clients Payments allows for: what is proved of Spec
\* holds of WalletSpec (payments_repository.dart, api/payments.py).
THEOREM WalletImplementsPayments == WalletSpec => Spec
  <1>1. WalletInit => Init
    BY DEF WalletInit
  <1> QED BY <1>1, WalletStep, PTL DEF WalletSpec, Spec

(* --------------------------- a tap, its charge ------------------------- *)

Posting == {"insert", "policy", "route", "push"}

\* The calls a request has made, whether or not they were answered.
CallsBy(h) == job[h].done \cup (IF pc[h] = "push" THEN {job[h].ref} ELSE {})

\* The server works on a tap in one request, which knows all of its calls.
TapsRouteOnce ==
    /\ arrived \subseteq Keys
    /\ \A h \in Handlers : pc[h] \in Posting =>
          /\ job[h].key \in arrived /\ job[h].user = Customer
          /\ \A g \in Handlers : pc[g] \in Posting /\ job[g].key = job[h].key => g = h
          /\ \A r \in Refs : ledger[r].outcome # "unused" /\ ledger[r].key = job[h].key
                => r \in CallsBy(h)
    /\ \A r \in Refs : ledger[r].outcome # "unused" => ledger[r].key \in arrived

\* The calls of one tap fail, up to one.
OneLiveCallOfTap ==
    \A r, s \in Refs :
        /\ ledger[r].key = ledger[s].key
        /\ ledger[r].outcome \notin {"unused", "failed"}
        /\ ledger[s].outcome \notin {"unused", "failed"}
        => r = s

TapInv == TruthInv /\ TapsRouteOnce /\ OneLiveCallOfTap

\* A call that is made follows calls that failed, and its request knows it.
LEMMA CallsFollowFailures ==
  ASSUME TapInv, [Next]_vars, NEW r \in Refs, ledger[r].outcome = "unused",
         ledger'[r].outcome # "unused"
  PROVE  \E h \in Handlers :
            /\ pc[h] = "route" /\ pc'[h] \in Posting /\ r = NewRef
            /\ ledger'[r].key = job[h].key /\ job'[h].key = job[h].key
            /\ CallsBy(h)' = CallsBy(h) \cup {r}
            /\ \A s \in Refs : ledger[s].outcome # "unused" /\ ledger[s].key = job[h].key
                  => ledger[s].outcome = "failed"
  <1>1. PICK h \in Handlers : /\ CallMock(h) \/ SendPush(h)
                              /\ r = NewRef /\ NextCall(h)
                              /\ ledger'[r].key = job[h].key
    BY CallsAreMade DEF TapInv
  <1>2. \A s \in job[h].done : ledger[s].outcome = "failed"
    BY <1>1, DeadCallFailed DEF NextCall, RoutingEnds, MustStop, StopsRouting
  <1>3. /\ pc[h] = "route" /\ pc'[h] \in Posting /\ job'[h].key = job[h].key
        /\ CallsBy(h)' = CallsBy(h) \cup {r}
    <2>0. /\ job \in [Handlers -> Jobs] /\ pc \in [Handlers -> {pc[g] : g \in Handlers}]
          /\ pc[h] = "route"
      BY <1>1 DEF NextCall, TapInv, TruthInv, OnceInv, LockInv, TypeOK
    <2>1. CASE CallMock(h)
      <3>1. job'[h].done = job[h].done \cup {r} /\ job'[h].key = job[h].key /\ pc' = pc
        BY <1>1, <2>0, <2>1 DEF CallMock, Jobs
      <3> QED BY <2>0, <3>1 DEF CallsBy, Posting
    <2>2. CASE SendPush(h)
      <3>1. /\ job'[h].done = job[h].done /\ job'[h].key = job[h].key /\ job'[h].ref = r
            /\ pc'[h] = "push"
        BY <1>1, <2>0, <2>2 DEF SendPush, Goto, Jobs
      <3> QED BY <2>0, <3>1 DEF CallsBy, Posting
    <2> QED BY <1>1, <2>1, <2>2
  <1>4. \A s \in Refs : ledger[s].outcome # "unused" /\ ledger[s].key = job[h].key
           => ledger[s].outcome = "failed"
    BY <1>2, <1>3 DEF TapInv, TapsRouteOnce, CallsBy, Posting
  <1> QED BY <1>1, <1>3, <1>4

\* The one live call stays the only one.
LEMMA LiveCallStaysAlone == TapInv /\ [Next]_vars => OneLiveCallOfTap'
  <1> SUFFICES ASSUME TapInv, [Next]_vars, NEW r \in Refs, NEW s \in Refs,
                      ledger'[r].key = ledger'[s].key,
                      ledger'[r].outcome \notin {"unused", "failed"},
                      ledger'[s].outcome \notin {"unused", "failed"}
               PROVE  r = s
    BY DEF OneLiveCallOfTap
  <1>1. ASSUME NEW t \in Refs, NEW u \in Refs, ledger[t].outcome = "unused",
               ledger[u].outcome # "unused", ledger'[t].outcome # "unused",
               ledger'[t].key = ledger'[u].key
        PROVE  ledger'[u].outcome = "failed"
    <2>1. CallKept(u)
      BY <1>1, CallsAreKept DEF TapInv
    <2>2. ledger[u].outcome = "failed"
      BY <1>1, <2>1, CallsFollowFailures DEF CallKept
    <2> QED BY <2>1, <2>2 DEF CallKept
  <1>2. CASE ledger[r].outcome # "unused" /\ ledger[s].outcome # "unused"
    <2>1. CallKept(r) /\ CallKept(s)
      BY <1>2, CallsAreKept DEF TapInv
    <2> QED BY <1>2, <2>1 DEF CallKept, TapInv, OneLiveCallOfTap
  <1>3. CASE ledger[r].outcome = "unused" /\ ledger[s].outcome = "unused"
    BY <1>3, CallsFollowFailures
  <1> QED BY <1>1, <1>2, <1>3

\* Requests that go on know the calls they knew, and the new one.
LEMMA RequestsGoOn ==
  ASSUME TapInv, [Next]_vars, arrived' = arrived,
         \A h \in Handlers : pc'[h] \in Posting =>
            /\ pc[h] \in Posting
            /\ job'[h].key = job[h].key /\ job'[h].user = job[h].user
            /\ CallsBy(h) \subseteq CallsBy(h)'
  PROVE  TapsRouteOnce'
  <1>1. ASSUME NEW h \in Handlers, pc'[h] \in Posting, NEW r \in Refs,
               ledger'[r].outcome # "unused", ledger'[r].key = job'[h].key
        PROVE  r \in CallsBy(h)'
    <2>1. CASE ledger[r].outcome # "unused"
      BY <1>1, <2>1, CallsAreKept DEF CallKept, TapInv, TapsRouteOnce
    <2>2. CASE ledger[r].outcome = "unused"
      <3>1. PICK g \in Handlers : /\ pc[g] = "route" /\ ledger'[r].key = job[g].key
                                  /\ CallsBy(g)' = CallsBy(g) \cup {r}
        BY <1>1, <2>2, CallsFollowFailures
      <3>2. pc[g] \in Posting /\ pc[h] \in Posting /\ job[g].key = job[h].key
        BY <1>1, <3>1 DEF Posting
      <3>3. g = h
        BY <3>2 DEF TapInv, TapsRouteOnce
      <3> QED BY <3>1, <3>3
    <2> QED BY <2>1, <2>2
  <1>2. ASSUME NEW r \in Refs, ledger'[r].outcome # "unused" PROVE ledger'[r].key \in arrived
    <2>1. CASE ledger[r].outcome # "unused"
      BY <2>1, CallsAreKept DEF CallKept, TapInv, TapsRouteOnce
    <2>2. CASE ledger[r].outcome = "unused"
      BY <1>2, <2>2, CallsFollowFailures DEF TapInv, TapsRouteOnce, Posting
    <2> QED BY <2>1, <2>2
  <1> QED BY <1>1, <1>2 DEF TapInv, TapsRouteOnce

\* The request that takes a step goes on with what it knows, or ends.
LEMMA HandlingGoesOn ==
  ASSUME TapInv, NEW h \in Handlers, Handling(h), pc'[h] \in Posting
  PROVE  /\ pc[h] \in Posting
         /\ job'[h].key = job[h].key /\ job'[h].user = job[h].user
         /\ CallsBy(h) \subseteq CallsBy(h)'
  <1>1. job \in [Handlers -> Jobs] /\ pc'[h] # "idle" /\ pc'[h] # "settle"
    BY DEF TapInv, TruthInv, OnceInv, LockInv, TypeOK, Posting
  <1>2. pc = [g \in Handlers |-> pc[g]]
    BY DEF TapInv, TruthInv, OnceInv, LockInv, TypeOK
  <1>3. ~Settle(h) /\ ~Abort(h) /\ ~FindNoPolicy(h) /\ ~FinishLive(h) /\ ~FinishDead(h)
    BY <1>1, <1>2 DEF Settle, Abort, FindNoPolicy, FinishLive, FinishDead, CommitRouting, Return, Goto
  <1>4. \A r \in Refs : ~ReadCallback(h, r)
    BY <1>1, <1>2 DEF ReadCallback, Start
  <1>5. CASE InsertPayment(h)
    BY <1>2, <1>5 DEF InsertPayment, Goto, CallsBy, Posting
  <1>6. CASE LoadCandidates(h)
    <2>1. PICK todo : job' = [job EXCEPT ![h].todo = todo]
      BY <1>6 DEF LoadCandidates
    <2>2. /\ job'[h].key = job[h].key /\ job'[h].user = job[h].user /\ job'[h].done = job[h].done
      BY <1>1, <2>1 DEF Jobs
    <2> QED BY <1>6, <2>2 DEF LoadCandidates, CallsBy, Posting
  <1>7. CASE CallMock(h)
    <2>1. /\ job'[h].key = job[h].key /\ job'[h].user = job[h].user
          /\ job[h].done \subseteq job'[h].done
      BY <1>1, <1>7 DEF CallMock, Jobs
    <2> QED BY <1>7, <2>1 DEF CallMock, NextCall, CallsBy, Posting
  <1>8. CASE SendPush(h)
    <2>1. /\ job'[h].key = job[h].key /\ job'[h].user = job[h].user
          /\ job'[h].done = job[h].done
      BY <1>1, <1>8 DEF SendPush, Jobs
    <2> QED BY <1>8, <2>1 DEF SendPush, NextCall, CallsBy, Posting
  <1>9. CASE PushAnswered(h)
    <2>1. /\ job'[h].key = job[h].key /\ job'[h].user = job[h].user
          /\ job'[h].done = job[h].done \cup {job[h].ref}
      BY <1>1, <1>9 DEF PushAnswered, Jobs
    <2> QED BY <1>9, <2>1 DEF PushAnswered, CallsBy, Posting
  <1> QED BY <1>3, <1>4, <1>5, <1>6, <1>7, <1>8, <1>9 DEF Handling

\* A tap that arrives has no calls yet, and no other request works on it.
LEMMA PostKeepsTaps ==
  ASSUME TapInv, NEW h \in Handlers, NEW k \in Keys, PostArrives(h, k)
  PROVE  TapsRouteOnce'
  <1> DEFINE j == [NoJob EXCEPT !.user = Customer, !.key = k]
  <1>1. /\ k \notin arrived /\ arrived' = arrived \cup {k} /\ ledger' = ledger
        /\ Start(h, "insert", j)
    BY DEF PostArrives, CreatePayment, Start
  <1>2. /\ pc'[h] = "insert" /\ job'[h] = j
        /\ \A g \in Handlers \ {h} : pc'[g] = pc[g] /\ job'[g] = job[g]
    BY <1>1 DEF Start, TapInv, TruthInv, OnceInv, LockInv, TypeOK
  <1>3. j.key = k /\ j.user = Customer
    BY DEF NoJob
  <1>4. \A r \in Refs : ledger[r].outcome # "unused" => ledger[r].key # k
    BY <1>1 DEF TapInv, TapsRouteOnce
  <1>5. \A g \in Handlers \ {h} : pc[g] \in Posting => job[g].key # k
    BY <1>1 DEF TapInv, TapsRouteOnce
  <1> HIDE DEF j
  <1>6. \A g \in Handlers \ {h} : CallsBy(g)' = CallsBy(g)
    BY <1>2 DEF CallsBy
  <1>7. ASSUME NEW g \in Handlers, pc'[g] \in Posting
        PROVE  /\ job'[g].key \in arrived' /\ job'[g].user = Customer
               /\ \A f \in Handlers : pc'[f] \in Posting /\ job'[f].key = job'[g].key => f = g
               /\ \A r \in Refs : ledger'[r].outcome # "unused" /\ ledger'[r].key = job'[g].key
                     => r \in CallsBy(g)'
    <2>1. CASE g = h
      BY <1>1, <1>2, <1>3, <1>4, <1>5, <2>1
    <2>2. CASE g # h
      BY <1>1, <1>2, <1>3, <1>5, <1>6, <1>7, <2>2 DEF TapInv, TapsRouteOnce
    <2> QED BY <2>1, <2>2
  <1> QED BY <1>1, <1>7 DEF TapInv, TapsRouteOnce

LEMMA TapStep == TapInv /\ [Phone \/ Server]_walletVars => TapInv'
  <1> SUFFICES ASSUME TapInv, [Phone \/ Server]_walletVars PROVE TapInv'
    OBVIOUS
  <1>0. [Next]_vars /\ TruthInv' /\ OneLiveCallOfTap'
    BY WalletStep, TruthStep, LiveCallStaysAlone DEF TapInv
  <1>1. ASSUME NEW h \in Handlers, NEW k \in Keys, PostArrives(h, k) PROVE TapsRouteOnce'
    BY <1>1, PostKeepsTaps
  <1>2. ASSUME NEW h \in Handlers, Handling(h), arrived' = arrived PROVE TapsRouteOnce'
    <2>1. ASSUME NEW g \in Handlers \ {h}
          PROVE  pc'[g] = pc[g] /\ job'[g] = job[g] /\ CallsBy(g)' = CallsBy(g)
      BY <1>2, OthersStay DEF Handling, Arrive, Lock, Route, CallsBy, TapInv, TruthInv, OnceInv
    <2> QED BY <1>0, <1>2, <2>1, HandlingGoesOn, RequestsGoOn
  <1>3. ASSUME pc' = pc, job' = job, arrived' = arrived PROVE TapsRouteOnce'
    BY <1>0, <1>3, RequestsGoOn DEF CallsBy
  <1>4. ASSUME NEW r \in Refs, CustomerAnswers(r) \/ IgnoreCallback(r) PROVE pc' = pc /\ job' = job
    BY <1>4 DEF CustomerAnswers, IgnoreCallback
  <1> QED BY <1>0, <1>1, <1>2, <1>3, <1>4, WalletSteps DEF TapInv, phone, vars

LEMMA TapInit == WalletInit => TapInv
  <1> SUFFICES ASSUME WalletInit PROVE TapInv
    OBVIOUS
  <1>1. Init /\ TruthInv
    BY TruthInit DEF WalletInit
  <1> QED BY <1>1 DEF TapInv, TapsRouteOnce, OneLiveCallOfTap, WalletInit, Init, NoCall, Posting

\* One tap on "Authenticate & Pay" charges at most once, recorded or not, whatever
\* requests abort and answers are lost (payment_providers.dart, pay;
\* payment_service.py, create_payment).
THEOREM TapCharged == WalletSpec => []TapChargesOnce
  <1>1. TapInv => TapChargesOnce
    BY DEF TapInv, OneLiveCallOfTap, TapChargesOnce
  <1> QED BY TapInit, TapStep, <1>1, PTL DEF WalletSpec

(* ------------------------ the rows of the phone's taps ------------------ *)

\* Every row is a tap's; when it is there, all calls of the tap are recorded.
RowsAreTaps ==
    \A k \in Keys :
        /\ openedBy[k] # "merchant"
        /\ Exists(k) => /\ k \in arrived /\ row[k].bio = Customer
                        /\ \A r \in Refs : ledger[r].outcome # "unused" /\ ledger[r].key = k
                              => attempt[r] # "NONE"

\* A routing request that commits its row, with all of its calls.
CommitsTap(h) ==
    /\ pc[h] \in Posting /\ ledger' = ledger
    /\ row'[job[h].key].status # "NONE" /\ row'[job[h].key].bio = job[h].user
    /\ openedBy'[job[h].key] # "merchant"
    /\ \A k \in Keys \ {job[h].key} : row'[k] = row[k] /\ openedBy'[k] = openedBy[k]
    /\ \A r \in Refs : attempt[r] # "NONE" \/ r \in CallsBy(h) => attempt'[r] # "NONE"

\* A callback that updates a row.
UpdatesTap ==
    /\ \A k \in Keys : /\ Exists(k)' <=> Exists(k)
                       /\ row'[k].bio = row[k].bio /\ openedBy'[k] = openedBy[k]
    /\ \A r \in Refs : attempt[r] # "NONE" => attempt'[r] # "NONE"

LEMMA CommitIsWhole ==
  ASSUME TapInv, RowsAreTaps, NEW h \in Handlers, pc[h] \in {"policy", "route"},
         NEW status \in Statuses, NEW selected, row' = Routed(h, status, selected),
         openedBy' = Opened(h), ledger' = ledger,
         \A r \in Refs : attempt[r] # "NONE" \/ r \in job[h].done => attempt'[r] # "NONE"
  PROVE  CommitsTap(h)
  <1>1. PICK k \in Keys : k = job[h].key
    BY DEF TapInv, TruthInv, OnceInv, LockInv, JobsAreSet
  <1>2. row \in [Keys -> Rows] /\ openedBy \in [Keys -> {"nobody", "customer", "merchant"}]
    BY DEF TapInv, TruthInv, OnceInv, LockInv, TypeOK
  <1> DEFINE q == IF selected = None THEN row[k].selected ELSE selected
             c == IF status = "COMPLETED" THEN TRUE ELSE row[k].completed
             u == job[h].user
  <1>3. row' = [row EXCEPT ![k] = [@ EXCEPT !.status = status, !.bio = u, !.selected = q,
                                            !.completed = c]]
    BY <1>1 DEF Routed
  <1> HIDE DEF q, c, u
  <1>4. /\ row'[k].status = status /\ row'[k].bio = u
        /\ \A l \in Keys \ {k} : row'[l] = row[l]
    BY <1>2, <1>3 DEF Rows
  <1>5. /\ openedBy'[k] # "merchant"
        /\ \A l \in Keys \ {k} : openedBy'[l] = openedBy[l]
    BY <1>1, <1>2 DEF Opened, RowsAreTaps
  <1>6. CallsBy(h) = job[h].done
    BY DEF CallsBy
  <1> QED BY <1>1, <1>4, <1>5, <1>6 DEF CommitsTap, Posting, u, Statuses

LEMMA SettleUpdates == ASSUME TapInv, NEW h \in Handlers, Settle(h) PROVE UpdatesTap
  <1> DEFINE r == job[h].ref
  <1>1. PICK k \in Keys : k = job[h].key
    BY DEF Settle, TapInv, TruthInv, OnceInv, LockInv, JobsAreSet
  <1>2. row \in [Keys -> Rows] /\ attempt \in [Refs -> {attempt[s] : s \in Refs}]
    BY DEF TapInv, TruthInv, OnceInv, LockInv, TypeOK
  <1>3. r \in Refs /\ Exists(k)
    BY <1>1 DEF Settle, TapInv, TruthInv, OnceInv, LockInv, JobsAreSet, RequestsAgree, AttemptsHaveRows
  <1> DEFINE s == IF Paid(r) THEN "COMPLETED" ELSE "DECLINED"
             a == IF Paid(r) /\ job[h].seen # ledger[r].provider
                  THEN ledger[r].provider ELSE row[k].selected
             c == IF Paid(r) THEN TRUE ELSE row[k].completed
  <1>4. /\ row' = [row EXCEPT ![k] = [@ EXCEPT !.status = s, !.selected = a, !.completed = c]]
        /\ openedBy' = openedBy
        /\ attempt' = [attempt EXCEPT ![r] = IF Paid(r) THEN "SUCCESS" ELSE "DECLINED"]
    BY <1>1 DEF Settle
  <1>5. s # "NONE"
    OBVIOUS
  <1> HIDE DEF s, a, c
  <1> QED BY <1>2, <1>3, <1>4, <1>5 DEF UpdatesTap, Exists, Rows

LEMMA TapRowWrites ==
  ASSUME TapInv, RowsAreTaps, [Phone \/ Server]_walletVars
  PROVE  \/ UNCHANGED <<row, openedBy, attempt>>
         \/ UpdatesTap
         \/ \E h \in Handlers : CommitsTap(h)
  <1>1. ASSUME NEW h \in Handlers, Handling(h)
        PROVE  UNCHANGED <<row, openedBy, attempt>> \/ UpdatesTap \/ CommitsTap(h)
    <2>1. CASE InsertPayment(h) \/ Abort(h) \/ LoadCandidates(h) \/ CallMock(h) \/ SendPush(h)
               \/ PushAnswered(h) \/ \E r \in Refs : ReadCallback(h, r)
      BY <2>1 DEF InsertPayment, Abort, LoadCandidates, CallMock, SendPush, PushAnswered,
         ReadCallback, Start
    <2>2. CASE Settle(h)
      BY <2>2, SettleUpdates
    <2>3. CASE FindNoPolicy(h)
      <3>1. job[h].done = {}
        BY <2>3 DEF FindNoPolicy, TapInv, TruthInv, DoneIsUnrecorded
      <3> QED BY <2>3, <3>1, CommitIsWhole DEF FindNoPolicy, Statuses
    <2>4. ASSUME NEW status \in Statuses, NEW selected, pc[h] = "route",
                 CommitRouting(h, status, selected)
          PROVE  CommitsTap(h)
      <3>1. \A r \in Refs : attempt[r] # "NONE" \/ r \in job[h].done => attempt'[r] # "NONE"
        BY <2>4 DEF CommitRouting, Recorded, Result
      <3> QED BY <2>4, <3>1, CommitIsWhole DEF CommitRouting
    <2>5. CASE FinishLive(h)
      BY <2>4, <2>5 DEF FinishLive, LiveStatus, Statuses
    <2>6. CASE FinishDead(h)
      BY <2>4, <2>6 DEF FinishDead, DeadStatus, Statuses
    <2> QED BY <1>1, <2>1, <2>2, <2>3, <2>5, <2>6 DEF Handling
  <1>2. ASSUME NEW h \in Handlers, NEW k \in Keys, PostArrives(h, k)
        PROVE  UNCHANGED <<row, openedBy, attempt>>
    BY <1>2 DEF PostArrives, CreatePayment, Start
  <1>3. ASSUME NEW r \in Refs, CustomerAnswers(r) \/ IgnoreCallback(r)
        PROVE  UNCHANGED <<row, openedBy, attempt>>
    BY <1>3 DEF CustomerAnswers, IgnoreCallback
  <1> QED BY <1>1, <1>2, <1>3, WalletSteps DEF vars

\* Rows do not vanish, and a tap that is decided is not routed again.
LEMMA RowsStay ==
  ASSUME TapInv, RowsAreTaps, [Phone \/ Server]_walletVars, NEW k \in Keys, Exists(k)
  PROVE  /\ Exists(k)'
         /\ \A r \in Refs : ledger'[r].outcome # "unused" /\ ledger'[r].key = k
               => ledger[r].outcome # "unused" /\ ledger[r].key = k
         /\ row[k].status = "COMPLETED" => row'[k].status = "COMPLETED"
  <1>0. [Next]_vars
    BY WalletStep
  <1>1. Exists(k)'
    BY TapRowWrites DEF UpdatesTap, CommitsTap, Exists
  <1>2. ASSUME NEW r \in Refs, ledger'[r].outcome # "unused", ledger'[r].key = k
        PROVE  ledger[r].outcome # "unused" /\ ledger[r].key = k
    <2>1. ASSUME ledger[r].outcome = "unused" PROVE FALSE
      <3>1. PICK h \in Handlers : pc[h] = "route" /\ job[h].key = k
        BY <1>0, <1>2, <2>1, CallsFollowFailures
      <3> QED BY <3>1 DEF TapInv, TruthInv, OnceInv, RequestsAgree, Routing, RowsAreTaps
    <2> QED BY <1>0, <1>2, <2>1, CallsAreKept DEF CallKept, TapInv
  <1>3. ASSUME row[k].status = "COMPLETED" PROVE row'[k] = row[k]
    <2>1. openedBy[k] = "customer"
      BY DEF RowsAreTaps, TapInv, TruthInv, OnceInv, RowsHaveOrigin, LockInv, TypeOK
    <2> QED BY <1>0, <1>3, <2>1, FinalStep DEF TapInv, Resolved
  <1> QED BY <1>1, <1>2, <1>3

LEMMA TapRowsStep == TapInv /\ RowsAreTaps /\ [Phone \/ Server]_walletVars => RowsAreTaps'
  <1> SUFFICES ASSUME TapInv, RowsAreTaps, [Phone \/ Server]_walletVars, NEW k \in Keys
               PROVE  /\ openedBy'[k] # "merchant"
                      /\ Exists(k)' =>
                            /\ k \in arrived' /\ row'[k].bio = Customer
                            /\ \A r \in Refs : ledger'[r].outcome # "unused" /\ ledger'[r].key = k
                                  => attempt'[r] # "NONE"
    BY DEF RowsAreTaps
  <1>1. arrived \subseteq arrived'
    BY WalletSteps DEF PostArrives, phone
  <1>2. CASE Exists(k)
    BY <1>1, <1>2, RowsStay, TapRowWrites DEF RowsAreTaps, UpdatesTap, CommitsTap, TapInv, TapsRouteOnce
  <1>3. CASE ~Exists(k) /\ Exists(k)'
    <2>1. PICK h \in Handlers : CommitsTap(h)
      BY <1>3, TapRowWrites DEF UpdatesTap, Exists
    <2>2. job[h].key = k
      BY <1>3, <2>1 DEF CommitsTap, Exists
    <2> QED BY <1>1, <2>1, <2>2 DEF CommitsTap, TapInv, TapsRouteOnce
  <1>4. CASE ~Exists(k) /\ ~Exists(k)'
    BY <1>4, TapRowWrites DEF RowsAreTaps, UpdatesTap, CommitsTap
  <1> QED BY <1>2, <1>3, <1>4

(* ------------------------ what the phone is told ----------------------- *)

PhoneTyped ==
    /\ tap \in [Keys -> {"unused", "sent", "paid", "declined", "error"}]
    /\ reply \in [Keys -> Statuses \cup {None}]

\* The phone shows a payment as successful or not, or is about to.
ToldPaid(k) == (reply[k] # None /\ reply[k] = "COMPLETED") \/ tap[k] = "paid"
ToldDeclined(k) == (reply[k] # None /\ reply[k] # "COMPLETED") \/ tap[k] = "declined"

MocksFailed(k) ==
    \A r \in Refs : ledger[r].key = k /\ ledger[r].provider \in MockProviders
        => ledger[r].outcome \in {"unused", "failed"}

AnswersAreTrue ==
    \A k \in Keys :
        /\ ToldPaid(k) => row[k].status = "COMPLETED"
        /\ ToldDeclined(k) => Exists(k) /\ MocksFailed(k)

\* A mock that charged for a tap completed its row.
LEMMA MockChargeIsShown ==
  ASSUME TapInv, RowsAreTaps, NEW k \in Keys, Exists(k), row[k].status # "COMPLETED"
  PROVE  MocksFailed(k)
  <1> SUFFICES ASSUME NEW r \in Refs, ledger[r].key = k, ledger[r].provider \in MockProviders,
                      ledger[r].outcome \notin {"unused", "failed"}
               PROVE  FALSE
    BY DEF MocksFailed
  <1>1. openedBy[k] = "customer"
    BY DEF RowsAreTaps, TapInv, TruthInv, OnceInv, RowsHaveOrigin, LockInv, TypeOK
  <1>2. attempt[r] # "NONE"
    BY DEF RowsAreTaps
  <1>3. /\ row[k].selected = ledger[r].provider
        /\ attempt[r] = "SUCCESS" => row[k].status = "COMPLETED"
    BY <1>1, <1>2 DEF TapInv, TruthInv, TablesTrue, CustomerRowShowsCall
  <1>4. PICK s \in Refs : /\ attempt[s] = "SUCCESS" /\ ledger[s].key = k
                          /\ ledger[s].outcome = "charged"
    BY <1>3 DEF TapInv, TruthInv, TablesTrue, SelectedIsCharged
  <1>5. r = s
    BY <1>1, <1>2, <1>4 DEF TapInv, TruthInv, OnceInv, CustomerPaymentRoutedOnce
  <1> QED BY <1>3, <1>4, <1>5

\* Only the answer of the server tells the phone anything new.
LEMMA Tellings ==
  ASSUME TapInv, PhoneTyped, [Phone \/ Server]_walletVars
  PROVE  /\ PhoneTyped'
         /\ \A k \in Keys : /\ ToldPaid(k)' => ToldPaid(k) \/ row[k].status = "COMPLETED"
                            /\ ToldDeclined(k)' => ToldDeclined(k)
                                  \/ (Exists(k) /\ row[k].status # "COMPLETED" /\ UNCHANGED vars)
  <1> USE DEF PhoneTyped, ToldPaid, ToldDeclined
  <1>1. CASE UNCHANGED <<tap, reply>>
    BY <1>1
  <1>2. ASSUME NEW k \in Keys, TapPay(k) PROVE tap' = [tap EXCEPT ![k] = "sent"] /\ reply' = reply
    BY <1>2 DEF TapPay
  <1>3. CASE \E k \in Keys : TapPay(k)
    BY <1>2, <1>3
  <1>4. CASE \E k \in Keys : ShowOutcome(k)
    BY <1>4 DEF ShowOutcome, Answered, Outcome
  <1>5. CASE \E k \in Keys : ShowError(k)
    BY <1>5 DEF ShowError
  <1>6. CASE \E k \in Keys : AnswerPost(k)
    <2>1. PICK k \in Keys : AnswerPost(k)
      BY <1>6
    <2> DEFINE s == row[k].status
    <2>2. Exists(k) /\ UNCHANGED vars /\ tap' = tap /\ reply' = [reply EXCEPT ![k] = s]
      BY <2>1 DEF AnswerPost
    <2>3. s \in Statuses
      BY <2>2 DEF Exists, TapInv, TruthInv, OnceInv, LockInv, TypeOK, Rows
    <2> HIDE DEF s
    <2> QED BY <2>2, <2>3 DEF s
  <1> QED
    BY <1>1, <1>3, <1>4, <1>5, <1>6
       DEF Phone, Server, ShowView, FetchFails, PullToRefresh, ConnectionsChange, PostArrives,
           PayFromMock, ReadAttempts, ReadBalances, ReadRows, ServerStep, Restart, phone, walletVars

LEMMA AnswersStep ==
  TapInv /\ RowsAreTaps /\ PhoneTyped /\ AnswersAreTrue /\ [Phone \/ Server]_walletVars
  => AnswersAreTrue'
  <1> SUFFICES ASSUME TapInv, RowsAreTaps, PhoneTyped, AnswersAreTrue, [Phone \/ Server]_walletVars,
                      NEW k \in Keys
               PROVE  /\ ToldPaid(k)' => row'[k].status = "COMPLETED"
                      /\ ToldDeclined(k)' => Exists(k)' /\ MocksFailed(k)'
    BY DEF AnswersAreTrue
  <1>1. ASSUME ToldPaid(k)' PROVE row'[k].status = "COMPLETED"
    <2>1. row[k].status = "COMPLETED" /\ Exists(k)
      BY <1>1, Tellings DEF AnswersAreTrue, Exists
    <2> QED BY <2>1, RowsStay
  <1>2. ASSUME ToldDeclined(k)' PROVE Exists(k)' /\ MocksFailed(k)'
    <2>1. Exists(k) /\ MocksFailed(k)
      BY <1>2, Tellings, MockChargeIsShown DEF AnswersAreTrue
    <2>2. ASSUME NEW r \in Refs, ledger'[r].key = k, ledger'[r].provider \in MockProviders,
                 ledger'[r].outcome # "unused"
          PROVE  ledger'[r].outcome = "failed"
      <3>1. ledger[r].outcome # "unused" /\ ledger[r].key = k
        BY <2>1, <2>2, RowsStay
      <3>2. CallKept(r)
        BY <3>1, WalletStep, CallsAreKept DEF TapInv
      <3> QED BY <2>1, <2>2, <3>1, <3>2 DEF CallKept, MocksFailed
    <2> QED BY <2>1, <2>2, RowsStay DEF MocksFailed
  <1> QED BY <1>1, <1>2

(* ------------------------ balances and history ------------------------- *)

\* What the screen may hold.
Screens == [on : BOOLEAN, seen : SUBSET Refs, listed : SUBSET Keys, completed : SUBSET Keys]

ViewTyped ==
    /\ debited \subseteq {r \in Refs : ledger[r].outcome # "unused"
                                        /\ ledger[r].provider \in MockProviders}
    /\ view \in [what : {"balances", "history"}, state : {"asked", "read", "ended"},
                 seen : SUBSET Refs, listed : SUBSET Keys, completed : SUBSET Keys,
                 unread : SUBSET Keys, charged : SUBSET Keys]
    /\ list \in Screens

\* What a fetch has read covers what the phone was told, and so does the list on
\* screen unless a fetch is under way that replaces it.
Fresh(f) == /\ view.what = "balances" => ~MissesCharge(f)
            /\ view.what = "history" => ~MissesTap(f)
FetchFresh == view.state = "read" => Fresh(view)
ListFresh == view.state = "ended" /\ list.on => Fresh(list)

\* What is listed as completed is, and its attempts are read with the charge.
ListedIsCompleted ==
    \A k \in view.completed :
        /\ row[k].status = "COMPLETED"
        /\ k \notin view.unread => k \in view.charged

Views == ViewTyped /\ FetchFresh /\ ListFresh /\ ListedIsCompleted

WalletInv == TapInv /\ RowsAreTaps /\ PhoneTyped /\ AnswersAreTrue /\ Views

LEMMA BlankIsScreen == Blank \in Screens
  BY Zenon DEF Blank, Screens

LEMMA FetchedIsScreen == ASSUME ViewTyped PROVE Fetched \in Screens
  <1>1. view.seen \in SUBSET Refs /\ view.listed \in SUBSET Keys /\ view.completed \in SUBSET Keys
    BY DEF ViewTyped
  <1> QED BY <1>1, Zenon DEF Fetched, Screens

\* A fetch that starts anew claims nothing, whatever stays on screen.
LEMMA FetchClaimsNothing ==
  ASSUME WalletInv, view' = Fetch(view.what), list' \in {list, Blank}, UNCHANGED <<vars, debited>>
  PROVE  Views'
  <1>1. ViewTyped'
    BY BlankIsScreen DEF Fetch, WalletInv, Views, ViewTyped, vars
  <1> QED BY <1>1 DEF Fetch, Views, FetchFresh, ListFresh, ListedIsCompleted

\* A fetch that returned is what is on screen, one that failed leaves no list.
LEMMA FetchEnds ==
  ASSUME WalletInv, ShowView \/ FetchFails
  PROVE  Views'
  <1>1. /\ UNCHANGED <<vars, tap, debited>> /\ view' = Ended
        /\ (list' = Fetched /\ view.state = "read") \/ list' = Blank
    BY DEF ShowView, FetchFails
  <1>2. /\ view'.what = view.what /\ view'.state = "ended" /\ view'.completed = {}
        /\ view' \in [what : {"balances", "history"}, state : {"asked", "read", "ended"},
                 seen : SUBSET Refs, listed : SUBSET Keys, completed : SUBSET Keys,
                 unread : SUBSET Keys, charged : SUBSET Keys]
    BY <1>1 DEF Ended, Fetch, WalletInv, Views, ViewTyped
  <1>3. ViewTyped'
    BY <1>1, <1>2, BlankIsScreen, FetchedIsScreen DEF WalletInv, Views, ViewTyped, vars
  <1>4. ListFresh'
    <2>1. CASE list' = Fetched /\ view.state = "read"
      <3>1. /\ list'.seen = view.seen /\ list'.listed = view.listed
            /\ list'.completed = view.completed
        BY <2>1 DEF Fetched
      <3>2. Fresh(view)
        BY <2>1 DEF WalletInv, Views, FetchFresh
      <3> QED BY <1>1, <1>2, <3>1, <3>2 DEF ListFresh, Fresh, MissesCharge, MissesTap, vars
    <2>2. CASE list' = Blank
      BY <2>2 DEF Blank, ListFresh
    <2> QED BY <1>1, <2>1, <2>2
  <1> QED BY <1>2, <1>3, <1>4 DEF Views, FetchFresh, ListedIsCompleted

\* A charge the mocks remember stays what it is, and a new one is of a tap that
\* was not answered.
LEMMA DebitsStay ==
  ASSUME WalletInv, [Phone \/ Server]_walletVars
  PROVE  /\ debited' \subseteq {r \in Refs : ledger'[r].outcome # "unused"
                                              /\ ledger'[r].provider \in MockProviders}
         /\ \A r \in debited : ledger'[r].key = ledger[r].key
         /\ \A r \in debited' \ debited : ledger'[r].key \in Keys /\ ~Exists(ledger'[r].key)
  <1>0. [Next]_vars
    BY WalletStep
  <1>1. ASSUME NEW r \in debited
        PROVE  ledger'[r].key = ledger[r].key /\ ledger'[r].outcome # "unused"
               /\ ledger'[r].provider = ledger[r].provider
    BY <1>0, CallsAreKept DEF CallKept, WalletInv, Views, ViewTyped, TapInv
  <1>2. ASSUME NEW h \in Handlers, PayFromMock(h)
        PROVE  /\ debited' \subseteq debited \cup {NewRef} /\ NewRef \in Refs
               /\ ledger'[NewRef].outcome # "unused" /\ ledger'[NewRef].provider \in MockProviders
               /\ ledger'[NewRef].key \in Keys /\ ~Exists(ledger'[NewRef].key)
    <2>1. /\ NextCall(h) /\ Head(job[h].todo) \in MockProviders
          /\ \E outcome \in {"charged", "failed"} : Called(h, outcome)
          /\ debited' \subseteq debited \cup {NewRef}
      BY <1>2 DEF PayFromMock, CallMock
    <2>2. NewRef \in Refs
      BY <2>1, NewRefIsFree DEF NextCall
    <2>3. job[h].key \in Keys /\ ~Exists(job[h].key)
      BY <2>1 DEF NextCall, WalletInv, TapInv, TruthInv, OnceInv, LockInv, JobsAreSet, RequestsAgree,
         Routing, RowsAreTaps
    <2> QED BY <2>1, <2>2, <2>3 DEF Called, WalletInv, TapInv, TruthInv, OnceInv, LockInv, TypeOK
  <1>3. debited' \subseteq debited \/ \E h \in Handlers : PayFromMock(h)
    BY DEF Phone, TapPay, ShowOutcome, Answered, ShowError, ShowView, FetchFails, PullToRefresh,
       ConnectionsChange, Server, PostArrives, AnswerPost, ReadAttempts, ReadBalances, ReadRows,
       ServerStep, Restart, walletVars
  <1>4. debited' \subseteq {r \in Refs : ledger'[r].outcome # "unused"
                                          /\ ledger'[r].provider \in MockProviders}
    BY <1>1, <1>2, <1>3 DEF WalletInv, Views, ViewTyped
  <1>5. \A r \in debited' \ debited : ledger'[r].key \in Keys /\ ~Exists(ledger'[r].key)
    BY <1>2, <1>3
  <1> QED BY <1>1, <1>4, <1>5

\* As long as the phone is told nothing new, a list that misses nothing goes on
\* missing nothing: a new charge is of a payment nobody was told of.
LEMMA MissesNoMore ==
  ASSUME WalletInv, [Phone \/ Server]_walletVars,
         \A k \in Keys : tap'[k] \in {"paid", "declined"} => tap'[k] = tap[k]
  PROVE  \A f : /\ ~MissesCharge(f) => ~MissesCharge(f)'
                /\ ~MissesTap(f) => ~MissesTap(f)'
  <1> TAKE f
  <1>1. ASSUME ~MissesCharge(f), NEW r \in debited', tap'[ledger'[r].key] = "paid"
        PROVE  r \in f.seen
    <2>1. CASE r \in debited
      <3>1. ledger[r].key \in Keys /\ ledger'[r].key = ledger[r].key
        BY <2>1, DebitsStay
           DEF WalletInv, Views, ViewTyped, TapInv, TruthInv, OnceInv, LockInv, CallsHaveKeys
      <3> QED BY <1>1, <2>1, <3>1 DEF MissesCharge
    <2>2. CASE r \notin debited
      <3>1. PICK k \in Keys : k = ledger'[r].key /\ ~Exists(k)
        BY <2>2, DebitsStay
      <3>2. tap[k] = "paid"
        BY <1>1, <3>1
      <3> QED BY <3>1, <3>2 DEF WalletInv, AnswersAreTrue, ToldPaid, Exists
    <2> QED BY <2>1, <2>2
  <1>2. ~MissesTap(f) => ~MissesTap(f)'
    BY DEF MissesTap
  <1> QED BY <1>1, <1>2 DEF MissesCharge

\* Steps that show nothing new.
LEMMA ViewStays ==
  ASSUME WalletInv, [Phone \/ Server]_walletVars, UNCHANGED <<view, list>>,
         \A k \in Keys : tap'[k] \in {"paid", "declined"} => tap'[k] = tap[k]
  PROVE  Views'
  <1>1. ViewTyped'
    BY DebitsStay DEF WalletInv, Views, ViewTyped
  <1>2. \A f : Fresh(f) => Fresh(f)'
    BY MissesNoMore DEF Fresh
  <1>3. FetchFresh' /\ ListFresh'
    BY <1>2 DEF WalletInv, Views, FetchFresh, ListFresh, Fresh, MissesCharge, MissesTap
  <1>4. ListedIsCompleted'
    <2>1. \A k \in Keys : row[k].status = "COMPLETED" => row'[k].status = "COMPLETED"
      BY RowsStay DEF Exists, WalletInv
    <2> QED BY <2>1 DEF WalletInv, Views, ViewTyped, ListedIsCompleted
  <1> QED BY <1>1, <1>3, <1>4 DEF Views

\* Reading the balances, or the rows, sees everything the phone was told.
LEMMA ReadSeesAll ==
  ASSUME WalletInv, ReadBalances \/ ReadRows
  PROVE  Views'
  <1>0. UNCHANGED <<vars, tap, list, debited>>
    BY DEF ReadBalances, ReadRows
  <1>1. CASE ReadBalances
    <2> DEFINE S == {r \in debited : HasBalance(ledger[r].provider)}
    <2>1. S = debited /\ debited \subseteq Refs
      BY DEF HasBalance, WalletInv, Views, ViewTyped
    <2>2. view.what = "balances" /\ view' = [view EXCEPT !.state = "read", !.seen = S]
      BY <1>1 DEF ReadBalances
    <2> HIDE DEF S
    <2>3. ViewTyped'
      BY <1>0, <2>1, <2>2 DEF WalletInv, Views, ViewTyped, vars
    <2>4. FetchFresh' /\ ListFresh'
      BY <1>0, <2>1, <2>2
         DEF WalletInv, Views, ViewTyped, FetchFresh, ListFresh, Fresh, MissesCharge, vars
    <2>5. ListedIsCompleted'
      BY <1>0, <2>2 DEF WalletInv, Views, ViewTyped, ListedIsCompleted, vars
    <2> QED BY <2>3, <2>4, <2>5 DEF Views
  <1>2. CASE ReadRows
    <2> DEFINE C == {k \in Mine : row[k].status = "COMPLETED"}
    <2>1. /\ view.what = "history"
          /\ view' = [view EXCEPT !.state = "read", !.listed = Mine, !.unread = Mine,
                                 !.completed = C]
      BY <1>2 DEF ReadRows
    <2>2. Mine \subseteq Keys /\ C \subseteq Mine
      BY DEF Mine
    <2>3. \A k \in Keys : /\ tap[k] \in {"paid", "declined"} => Exists(k)
                          /\ tap[k] = "paid" => row[k].status = "COMPLETED"
      BY DEF WalletInv, AnswersAreTrue, ToldPaid, ToldDeclined, Exists
    <2>4. \A k \in Keys : Exists(k) => k \in Mine
      BY DEF WalletInv, RowsAreTaps, Mine
    <2>5. \A k \in C : row[k].status = "COMPLETED"
      OBVIOUS
    <2>6. \A k \in Keys : tap[k] = "paid" => k \in C
      BY <2>3, <2>4 DEF Exists
    <2> HIDE DEF C
    <2>7. /\ view'.what = "history" /\ view'.state = "read" /\ view'.listed = Mine
          /\ view'.unread = Mine /\ view'.completed = C
      BY <2>1 DEF WalletInv, Views, ViewTyped
    <2>8. ViewTyped'
      BY <1>0, <2>1, <2>2 DEF WalletInv, Views, ViewTyped, vars
    <2>9. FetchFresh' /\ ListFresh'
      BY <1>0, <2>3, <2>4, <2>6, <2>7 DEF FetchFresh, ListFresh, Fresh, MissesTap
    <2>10. ListedIsCompleted'
      BY <1>0, <2>2, <2>5, <2>7 DEF ListedIsCompleted, vars
    <2> QED BY <2>8, <2>9, <2>10 DEF Views
  <1> QED BY <1>1, <1>2

\* The attempts of a listed completed payment are read after its row, and hold
\* its charge.
LEMMA ReadAttemptsKeepsViews ==
  ASSUME WalletInv, NEW k \in Keys, ReadAttempts(k)
  PROVE  Views'
  <1> DEFINE C == SeenCharged(k)
  <1>1. /\ UNCHANGED <<vars, tap, list, debited>>
        /\ view' = [view EXCEPT !.charged = C, !.unread = view.unread \ {k}]
    BY DEF ReadAttempts
  <1>2. /\ C \subseteq Keys /\ view.charged \subseteq C
        /\ row[k].status = "COMPLETED" => k \in C
    BY DEF SeenCharged, HasSuccess, WalletInv, Views, ViewTyped, TapInv, TruthInv, TablesTrue,
       CompletedIsCharged
  <1> HIDE DEF C
  <1>3. /\ view'.what = view.what /\ view'.state = view.state /\ view'.seen = view.seen
        /\ view'.listed = view.listed /\ view'.completed = view.completed
        /\ view'.unread = view.unread \ {k} /\ view'.charged = C
    BY <1>1 DEF WalletInv, Views, ViewTyped
  <1>4. ViewTyped'
    BY <1>1, <1>2 DEF WalletInv, Views, ViewTyped, vars
  <1>5. FetchFresh' /\ ListFresh'
    BY <1>1, <1>3 DEF WalletInv, Views, FetchFresh, ListFresh, Fresh, MissesCharge, MissesTap, vars
  <1>6. ListedIsCompleted'
    BY <1>1, <1>2, <1>3 DEF WalletInv, Views, ViewTyped, ListedIsCompleted, vars
  <1> QED BY <1>4, <1>5, <1>6 DEF Views

LEMMA WalletInvInit == WalletInit => WalletInv
  <1> SUFFICES ASSUME WalletInit PROVE WalletInv
    OBVIOUS
  <1>1. TapInv /\ Init
    BY TapInit DEF WalletInit
  <1>2. RowsAreTaps
    BY <1>1 DEF RowsAreTaps, Init, NoRow, Exists
  <1>3. PhoneTyped /\ AnswersAreTrue
    BY DEF WalletInit, PhoneTyped, AnswersAreTrue, ToldPaid, ToldDeclined
  <1>4. PICK what \in {"balances", "history"} : view = Fetch(what)
    BY DEF WalletInit
  <1>5. Views
    BY <1>4, BlankIsScreen DEF WalletInit, Fetch, Blank, Views, ViewTyped, FetchFresh,
       ListFresh, ListedIsCompleted
  <1> QED BY <1>1, <1>2, <1>3, <1>5 DEF WalletInv

LEMMA WalletInvStep == WalletInv /\ [Phone \/ Server]_walletVars => WalletInv'
  <1> SUFFICES ASSUME WalletInv, [Phone \/ Server]_walletVars PROVE WalletInv'
    OBVIOUS
  <1>1. TapInv' /\ RowsAreTaps' /\ PhoneTyped' /\ AnswersAreTrue'
    BY TapStep, TapRowsStep, Tellings, AnswersStep DEF WalletInv
  <1>2. ASSUME UNCHANGED <<tap, view, list>> PROVE Views'
    BY <1>2, ViewStays
  <1>3. ASSUME NEW k \in Keys, TapPay(k) \/ ShowError(k) PROVE Views'
    <2>1. /\ view' = view /\ list' = list
          /\ \E t \in {"sent", "error"} : tap' = [tap EXCEPT ![k] = t]
      BY <1>3 DEF TapPay, ShowError
    <2> QED BY <2>1, ViewStays DEF WalletInv, PhoneTyped
  <1>4. ASSUME view' = Fetch(view.what), list' \in {list, Blank}, UNCHANGED <<vars, debited>>
        PROVE  Views'
    BY <1>4, FetchClaimsNothing
  <1>5. ASSUME NEW k \in Keys, ReadAttempts(k) PROVE Views'
    BY <1>5, ReadAttemptsKeepsViews
  <1>6. ASSUME ReadBalances \/ ReadRows PROVE Views'
    BY <1>6, ReadSeesAll
  <1>7. ASSUME ShowView \/ FetchFails PROVE Views'
    BY <1>7, FetchEnds
  <1>8. Views'
    <2>1. CASE Phone
      BY <2>1, <1>3, <1>4, <1>7 DEF Phone, ShowOutcome, Answered, PullToRefresh, ConnectionsChange
    <2>2. CASE Server
      BY <2>2, <1>2, <1>5, <1>6
         DEF Server, PostArrives, PayFromMock, AnswerPost, ServerStep, Restart, phone
    <2>3. CASE UNCHANGED walletVars
      BY <2>3, <1>2 DEF walletVars, phone
    <2> QED BY <2>1, <2>2, <2>3
  <1> QED BY <1>1, <1>8 DEF WalletInv

\* "PAYMENT SUCCESSFUL" is shown for a row that is completed and was charged
\* (payment_providers.dart, pay; pay_screen.dart).
THEOREM PaidCharged == WalletSpec => []PaidIsCharged
  <1>1. WalletInv => PaidIsCharged
    BY DEF WalletInv, AnswersAreTrue, ToldPaid, PaidIsCharged, TapInv, TruthInv, TablesTrue,
       CompletedIsCharged
  <1> QED BY WalletInvInit, WalletInvStep, <1>1, PTL DEF WalletSpec

\* What is shown as declined can only be charged by a prompt that is still open.
THEOREM DeclinedChargedByPrompt == WalletSpec => []DeclinedChargesByPrompt
  <1>1. WalletInv => DeclinedChargesByPrompt
    <2> SUFFICES ASSUME WalletInv, NEW k \in Keys, NEW r \in Refs, tap[k] = "declined",
                        ledger[r].key = k, ledger[r].outcome = "charged"
                 PROVE  ledger[r].provider \in AsyncProviders
      BY DEF DeclinedChargesByPrompt
    <2>1. ledger[r].provider \in Providers
      BY DEF WalletInv, TapInv, TruthInv, TablesTrue, CallsHaveProviders
    <2> QED BY <2>1 DEF WalletInv, AnswersAreTrue, ToldDeclined, MocksFailed, Providers
  <1> QED BY WalletInvInit, WalletInvStep, <1>1, PTL DEF WalletSpec

\* Old balances on screen are being fetched again by a fetch that is not older
\* than the success the phone has shown: its answer invalidates the balances, and
\* a fetch that fails takes them off the screen (payment_providers.dart, pay;
\* dashboard_screen.dart; api/balances.py).
THEOREM BalancesCaughtUp == WalletSpec => []BalancesCatchUp
  <1>1. WalletInv => BalancesCatchUp
    BY DEF WalletInv, Views, ViewTyped, FetchFresh, ListFresh, Fresh, BalancesCatchUp
  <1> QED BY WalletInvInit, WalletInvStep, <1>1, PTL DEF WalletSpec

\* So is a history that lacks what the phone has shown as an answer.
THEOREM HistoryCaughtUp == WalletSpec => []HistoryCatchesUp
  <1>1. WalletInv => HistoryCatchesUp
    BY DEF WalletInv, Views, ViewTyped, FetchFresh, ListFresh, Fresh, HistoryCatchesUp
  <1> QED BY WalletInvInit, WalletInvStep, <1>1, PTL DEF WalletSpec

\* A completed payment is listed with its successful attempt, although the rows
\* and the attempts are read by different statements (api/transactions.py).
THEOREM ListedWithCharge == WalletSpec => []ListedPaidHasCharge
  <1>1. WalletInv => ListedPaidHasCharge
    BY DEF WalletInv, Views, ListedIsCompleted, ListedPaidHasCharge
  <1> QED BY WalletInvInit, WalletInvStep, <1>1, PTL DEF WalletSpec

\* The type invariant: the server answers with no intermediate status.
THEOREM WalletTypeCorrect == WalletSpec => []WalletTypeOK
  <1>1. WalletInv => WalletTypeOK
    BY DEF WalletInv, WalletTypeOK, PhoneTyped, Views, ViewTyped, Screens, TapInv, TapsRouteOnce,
       TruthInv, OnceInv, LockInv
  <1> QED BY WalletInvInit, WalletInvStep, <1>1, PTL DEF WalletSpec

(* ----------------------- Wallet implements Checkout -------------------- *)

\* A reference nobody used has no key, and what arrived was tapped.
CallsAreOfTaps ==
    /\ \A r \in Refs : ledger[r].outcome = "unused" => ledger[r].key = None
    /\ \A k \in arrived : tap[k] # "unused"

TillInv == WalletInv /\ CallsAreOfTaps

\* The money of a call stays what it is.
CallStays(r) ==
    /\ ledger'[r].key = ledger[r].key /\ ledger'[r].provider = ledger[r].provider
    /\ ledger'[r].outcome = ledger[r].outcome

LEMMA LedgerSteps ==
  ASSUME TruthInv, [Next]_vars
  PROVE  \/ \A r \in Refs : CallStays(r)
         \/ \E h \in Handlers : CallMock(h) \/ SendPush(h)
         \/ \E r \in Refs : CustomerAnswers(r)
  <1> USE DEF CallStays
  <1>1. ASSUME NEW h \in Handlers, Arrive(h) \/ Abort(h) PROVE ledger' = ledger
    BY <1>1 DEF Arrive, CreatePayment, ReadForClaim, OpenRequest, ReadForCancel, ReadCallback,
       Start, Abort
  <1>2. ASSUME NEW h \in Handlers, Lock(h), ~Settle(h) PROVE ledger' = ledger
    BY <1>2 DEF Lock, InsertPayment, InsertConflict, CommitRequest, FlushClaim, CommitCancel
  <1>3. ASSUME NEW h \in Handlers, Settle(h) PROVE \A r \in Refs : CallStays(r)
    <2>1. \E s \in Refs : ledger' \in {ledger, [ledger EXCEPT ![s].acked = TRUE]}
      BY <1>3 DEF Settle, TruthInv, OnceInv, LockInv, JobsAreSet
    <2> QED BY <2>1 DEF TruthInv, OnceInv, LockInv, TypeOK, Calls
  <1>4. ASSUME NEW r \in Refs, IgnoreCallback(r) PROVE \A s \in Refs : CallStays(s)
    BY <1>4 DEF IgnoreCallback, TruthInv, OnceInv, LockInv, TypeOK, Calls
  <1>5. ASSUME NEW h \in Handlers, Route(h), ~CallMock(h), ~SendPush(h) PROVE ledger' = ledger
    BY <1>5 DEF Route, FindNoPolicy, LoadCandidates, PushAnswered, FinishLive, FinishDead,
       CommitRouting
  <1> QED BY <1>1, <1>2, <1>3, <1>4, <1>5 DEF Next, vars

\* What a call writes at its new reference.
LEMMA CallWrites ==
  ASSUME TapInv, NEW h \in Handlers, CallMock(h) \/ SendPush(h)
  PROVE  /\ NewRef \in Refs /\ ledger[NewRef].outcome = "unused"
         /\ job[h].key \in Keys /\ ledger'[NewRef].key = job[h].key
         /\ ledger'[NewRef].outcome # "unused"
         /\ ledger'[NewRef].outcome = "failed" \/ Moved(ledger'[NewRef]) \in {"asked", "taken"}
         /\ \A r \in Refs \ {NewRef} : ledger'[r] = ledger[r]
  <1>1. NextCall(h) /\ \E outcome : Called(h, outcome)
    BY DEF CallMock, SendPush
  <1>2. NewRef \in Refs /\ ledger[NewRef].outcome = "unused"
    BY <1>1, NewRefIsFree DEF NextCall
  <1>3. job[h].key \in Keys /\ ledger \in [Refs -> Calls]
    BY <1>1 DEF NextCall, TapInv, TruthInv, OnceInv, LockInv, JobsAreSet, TypeOK
  <1>4. /\ ledger'[NewRef].key = job[h].key
        /\ \A r \in Refs \ {NewRef} : ledger'[r] = ledger[r]
    BY <1>1, <1>2, <1>3 DEF Called
  <1>5. /\ ledger'[NewRef].outcome # "unused"
        /\ ledger'[NewRef].outcome = "failed" \/ Moved(ledger'[NewRef]) \in {"asked", "taken"}
    <2>1. CASE CallMock(h)
      <3>1. Head(job[h].todo) \notin AsyncProviders
        BY <2>1, OneAsyncProvider DEF CallMock
      <3> QED BY <1>2, <1>3, <2>1, <3>1 DEF CallMock, Called, Moved
    <2>2. CASE SendPush(h)
      BY <1>2, <1>3, <2>2 DEF SendPush, Called, Moved
    <2> QED BY <2>1, <2>2
  <1> QED BY <1>2, <1>3, <1>4, <1>5

LEMMA TillInit == WalletInit => TillInv /\ Till!Init
  <1> SUFFICES ASSUME WalletInit PROVE TillInv /\ Till!Init
    OBVIOUS
  <1>1. Init
    BY DEF WalletInit
  <1>2. TillInv
    BY <1>1, WalletInvInit DEF TillInv, CallsAreOfTaps, WalletInit, Init, NoCall
  <1>3. \A k \in Keys : MoneyCalls(k) = {}
    BY <1>1, NoneIsNew DEF MoneyCalls, Init, NoCall
  <1> QED BY <1>2, <1>3 DEF Till!Init, MoneyOf, MoneyBy, WalletInit

\* What the pay screen shows changes by its own steps only.
LEMMA TapSteps ==
  ASSUME [Phone \/ Server]_walletVars
  PROVE  \/ tap' = tap
         \/ \E k \in Keys : TapPay(k) \/ ShowOutcome(k) \/ ShowError(k)
  BY DEF Phone, ShowView, FetchFails, PullToRefresh, ConnectionsChange, Server, PostArrives,
     PayFromMock, AnswerPost, ReadAttempts, ReadBalances, ReadRows, ServerStep, Restart, walletVars,
     phone

\* A key whose calls stay is worth the same money.
LEMMA MoneyStays ==
  ASSUME NEW k \in Keys, \A r \in Refs : r \in MoneyCalls(k)' <=> r \in MoneyCalls(k),
         \A r \in MoneyCalls(k) : Moved(ledger[r])' = Moved(ledger[r])
  PROVE  MoneyOf'[k] = MoneyOf[k]
  <1>1. MoneyCalls(k)' = MoneyCalls(k)
    BY DEF MoneyCalls
  <1> DEFINE c == CHOOSE r \in MoneyCalls(k) : TRUE
  <1>2. MoneyCalls(k) # {} => c \in MoneyCalls(k)
    OBVIOUS
  <1>3. MoneyBy(MoneyCalls(k))' = MoneyBy(MoneyCalls(k))
    BY <1>1, <1>2 DEF MoneyBy
  <1> QED BY <1>3 DEF MoneyOf

LEMMA LedgerStaysMoney == ASSUME \A r \in Refs : CallStays(r) PROVE MoneyOf' = MoneyOf
  <1>1. ASSUME NEW k \in Keys PROVE MoneyOf'[k] = MoneyOf[k]
    <2>1. \A r \in Refs : r \in MoneyCalls(k)' <=> r \in MoneyCalls(k)
      BY DEF MoneyCalls, CallStays
    <2>2. \A r \in MoneyCalls(k) : Moved(ledger[r])' = Moved(ledger[r])
      BY DEF MoneyCalls, CallStays, Moved
    <2> QED BY <2>1, <2>2, MoneyStays
  <1> QED BY <1>1 DEF MoneyOf

\* The money of a key is its one call that did not fail.
LEMMA MoneyIsLiveCall ==
  ASSUME TillInv, NEW k \in Keys, NEW r \in MoneyCalls(k)
  PROVE  MoneyCalls(k) = {r} /\ MoneyOf[k] = Moved(ledger[r])
  <1>1. \A s \in MoneyCalls(k) : s \in Refs /\ ledger[s].key = k /\ ledger[s].outcome \notin {"unused", "failed"}
    BY NoneIsNew DEF MoneyCalls, TillInv, CallsAreOfTaps
  <1>2. MoneyCalls(k) = {r}
    BY <1>1 DEF TillInv, WalletInv, TapInv, OneLiveCallOfTap
  <1>3. (CHOOSE s \in MoneyCalls(k) : TRUE) = r
    BY <1>2
  <1> QED BY <1>2, <1>3 DEF MoneyOf, MoneyBy

\* Money moves for one key at a time.
LEMMA OneKeyMoves ==
  ASSUME NEW k \in Keys, tap' = tap, \A l \in Keys \ {k} : MoneyOf'[l] = MoneyOf[l],
         NEW outcomes, MoneyOf'[k] \in outcomes
  PROVE  Till!Moves(k, outcomes)
  <1>1. /\ MoneyOf = [l \in Keys |-> MoneyOf[l]] /\ DOMAIN MoneyOf = Keys
        /\ MoneyOf' = [l \in Keys |-> MoneyOf'[l]]
    BY DEF MoneyOf
  <1>2. MoneyOf' = [MoneyOf EXCEPT ![k] = MoneyOf'[k]]
    BY <1>1
  <1> QED BY <1>2 DEF Till!Moves

LEMMA TillInvStep == TillInv /\ [Phone \/ Server]_walletVars => TillInv'
  <1> SUFFICES ASSUME TillInv, [Phone \/ Server]_walletVars PROVE TillInv'
    OBVIOUS
  <1>1. WalletInv' /\ [Next]_vars /\ TapInv /\ TruthInv
    BY WalletInvStep, WalletStep DEF TillInv, WalletInv, TapInv
  <1>2. ASSUME NEW r \in Refs, ledger'[r].outcome = "unused" PROVE ledger'[r].key = None
    BY <1>1, <1>2, LedgerSteps, CallWrites DEF CallStays, CustomerAnswers, TillInv, CallsAreOfTaps,
       TruthInv, OnceInv, LockInv, TypeOK, Calls
  <1>3. ASSUME NEW k \in arrived' PROVE tap'[k] # "unused"
    <2>1. k \in arrived => tap[k] # "unused" /\ k \in Keys
      BY <1>1 DEF TillInv, CallsAreOfTaps, TapInv, TapsRouteOnce
    <2>2. k \notin arrived => tap'[k] # "unused"
      <3>1. k \notin arrived => \E h \in Handlers, l \in Keys : PostArrives(h, l)
        BY <1>3, WalletSteps DEF phone
      <3> QED BY <1>3, <2>1, <3>1 DEF PostArrives
    <2>3. k \in arrived => tap'[k] # "unused"
      BY <2>1, TapSteps DEF TapPay, ShowOutcome, Answered, ShowError, Outcome, TillInv, WalletInv, PhoneTyped
    <2> QED BY <2>2, <2>3
  <1> QED BY <1>1, <1>2, <1>3 DEF TillInv, CallsAreOfTaps

\* The tap, and what the phone shows of its end.
LEMMA ScreenRefines ==
  ASSUME TillInv, NEW k \in Keys, TapPay(k) \/ ShowOutcome(k) \/ ShowError(k)
  PROVE  Till!Tap(k) \/ Till!Show(k)
  <1>1. MoneyOf' = MoneyOf
    BY LedgerStaysMoney DEF TapPay, ShowOutcome, Answered, ShowError, vars, CallStays
  <1>2. CASE TapPay(k)
    BY <1>1, <1>2 DEF TapPay, Till!Tap, Till!Shows
  <1>3. CASE ShowError(k)
    BY <1>1, <1>3 DEF ShowError, Till!Show, Till!Shows
  <1>4. CASE ShowOutcome(k) /\ reply[k] = "COMPLETED"
    <2>1. row[k].status = "COMPLETED"
      BY <1>4 DEF ShowOutcome, Answered, TillInv, WalletInv, AnswersAreTrue, ToldPaid
    <2>2. PICK r \in Refs : ledger[r].key = k /\ ledger[r].outcome = "charged"
      BY <2>1 DEF TillInv, WalletInv, TapInv, TruthInv, TablesTrue, CompletedIsCharged
    <2>3. r \in MoneyCalls(k)
      BY <2>2 DEF MoneyCalls
    <2>4. MoneyOf[k] \in {"taken", "confirmed"}
      BY <2>2, <2>3, MoneyIsLiveCall DEF Moved
    <2> QED BY <1>1, <1>4, <2>4 DEF ShowOutcome, Answered, Outcome, Till!Show, Till!Shows
  <1>5. CASE ShowOutcome(k) /\ reply[k] # "COMPLETED"
    <2>1. MocksFailed(k)
      BY <1>5 DEF ShowOutcome, Answered, TillInv, WalletInv, AnswersAreTrue, ToldDeclined
    <2>2. MoneyOf[k] # "taken"
      <3>1. CASE MoneyCalls(k) = {}
        BY <3>1 DEF MoneyOf, MoneyBy
      <3>2. ASSUME NEW r \in MoneyCalls(k) PROVE MoneyOf[k] # "taken"
        <4>1. r \in Refs /\ ledger[r].key = k /\ ledger[r].outcome \notin {"unused", "failed"}
          BY NoneIsNew DEF MoneyCalls, TillInv, CallsAreOfTaps
        <4>2. ledger[r].provider \in AsyncProviders
          BY <2>1, <4>1 DEF MocksFailed, TillInv, WalletInv, TapInv, TruthInv, TablesTrue,
             CallsHaveProviders, Providers
        <4> QED BY <4>2, MoneyIsLiveCall DEF Moved
      <3> QED BY <3>1, <3>2
    <2> QED BY <1>1, <1>5, <2>2 DEF ShowOutcome, Answered, Outcome, Till!Show, Till!Shows
  <1> QED BY <1>2, <1>3, <1>4, <1>5

\* A call charges a key that was not charged, and whose end is not shown.
LEMMA CallRefines ==
  ASSUME TillInv, [Next]_vars, tap' = tap, NEW h \in Handlers, CallMock(h) \/ SendPush(h)
  PROVE  MoneyOf' = MoneyOf \/ \E k \in Keys : Till!Charge(k)
  <1> DEFINE n == NewRef
  <1>0. TapInv
    BY DEF TillInv, WalletInv
  <1>1. PICK k \in Keys : k = job[h].key
    BY <1>0, CallWrites
  <1>2. /\ n \in Refs /\ ledger[n].outcome = "unused" /\ ledger'[n].key = k
        /\ ledger'[n].outcome # "unused"
        /\ ledger'[n].outcome = "failed" \/ Moved(ledger'[n]) \in {"asked", "taken"}
        /\ \A r \in Refs \ {n} : ledger'[r] = ledger[r]
    BY <1>0, <1>1, CallWrites
  <1> HIDE DEF n
  <1>3. ledger[n].key = None
    BY <1>2 DEF TillInv, CallsAreOfTaps
  <1>4. \A r \in Refs : ledger[r].outcome # "unused" /\ ledger[r].key = k => ledger[r].outcome = "failed"
    BY <1>0, <1>2, CallsFollowFailures
  <1>5. MoneyCalls(k) = {} /\ MoneyOf[k] = "no"
    <2>1. MoneyCalls(k) = {}
      BY <1>4, NoneIsNew DEF MoneyCalls, TillInv, CallsAreOfTaps
    <2> QED BY <2>1 DEF MoneyOf, MoneyBy
  <1>6. \A l \in Keys \ {k} : MoneyOf'[l] = MoneyOf[l]
    <2> TAKE l \in Keys \ {k}
    <2>1. \A r \in Refs : r \in MoneyCalls(l)' <=> r \in MoneyCalls(l)
      BY <1>2, <1>3, NoneIsNew DEF MoneyCalls
    <2>2. n \notin MoneyCalls(l)
      BY <1>3, NoneIsNew DEF MoneyCalls
    <2>3. \A r \in MoneyCalls(l) : Moved(ledger[r])' = Moved(ledger[r])
      BY <1>2, <2>2 DEF MoneyCalls, Moved
    <2> QED BY <2>1, <2>3, MoneyStays
  <1>7. MoneyCalls(k)' = IF ledger'[n].outcome = "failed" THEN {} ELSE {n}
    <2>1. \A r \in Refs \ {n} : r \notin MoneyCalls(k)'
      BY <1>2, <1>5 DEF MoneyCalls
    <2> QED BY <1>2, <2>1 DEF MoneyCalls
  <1>8. CASE ledger'[n].outcome = "failed"
    <2>1. MoneyOf'[k] = MoneyOf[k]
      BY <1>5, <1>7, <1>8 DEF MoneyOf, MoneyBy
    <2> QED BY <1>6, <2>1 DEF MoneyOf
  <1>9. CASE ledger'[n].outcome # "failed"
    <2>1. MoneyOf'[k] \in {"asked", "taken"}
      <3>1. MoneyBy(MoneyCalls(k))' = Moved(ledger'[n])
        BY <1>7, <1>9 DEF MoneyBy, Moved
      <3> QED BY <1>2, <1>9, <3>1 DEF MoneyOf
    <2>2. Till!Moves(k, {"asked", "taken"})
      BY <1>6, <2>1, OneKeyMoves
    <2>3. tap[k] \in {"sent", "error"}
      <3>1. pc[h] = "route"
        BY DEF CallMock, SendPush, NextCall
      <3>2. k \in arrived /\ ~Exists(k)
        BY <1>0, <1>1, <3>1 DEF TapInv, TapsRouteOnce, Posting, TruthInv, OnceInv, RequestsAgree, Routing,
           TillInv, WalletInv, RowsAreTaps
      <3> QED BY <3>2 DEF TillInv, CallsAreOfTaps, WalletInv, PhoneTyped, AnswersAreTrue, ToldPaid,
              ToldDeclined, Exists
    <2> QED BY <1>5, <2>2, <2>3 DEF Till!Charge
  <1> QED BY <1>8, <1>9

\* The customer's answer to the prompt.
LEMMA PromptRefines ==
  ASSUME TillInv, tap' = tap, NEW r \in Refs, CustomerAnswers(r)
  PROVE  \E k \in Keys : Till!Answer(k)
  <1>1. PICK k \in Keys : k = ledger[r].key
    BY DEF CustomerAnswers, TillInv, WalletInv, TapInv, TruthInv, OnceInv, LockInv, CallsHaveKeys
  <1>2. /\ ledger[r].outcome = "prompted" /\ ledger'[r].outcome \in {"charged", "refused"}
        /\ ledger'[r].key = k /\ ledger'[r].provider = ledger[r].provider
        /\ \A s \in Refs \ {r} : ledger'[s] = ledger[s]
    BY <1>1 DEF CustomerAnswers, TillInv, WalletInv, TapInv, TruthInv, OnceInv, LockInv, TypeOK, Calls
  <1>3. ledger[r].provider \in AsyncProviders
    BY <1>2 DEF TillInv, WalletInv, TapInv, TruthInv, TablesTrue, CallsHaveProviders, Providers
  <1>4. \A l \in Keys, s \in Refs : s \in MoneyCalls(l)' <=> s \in MoneyCalls(l)
    BY <1>1, <1>2 DEF MoneyCalls
  <1>5. MoneyCalls(k) = {r} /\ MoneyOf[k] = "asked"
    BY <1>1, <1>2, MoneyIsLiveCall DEF MoneyCalls, Moved
  <1>6. MoneyOf'[k] \in {"confirmed", "refused"}
    <2>1. MoneyCalls(k)' = {r}
      BY <1>4, <1>5 DEF MoneyCalls
    <2>2. MoneyBy(MoneyCalls(k))' = Moved(ledger'[r])
      BY <2>1 DEF MoneyBy, Moved
    <2>3. MoneyBy(MoneyCalls(k))' \in {"confirmed", "refused"}
      BY <1>2, <1>3, <2>2 DEF Moved
    <2> QED BY <2>3 DEF MoneyOf
  <1>7. \A l \in Keys \ {k} : MoneyOf'[l] = MoneyOf[l]
    <2> TAKE l \in Keys \ {k}
    <2>1. \A s \in MoneyCalls(l) : s \in Refs \ {r}
      BY <1>1 DEF MoneyCalls
    <2>2. \A s \in MoneyCalls(l) : Moved(ledger[s])' = Moved(ledger[s])
      BY <1>2, <2>1 DEF Moved
    <2> QED BY <1>4, <2>2, MoneyStays
  <1> QED BY <1>5, <1>6, <1>7, OneKeyMoves DEF Till!Answer

LEMMA TillStep == TillInv /\ [Phone \/ Server]_walletVars => [Till!Next]_<<tap, MoneyOf>>
  <1> SUFFICES ASSUME TillInv, [Phone \/ Server]_walletVars
               PROVE  (tap' = tap /\ MoneyOf' = MoneyOf) \/ Till!Next
    OBVIOUS
  <1>1. [Next]_vars /\ TruthInv
    BY WalletStep DEF TillInv, WalletInv, TapInv
  <1>2. CASE tap' = tap
    BY <1>1, <1>2, LedgerSteps, LedgerStaysMoney, CallRefines, PromptRefines DEF Till!Next
  <1>3. CASE \E k \in Keys : TapPay(k) \/ ShowOutcome(k) \/ ShowError(k)
    BY <1>3, ScreenRefines DEF Till!Next
  <1> QED BY <1>2, <1>3, TapSteps

\* Phone, backend and providers together keep what a tap promises: one charge at
\* most, of a tap whose end is not shown yet, recorded or not; "successful" for
\* money that moved, "declined" for none a mock took (payment_providers.dart, pay;
\* payment_service.py; router_service.py).
THEOREM CheckoutImplemented == WalletSpec => ImplementsCheckout
  <1> QED BY TillInit, TillInvStep, TillStep, PTL DEF WalletSpec, ImplementsCheckout, Till!Spec

\* The purchases the phone's taps make at the backend are those of Purchase.
THEOREM WalletPurchases == WalletSpec => ImplementsPurchase
  BY WalletImplementsPayments, PurchaseImplemented, PTL

=============================================================================
