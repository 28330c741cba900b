------------------------ MODULE PaymentsTruthProofs ------------------------
(***************************************************************************)
(* The theorems that what the tables say is what happened to the money:    *)
(* COMPLETED was charged, AUTHORIZATION_PENDING was prompted, attempts are *)
(* true, and a customer's resolved payment does not change any more.       *)
(***************************************************************************)
EXTENDS PaymentsProofs

\* A call is a provider's, and a mock decides at once.
CallsHaveProviders ==
    \A r \in Refs : ledger[r].outcome # "unused" =>
        /\ ledger[r].provider \in Providers
        /\ ledger[r].provider \in MockProviders => ledger[r].outcome \in {"charged", "failed"}

\* A row names a mock only if that mock charged it.
SelectedIsCharged ==
    \A k \in Keys : row[k].selected \in MockProviders =>
        \E r \in Refs : /\ attempt[r] = "SUCCESS"
                        /\ ledger[r].key = k
                        /\ ledger[r].outcome = "charged"
                        /\ ledger[r].provider = row[k].selected

\* The one live call of a customer's row decided it, or will.
CustomerRowShowsCall ==
    \A r \in Refs :
        attempt[r] # "NONE" /\ ledger[r].outcome # "failed"
        /\ openedBy[ledger[r].key] = "customer" =>
            /\ row[ledger[r].key].selected = ledger[r].provider
            /\ <<attempt[r], row[ledger[r].key].status>> \in
                  {<<"PENDING", "AUTHORIZATION_PENDING">>, <<"SUCCESS", "COMPLETED">>,
                   <<"DECLINED", "DECLINED">>}

TablesTrue ==
    /\ CallsHaveProviders /\ SelectedIsCharged /\ CustomerRowShowsCall
    /\ AttemptsTellTheTruth /\ CompletedIsCharged /\ PendingHasPrompt

\* Only a routing remembers calls, and they are not recorded yet.
DoneIsUnrecorded ==
    \A h \in Handlers :
        /\ job[h].done # {} => pc[h] \in {"route", "push"}
        /\ \A r \in job[h].done : attempt[r] = "NONE"
        /\ pc[h] = "push" => attempt[job[h].ref] = "NONE"

\* A callback is handled for a prompt that was answered, of a row whose provider
\* does not vanish; only a merchant's request is cancelled.
LateWritesAreDue ==
    \A h \in Handlers :
        /\ pc[h] = "settle" =>
              /\ ledger[job[h].ref].outcome \in {"charged", "refused"}
              /\ ledger[job[h].ref].provider \in AsyncProviders
              /\ job[h].seen # None => row[job[h].key].selected # None
        /\ pc[h] = "cancel" => openedBy[job[h].key] = "merchant"

TruthInv == OnceInv /\ TablesTrue /\ DoneIsUnrecorded /\ LateWritesAreDue

\* A call that did not fail is answered with SUCCESS by a mock that charged, and
\* with PENDING by Daraja.
LEMMA ResultOfCall ==
  ASSUME CallsHaveProviders, NEW r \in Refs, ledger[r].outcome # "unused"
  PROVE  /\ Result(r) = "SUCCESS" => ledger[r].outcome = "charged" /\ ledger[r].provider \in MockProviders
         /\ Result(r) = "PENDING" => /\ ledger[r].outcome # "failed"
                                     /\ ledger[r].provider \in AsyncProviders
         /\ Result(r) \in {"DECLINED", "ERROR"} => ledger[r].outcome = "failed"
         /\ Result(r) \in {"SUCCESS", "PENDING", "DECLINED", "ERROR"}
         /\ ledger[r].outcome # "failed" => Result(r) \in {"SUCCESS", "PENDING"}
  BY DEF Result, CallsHaveProviders, Providers

LEMMA TruthInit == Init => TruthInv
  <1> SUFFICES ASSUME Init PROVE TruthInv
    OBVIOUS
  <1>1. OnceInv
    BY OnceInit
  <1>2. TablesTrue
    BY NoneIsNew DEF Init, TablesTrue, CallsHaveProviders, SelectedIsCharged, CustomerRowShowsCall,
       AttemptsTellTheTruth, CompletedIsCharged, PendingHasPrompt, NoRow, NoCall, Providers
  <1>3. DoneIsUnrecorded /\ LateWritesAreDue
    BY DEF Init, DoneIsUnrecorded, LateWritesAreDue, NoJob
  <1> QED BY <1>1, <1>2, <1>3 DEF TruthInv

\* Steps that leave tables and calls alone.
LEMMA TablesStay ==
  ASSUME TablesTrue, UNCHANGED <<row, openedBy, attempt, ledger>> PROVE TablesTrue'
  BY DEF TablesTrue, CallsHaveProviders, SelectedIsCharged, CustomerRowShowsCall,
     AttemptsTellTheTruth, CompletedIsCharged, PendingHasPrompt

LEMMA QuietKeepsTruth ==
  ASSUME TruthInv, OnceInv', NEW h \in Handlers,
         UNCHANGED <<row, openedBy, attempt, ledger>>,
         \A g \in Handlers \ {h} : pc'[g] = pc[g] /\ job'[g] = job[g],
         \/ job'[h].done = {}
         \/ pc'[h] = "route" /\ \A r \in job'[h].done : attempt[r] = "NONE",
         pc'[h] = "settle" => /\ ledger[job'[h].ref].outcome \in {"charged", "refused"}
                              /\ ledger[job'[h].ref].provider \in AsyncProviders
                              /\ job'[h].seen # None => row[job'[h].key].selected # None,
         pc'[h] = "cancel" => openedBy[job'[h].key] = "merchant",
         pc'[h] # "push"
  PROVE  TruthInv'
  <1>1. TablesTrue'
    BY TablesStay DEF TruthInv
  <1>2. DoneIsUnrecorded'
    BY DEF TruthInv, DoneIsUnrecorded
  <1>3. LateWritesAreDue'
    BY DEF TruthInv, LateWritesAreDue
  <1> QED BY <1>1, <1>2, <1>3 DEF TruthInv

\* A request that starts.
LEMMA StartKeepsTruth ==
  ASSUME TruthInv, OnceInv', NEW h \in Handlers, NEW j,
         NEW step \in {"insert", "open", "claim", "cancel", "settle"}, Start(h, step, j),
         j.done = {},
         step = "settle" => /\ ledger[j.ref].outcome \in {"charged", "refused"}
                            /\ ledger[j.ref].provider \in AsyncProviders
                            /\ j.seen # None => row[j.key].selected # None,
         step = "cancel" => openedBy[j.key] = "merchant"
  PROVE  TruthInv'
  <1>1. /\ pc'[h] = step /\ job'[h] = j
        /\ \A g \in Handlers \ {h} : pc'[g] = pc[g] /\ job'[g] = job[g]
        /\ UNCHANGED <<row, openedBy, attempt, ledger>>
    BY DEF Start, TruthInv, OnceInv, LockInv, TypeOK
  <1> QED BY <1>1, QuietKeepsTruth

LEMMA ArriveKeepsTruth ==
  ASSUME TruthInv, NEW h \in Handlers, Arrive(h) PROVE TruthInv'
  <1>0. OnceInv'
    BY ArriveKeepsOnce DEF TruthInv
  <1>1. ASSUME NEW u \in Users, NEW k \in Keys, CreatePayment(h, u, k) \/ ReadForClaim(h, u, k)
        PROVE  TruthInv'
    <2>1. [NoJob EXCEPT !.user = u, !.key = k].done = {}
      BY DEF NoJob
    <2> QED BY <1>0, <1>1, <2>1, StartKeepsTruth DEF CreatePayment, ReadForClaim
  <1>2. ASSUME NEW k \in Keys, OpenRequest(h, k) PROVE TruthInv'
    <2>1. [NoJob EXCEPT !.key = k].done = {}
      BY DEF NoJob
    <2> QED BY <1>0, <1>2, <2>1, StartKeepsTruth DEF OpenRequest
  <1>3. ASSUME NEW k \in Keys, ReadForCancel(h, k) PROVE TruthInv'
    <2> DEFINE j == [NoJob EXCEPT !.key = k]
    <2>1. j.done = {} /\ j.key = k
      BY DEF NoJob
    <2>2. row[k].status = "AUTHENTICATION_PENDING"
      BY <1>3 DEF ReadForCancel, IsCancellable, Cancellable, TruthInv, OnceInv, LockInv, TypeOK,
         Rows, Statuses
    <2>3. openedBy[k] = "merchant"
      BY <2>2 DEF TruthInv, OnceInv, RowsHaveOrigin
    <2> QED BY <1>0, <1>3, <2>1, <2>3, StartKeepsTruth DEF ReadForCancel
  <1>4. ASSUME NEW r \in Refs, ReadCallback(h, r) PROVE TruthInv'
    <2> DEFINE k == ledger[r].key
               j == [NoJob EXCEPT !.key = k, !.ref = r, !.seen = row[k].selected]
    <2>1. j.done = {} /\ j.key = k /\ j.ref = r /\ j.seen = row[k].selected
      BY DEF NoJob
    <2>2. ledger[r].outcome \in {"charged", "refused"} /\ ledger[r].provider \in AsyncProviders
      BY <1>4 DEF ReadCallback, CallsBack
    <2>3. Start(h, "settle", j)
      BY <1>4 DEF ReadCallback
    <2> HIDE DEF j
    <2> QED BY <1>0, <2>1, <2>2, <2>3, StartKeepsTruth
  <1> QED BY <1>1, <1>2, <1>3, <1>4 DEF Arrive

\* Two requests that remember one call are one request.
LEMMA CallsAreOwn ==
  ASSUME TruthInv, NEW g \in Handlers, NEW h \in Handlers, NEW r \in Refs,
         r \in job[g].done \/ (pc[g] = "push" /\ job[g].ref = r),
         r \in job[h].done \/ (pc[h] = "push" /\ job[h].ref = r)
  PROVE  g = h
  <1>1. /\ pc[g] \in {"route", "push"} /\ pc[h] \in {"route", "push"}
        /\ job[g].key = ledger[r].key /\ job[h].key = ledger[r].key
    BY DEF TruthInv, OnceInv, CallsOfRouting, DoneIsUnrecorded
  <1> QED BY <1>1, LocksExclude DEF TruthInv, OnceInv, RoutingIsExclusive

\* A request that returns, when the attempts it wrote are nobody else's, no row
\* lost its provider and no origin changed but of rows that did not exist.
LEMMA ReturnKeepsRequests ==
  ASSUME TruthInv, NEW h \in Handlers, Return(h), UNCHANGED ledger,
         \A r \in Refs : attempt[r] = "NONE" /\ attempt'[r] # "NONE" => r \in job[h].done,
         \A k \in Keys : row[k].selected # None => row'[k].selected # None,
         \A k \in Keys : openedBy[k] = "merchant" => openedBy'[k] = "merchant"
  PROVE  DoneIsUnrecorded' /\ LateWritesAreDue'
  <1>1. /\ pc'[h] = "idle" /\ job'[h].done = {}
        /\ \A g \in Handlers \ {h} : pc'[g] = pc[g] /\ job'[g] = job[g]
    BY ReturnIsLocal DEF TruthInv, OnceInv
  <1>2. \A g \in Handlers : /\ job[g].done \subseteq Refs
                            /\ pc[g] \in {"push", "settle"} => job[g].ref \in Refs
                            /\ pc[g] # "idle" => job[g].key \in Keys
    BY DEF TruthInv, OnceInv, LockInv, TypeOK, Jobs, JobsAreSet
  <1>3. DoneIsUnrecorded'
    <2> SUFFICES ASSUME NEW g \in Handlers \ {h} PROVE DoneIsUnrecorded!(g)'
      BY <1>1 DEF DoneIsUnrecorded
    <2>1. \A r \in job[g].done : attempt'[r] = "NONE"
      BY <1>2, CallsAreOwn DEF TruthInv, DoneIsUnrecorded
    <2>2. pc[g] = "push" => attempt'[job[g].ref] = "NONE"
      BY <1>2, CallsAreOwn DEF TruthInv, DoneIsUnrecorded
    <2> QED BY <1>1, <2>1, <2>2 DEF TruthInv, DoneIsUnrecorded
  <1>4. LateWritesAreDue'
    BY <1>1, <1>2 DEF TruthInv, LateWritesAreDue
  <1> QED BY <1>3, <1>4

\* A new or cancelled row: its status is neither COMPLETED nor waiting for a
\* prompt, and it is not a customer's.
LEMMA PlainStatusKeepsTables ==
  ASSUME TruthInv, NEW k \in Keys, NEW s \in {"AUTHENTICATION_PENDING", "CANCELLED"},
         row' = [row EXCEPT ![k].status = s],
         openedBy' = openedBy \/ openedBy' = [openedBy EXCEPT ![k] = "merchant"],
         openedBy'[k] = "merchant", UNCHANGED <<attempt, ledger>>
  PROVE  TablesTrue' /\ \A l \in Keys : row'[l].selected = row[l].selected
  <1>1. /\ row'[k].status = s /\ row'[k].selected = row[k].selected
        /\ \A l \in Keys \ {k} : row'[l] = row[l] /\ openedBy'[l] = openedBy[l]
    BY DEF TruthInv, OnceInv, LockInv, TypeOK, Rows
  <1>2. \A l \in Keys : row'[l].selected = row[l].selected
    BY <1>1
  <1>3. CallsHaveProviders' /\ AttemptsTellTheTruth'
    BY DEF TruthInv, TablesTrue, CallsHaveProviders, AttemptsTellTheTruth
  <1>4. SelectedIsCharged'
    BY <1>2 DEF TruthInv, TablesTrue, SelectedIsCharged
  <1>5. CustomerRowShowsCall'
    <2>1. \A r \in Refs : attempt[r] # "NONE" => ledger[r].key \in Keys
      BY DEF TruthInv, OnceInv, LockInv, AttemptsHaveRows, CallsHaveKeys
    <2> QED BY <1>1, <2>1 DEF TruthInv, TablesTrue, CustomerRowShowsCall
  <1>6. CompletedIsCharged' /\ PendingHasPrompt'
    BY <1>1 DEF TruthInv, TablesTrue, CompletedIsCharged, PendingHasPrompt
  <1> QED BY <1>2, <1>3, <1>4, <1>5, <1>6 DEF TablesTrue

\* A callback that is applied, to the row it found or to what that became.
LEMMA SettleKeepsTables ==
  ASSUME TruthInv, NEW h \in Handlers, Settle(h)
  PROVE  TablesTrue' /\ \A k \in Keys : row[k].selected # None => row'[k].selected # None
  <1> DEFINE r == job[h].ref
             k == job[h].key
             p == ledger[r].provider
  <1>1. /\ r \in Refs /\ k \in Keys /\ attempt[r] # "NONE" /\ ledger[r].key = k
        /\ ledger[r].outcome \in {"charged", "refused"} /\ p \in AsyncProviders
        /\ job[h].seen # None => row[k].selected # None
    BY DEF Settle, TruthInv, LateWritesAreDue, OnceInv, RequestsAgree, LockInv, JobsAreSet
  <1>2. p \in Providers /\ p # None
    BY <1>1, NoneIsNew DEF Providers
  <1>3. /\ attempt'[r] = IF ledger[r].outcome = "charged" THEN "SUCCESS" ELSE "DECLINED"
        /\ \A s \in Refs \ {r} : attempt'[s] = attempt[s]
    BY <1>1 DEF Settle, Paid, TruthInv, OnceInv, LockInv, TypeOK
  <1>4. \A s \in Refs : /\ ledger'[s].outcome = ledger[s].outcome /\ ledger'[s].key = ledger[s].key
                        /\ ledger'[s].provider = ledger[s].provider
    BY <1>1 DEF Settle, TruthInv, OnceInv, LockInv, TypeOK, Calls
  <1>5. /\ row'[k].status = IF ledger[r].outcome = "charged" THEN "COMPLETED" ELSE "DECLINED"
        /\ row'[k].selected \in {p, row[k].selected}
        /\ ledger[r].outcome = "charged" /\ job[h].seen # p => row'[k].selected = p
        /\ ledger[r].outcome = "charged" => row'[k].completed = TRUE
        /\ \A l \in Keys \ {k} : row'[l] = row[l]
    <2>1. row[k] \in Rows
      BY <1>1 DEF TruthInv, OnceInv, LockInv, TypeOK
    <2> QED BY <1>1, <2>1 DEF Settle, Paid, TruthInv, OnceInv, LockInv, TypeOK, Rows
  <1>6. openedBy' = openedBy
    BY DEF Settle
  <1>7. \A s \in Refs : attempt[s] = "SUCCESS" => attempt'[s] = "SUCCESS"
    BY <1>3 DEF TruthInv, TablesTrue, AttemptsTellTheTruth
  <1>a. \A l \in Keys : row[l].selected # None => row'[l].selected # None
    BY <1>2, <1>5
  <1>b. CallsHaveProviders'
    BY <1>4 DEF TruthInv, TablesTrue, CallsHaveProviders
  <1>c. AttemptsTellTheTruth'
    BY <1>1, <1>3, <1>4 DEF TruthInv, TablesTrue, AttemptsTellTheTruth
  <1>d. SelectedIsCharged'
    <2>1. p \notin MockProviders
      BY <1>1, OneAsyncProvider
    <2> QED BY <1>4, <1>5, <1>7, <2>1 DEF TruthInv, TablesTrue, SelectedIsCharged
  <1>e. CompletedIsCharged'
    <2> SUFFICES ASSUME NEW l \in Keys, row'[l].status = "COMPLETED"
                 PROVE  /\ row'[l].completed
                        /\ \E s \in Refs : /\ attempt'[s] = "SUCCESS" /\ ledger'[s].key = l
                                          /\ ledger'[s].outcome = "charged"
                                          /\ ledger'[s].provider = row'[l].selected
      BY DEF CompletedIsCharged
    <2>1. CASE l # k
      BY <1>4, <1>5, <1>7, <2>1 DEF TruthInv, TablesTrue, CompletedIsCharged
    <2>2. CASE l = k /\ row'[k].selected = p
      BY <1>1, <1>3, <1>4, <1>5, <2>2
    <2>3. CASE l = k /\ row'[k].selected # p
      <3>1. row'[k].selected = row[k].selected /\ row[k].selected # None
        BY <1>1, <1>2, <1>5, <2>3
      <3>2. row[k].selected \in MockProviders
        BY <1>1, <2>3, <3>1, OneAsyncProvider
           DEF TruthInv, OnceInv, LockInv, TypeOK, Rows, Providers
      <3>3. PICK s \in Refs : /\ attempt[s] = "SUCCESS" /\ ledger[s].key = k
                              /\ ledger[s].outcome = "charged"
                              /\ ledger[s].provider = row[k].selected
        BY <1>1, <3>2 DEF TruthInv, TablesTrue, SelectedIsCharged
      <3> QED BY <1>4, <1>5, <1>7, <2>3, <3>1, <3>3
    <2> QED BY <2>1, <2>2, <2>3
  <1>f. PendingHasPrompt'
    BY <1>1, <1>3, <1>4, <1>5 DEF TruthInv, TablesTrue, PendingHasPrompt
  <1>g. CustomerRowShowsCall'
    <2> SUFFICES ASSUME NEW s \in Refs, attempt'[s] # "NONE", ledger[s].outcome # "failed",
                        openedBy[ledger[s].key] = "customer"
                 PROVE  CustomerRowShowsCall!(s)!2'
      BY <1>4, <1>6 DEF CustomerRowShowsCall
    <2>1. attempt[s] # "NONE" /\ ledger[s].key \in Keys
      BY <1>1, <1>3 DEF TruthInv, OnceInv, LockInv, AttemptsHaveRows, CallsHaveKeys
    <2>2. CASE ledger[s].key = k
      <3>1. s = r
        BY <1>1, <2>1, <2>2 DEF TruthInv, OnceInv, CustomerPaymentRoutedOnce
      <3>2. row[k].selected = p
        BY <1>1, <2>2 DEF TruthInv, TablesTrue, CustomerRowShowsCall
      <3> QED BY <1>1, <1>3, <1>4, <1>5, <3>1, <3>2
    <2>3. CASE ledger[s].key # k
      BY <1>1, <1>3, <1>4, <1>5, <2>1, <2>3 DEF TruthInv, TablesTrue, CustomerRowShowsCall
    <2> QED BY <2>2, <2>3
  <1> QED BY <1>a, <1>b, <1>c, <1>d, <1>e, <1>f, <1>g DEF TablesTrue

LEMMA LockKeepsTruth ==
  ASSUME TruthInv, NEW h \in Handlers, Lock(h) PROVE TruthInv'
  <1>0. OnceInv'
    BY LockKeepsOnce DEF TruthInv
  <1>k. job[h].key \in Keys
    BY DEF Lock, TruthInv, OnceInv, LockInv, JobsAreSet, InsertPayment, InsertConflict,
           CommitRequest, FlushClaim, CommitCancel, Settle
  <1>1. CASE InsertPayment(h) \/ FlushClaim(h)
    <2>1. /\ pc'[h] = "policy" /\ job' = job /\ pc[h] \in {"insert", "claim"}
          /\ \A g \in Handlers \ {h} : pc'[g] = pc[g]
          /\ UNCHANGED <<row, openedBy, attempt, ledger>>
      BY <1>1 DEF InsertPayment, FlushClaim, Goto, TruthInv, OnceInv, LockInv, TypeOK
    <2>2. job[h].done = {}
      BY <2>1 DEF TruthInv, DoneIsUnrecorded
    <2> QED BY <1>0, <2>1, <2>2, QuietKeepsTruth
  <1>2. CASE InsertConflict(h)
    BY <1>0, <1>2, ReturnIsLocal, QuietKeepsTruth DEF InsertConflict, TruthInv, OnceInv
  <1>3. CASE CommitRequest(h)
    <2>1. openedBy'[job[h].key] = "merchant"
      BY <1>3, <1>k DEF CommitRequest, TruthInv, OnceInv, LockInv, TypeOK
    <2>2. TablesTrue' /\ \A l \in Keys : row'[l].selected = row[l].selected
      BY <1>3, <1>k, <2>1, PlainStatusKeepsTables DEF CommitRequest
    <2>3. DoneIsUnrecorded' /\ LateWritesAreDue'
      BY <1>3, <1>k, <2>2, ReturnKeepsRequests DEF CommitRequest, TruthInv, OnceInv, LockInv, TypeOK
    <2> QED BY <1>0, <2>2, <2>3 DEF TruthInv
  <1>4. CASE CommitCancel(h)
    <2>1. openedBy'[job[h].key] = "merchant"
      BY <1>4 DEF CommitCancel, TruthInv, LateWritesAreDue
    <2>2. TablesTrue' /\ \A l \in Keys : row'[l].selected = row[l].selected
      BY <1>4, <1>k, <2>1, PlainStatusKeepsTables DEF CommitCancel
    <2>3. DoneIsUnrecorded' /\ LateWritesAreDue'
      BY <1>4, <2>2, ReturnKeepsRequests DEF CommitCancel
    <2> QED BY <1>0, <2>2, <2>3 DEF TruthInv
  <1>5. CASE Settle(h)
    <2>1. TablesTrue' /\ \A l \in Keys : row[l].selected # None => row'[l].selected # None
      BY <1>5, SettleKeepsTables
    <2>r. job[h].ref \in Refs /\ attempt[job[h].ref] # "NONE"
      BY <1>5 DEF Settle, TruthInv, OnceInv, LockInv, JobsAreSet, RequestsAgree
    <2>2. \A s \in Refs : attempt'[s] # "NONE" <=> attempt[s] # "NONE"
      BY <1>5, <2>r DEF Settle, TruthInv, OnceInv, LockInv, TypeOK
    <2>3. \A s \in Refs : /\ ledger'[s].outcome = ledger[s].outcome
                          /\ ledger'[s].provider = ledger[s].provider
      BY <1>5, <2>r DEF Settle, TruthInv, OnceInv, LockInv, TypeOK, Calls
    <2>4. /\ pc'[h] = "idle" /\ job'[h].done = {} /\ openedBy' = openedBy
          /\ \A g \in Handlers \ {h} : pc'[g] = pc[g] /\ job'[g] = job[g]
      BY <1>5, ReturnIsLocal DEF Settle, TruthInv, OnceInv
    <2>5. \A g \in Handlers : /\ job[g].done \subseteq Refs
                              /\ pc[g] \in {"push", "settle"} => job[g].ref \in Refs
                              /\ pc[g] # "idle" => job[g].key \in Keys
      BY DEF TruthInv, OnceInv, LockInv, TypeOK, Jobs, JobsAreSet
    <2>6. DoneIsUnrecorded'
      BY <2>2, <2>4, <2>5 DEF TruthInv, DoneIsUnrecorded
    <2>7. LateWritesAreDue'
      BY <2>1, <2>3, <2>4, <2>5 DEF TruthInv, LateWritesAreDue
    <2> QED BY <1>0, <2>1, <2>6, <2>7 DEF TruthInv
  <1> QED BY <1>1, <1>2, <1>3, <1>4, <1>5 DEF Lock

\* A new call at a free reference, which no attempt records.
LEMMA CallKeepsTruth ==
  ASSUME TruthInv, OnceInv', NEW h \in Handlers, NextCall(h),
         NEW outcome \in {"charged", "prompted", "failed"}, Called(h, outcome),
         Head(job[h].todo) \in Providers,
         Head(job[h].todo) \in MockProviders => outcome # "prompted",
         UNCHANGED <<row, openedBy, attempt, writer>>,
         \A g \in Handlers \ {h} : pc'[g] = pc[g] /\ job'[g] = job[g],
         \/ pc'[h] = "push" /\ job'[h].ref = NewRef /\ job'[h].done = job[h].done
         \/ pc'[h] = "route" /\ job'[h].done = job[h].done \cup {NewRef}
  PROVE  TruthInv'
  <1>1. NewRef \in Refs /\ ledger[NewRef].outcome = "unused" /\ pc[h] = "route"
    BY NewRefIsFree DEF NextCall
  <1>2. /\ ledger'[NewRef].outcome = outcome /\ ledger'[NewRef].provider = Head(job[h].todo)
        /\ \A r \in Refs \ {NewRef} : ledger'[r] = ledger[r]
    BY <1>1 DEF Called, TruthInv, OnceInv, LockInv, TypeOK
  <1>3. attempt[NewRef] = "NONE"
    BY <1>1 DEF TruthInv, OnceInv, AttemptsHaveRows
  <1>4. TablesTrue'
    <2>1. CallsHaveProviders'
      BY <1>2 DEF TruthInv, TablesTrue, CallsHaveProviders
    <2>2. AttemptsTellTheTruth' /\ CustomerRowShowsCall'
      BY <1>2, <1>3 DEF TruthInv, TablesTrue, AttemptsTellTheTruth, CustomerRowShowsCall
    <2>3. SelectedIsCharged' /\ CompletedIsCharged' /\ PendingHasPrompt'
      BY <1>2, <1>3 DEF TruthInv, TablesTrue, SelectedIsCharged, CompletedIsCharged, PendingHasPrompt
    <2> QED BY <2>1, <2>2, <2>3 DEF TablesTrue
  <1>5. DoneIsUnrecorded'
    BY <1>1, <1>3 DEF TruthInv, DoneIsUnrecorded
  <1>6. LateWritesAreDue'
    <2>1. \A g \in Handlers : pc[g] = "settle" => job[g].ref \in Refs \ {NewRef}
      BY <1>1 DEF TruthInv, LateWritesAreDue, OnceInv, LockInv, JobsAreSet
    <2> QED BY <1>1, <1>2, <2>1 DEF TruthInv, LateWritesAreDue
  <1> QED BY <1>4, <1>5, <1>6 DEF TruthInv

\* What the commit of a routing writes: of a routing without a live call, or of
\* the live call r.
DeadCommit(h, status) ==
    /\ status \in {"PROVIDER_UNAVAILABLE", "DECLINED"}
    /\ row' = Routed(h, status, None)
    /\ \/ attempt' = attempt
       \/ attempt' = Recorded(h) /\ \A r \in job[h].done : ledger[r].outcome = "failed"

LiveCommit(h, r) ==
    /\ r \in job[h].done
    /\ Result(r) \in {"SUCCESS", "PENDING"}
    /\ row' = Routed(h, LiveStatus(r), ledger[r].provider)
    /\ attempt' = Recorded(h)

LEMMA CommitKeepsTruth ==
  ASSUME TruthInv, OnceInv', NEW h \in Handlers, pc[h] \in Routing,
         \/ \E status : DeadCommit(h, status)
         \/ \E r : LiveCommit(h, r),
         openedBy' = Opened(h), UNCHANGED ledger, Return(h)
  PROVE  TruthInv'
  <1> DEFINE k == job[h].key
  <1>1. /\ k \in Keys /\ job[h].done \subseteq Refs /\ row[k] \in Rows
        /\ \A r \in job[h].done : ledger[r].outcome # "unused" /\ ledger[r].key = k
        /\ \A r \in job[h].done : attempt[r] = "NONE"
    BY DEF TruthInv, OnceInv, LockInv, TypeOK, JobsAreSet, Jobs, Routing, CallsOfRouting,
           DoneIsUnrecorded
  <1>2. /\ openedBy'[k] = (IF Exists(k) THEN openedBy[k] ELSE "customer")
        /\ \A l \in Keys \ {k} : openedBy'[l] = openedBy[l]
    BY <1>1 DEF Opened, TruthInv, OnceInv, LockInv, TypeOK
  <1>3. \A r \in Refs : \/ attempt'[r] = attempt[r]
                        \/ r \in job[h].done /\ attempt'[r] = Result(r)
    BY DEF DeadCommit, LiveCommit, Recorded, TruthInv, OnceInv, LockInv, TypeOK
  <1>4. \A r \in Refs : attempt[r] # "NONE" => attempt'[r] = attempt[r]
    BY <1>1, <1>3
  <1>5. \A r \in job[h].done : attempt'[r] # "NONE" => attempt'[r] = Result(r)
    BY <1>1, <1>3
  <1>6. /\ \A l \in Keys \ {k} : row'[l] = row[l]
        /\ \/ /\ row'[k].status \in {"PROVIDER_UNAVAILABLE", "DECLINED"}
              /\ row'[k].selected = row[k].selected
              /\ \A r \in job[h].done : attempt'[r] # "NONE" => ledger[r].outcome = "failed"
           \/ \E r \in job[h].done :
                 /\ Result(r) \in {"SUCCESS", "PENDING"}
                 /\ row'[k].status = LiveStatus(r)
                 /\ row'[k].selected = ledger[r].provider
                 /\ attempt'[r] = Result(r)
                 /\ row'[k].status = "COMPLETED" => row'[k].completed
    <2>1. ASSUME NEW status, DeadCommit(h, status)
          PROVE  /\ row'[k].status = status /\ row'[k].selected = row[k].selected
                 /\ \A l \in Keys \ {k} : row'[l] = row[l]
      <3> DEFINE c == IF status = "COMPLETED" THEN TRUE ELSE row[k].completed
      <3>1. row' = [row EXCEPT ![k] = [@ EXCEPT !.status = status, !.bio = job[h].user,
                                                !.selected = row[k].selected, !.completed = c]]
        BY <2>1 DEF DeadCommit, Routed
      <3> HIDE DEF c
      <3> QED BY <1>1, <3>1 DEF TruthInv, OnceInv, LockInv, TypeOK, Rows
    <2>2. ASSUME NEW r, LiveCommit(h, r)
          PROVE  /\ row'[k].status = LiveStatus(r) /\ row'[k].selected = ledger[r].provider
                 /\ row'[k].status = "COMPLETED" => row'[k].completed
                 /\ \A l \in Keys \ {k} : row'[l] = row[l]
      <3> DEFINE c == IF LiveStatus(r) = "COMPLETED" THEN TRUE ELSE row[k].completed
      <3>1. ledger[r].provider # None
        BY <1>1, <2>2, NoneIsNew DEF LiveCommit, TruthInv, TablesTrue, CallsHaveProviders
      <3>2. row' = [row EXCEPT ![k] = [@ EXCEPT !.status = LiveStatus(r), !.bio = job[h].user,
                                                !.selected = ledger[r].provider, !.completed = c]]
        BY <2>2, <3>1 DEF LiveCommit, Routed
      <3>3. LiveStatus(r) = "COMPLETED" => c
        OBVIOUS
      <3> HIDE DEF c
      <3> QED BY <1>1, <3>2, <3>3 DEF TruthInv, OnceInv, LockInv, TypeOK, Rows
    <2>3. ASSUME NEW r, LiveCommit(h, r) PROVE attempt'[r] = Result(r)
      BY <1>1, <2>3 DEF LiveCommit, Recorded
    <2>4. CASE \E status : DeadCommit(h, status)
      BY <1>1, <2>1, <2>4 DEF DeadCommit
    <2>5. CASE \E r : LiveCommit(h, r)
      BY <2>2, <2>3, <2>5 DEF LiveCommit
    <2> QED BY <2>4, <2>5
  <1>7. TablesTrue'
    <2>1. CallsHaveProviders /\ CallsHaveProviders'
      BY DEF TruthInv, TablesTrue, CallsHaveProviders
    <2>2. AttemptsTellTheTruth'
      BY <1>1, <1>3, <2>1, ResultOfCall DEF TruthInv, TablesTrue, AttemptsTellTheTruth
    <2>3. SelectedIsCharged'
      <3> SUFFICES ASSUME NEW l \in Keys, row'[l].selected \in MockProviders
                   PROVE  \E r \in Refs : /\ attempt'[r] = "SUCCESS" /\ ledger[r].key = l
                                         /\ ledger[r].outcome = "charged"
                                         /\ ledger[r].provider = row'[l].selected
        BY DEF SelectedIsCharged
      <3>1. CASE row'[l].selected = row[l].selected
        BY <1>4, <3>1 DEF TruthInv, TablesTrue, SelectedIsCharged
      <3>2. CASE row'[l].selected # row[l].selected
        <4>1. PICK r \in job[h].done : /\ Result(r) \in {"SUCCESS", "PENDING"}
                                       /\ row'[l].selected = ledger[r].provider
                                       /\ attempt'[r] = Result(r) /\ l = k
          BY <1>6, <3>2
        <4>2. Result(r) = "SUCCESS"
          BY <1>1, <2>1, <4>1, ResultOfCall, OneAsyncProvider
        <4> QED BY <1>1, <2>1, <4>1, <4>2, ResultOfCall
      <3> QED BY <3>1, <3>2
    <2>4. CompletedIsCharged'
      <3> SUFFICES ASSUME NEW l \in Keys, row'[l].status = "COMPLETED"
                   PROVE  /\ row'[l].completed
                          /\ \E r \in Refs : /\ attempt'[r] = "SUCCESS" /\ ledger[r].key = l
                                            /\ ledger[r].outcome = "charged"
                                            /\ ledger[r].provider = row'[l].selected
        BY DEF CompletedIsCharged
      <3>1. CASE l = k
        BY <1>1, <1>6, <2>1, <3>1, ResultOfCall DEF LiveStatus
      <3>2. CASE l # k
        BY <1>4, <1>6, <3>2 DEF TruthInv, TablesTrue, CompletedIsCharged
      <3> QED BY <3>1, <3>2
    <2>5. PendingHasPrompt'
      <3> SUFFICES ASSUME NEW l \in Keys, row'[l].status = "AUTHORIZATION_PENDING"
                   PROVE  \E r \in Refs : /\ attempt'[r] = "PENDING" /\ ledger[r].key = l
                                         /\ ledger[r].outcome \in {"prompted", "charged", "refused"}
        BY DEF PendingHasPrompt
      <3>1. CASE l = k
        <4>1. PICK r \in job[h].done : /\ Result(r) \in {"SUCCESS", "PENDING"}
                                       /\ row'[k].status = LiveStatus(r)
                                       /\ attempt'[r] = Result(r)
          BY <1>6, <3>1
        <4>2. Result(r) = "PENDING"
          BY <3>1, <4>1 DEF LiveStatus
        <4>3. ledger[r].outcome \in {"prompted", "charged", "refused"}
          BY <1>1, <2>1, <4>2, ResultOfCall DEF TruthInv, OnceInv, LockInv, TypeOK, Calls
        <4> QED BY <1>1, <3>1, <4>1, <4>2, <4>3
      <3>2. CASE l # k
        BY <1>4, <1>6, <3>2 DEF TruthInv, TablesTrue, PendingHasPrompt
      <3> QED BY <3>1, <3>2
    <2>6. CustomerRowShowsCall'
      <3> SUFFICES ASSUME NEW s \in Refs, attempt'[s] # "NONE", ledger[s].outcome # "failed",
                          openedBy'[ledger[s].key] = "customer"
                   PROVE  CustomerRowShowsCall!(s)!2'
        BY DEF CustomerRowShowsCall
      <3>1. CASE ledger[s].key = k
        <4>1. ~Exists(k)
          BY <1>2, <3>1 DEF TruthInv, OnceInv, RequestsAgree
        <4>2. s \in job[h].done
          BY <1>3, <3>1, <4>1 DEF TruthInv, OnceInv, AttemptsHaveRows
        <4>3. PICK r \in job[h].done : /\ Result(r) \in {"SUCCESS", "PENDING"}
                                       /\ row'[k].status = LiveStatus(r)
                                       /\ row'[k].selected = ledger[r].provider
                                       /\ attempt'[r] = Result(r)
          BY <1>6, <4>2
        <4>4. ledger[r].outcome # "failed"
          BY <1>1, <2>1, <4>3, ResultOfCall
        <4>5. s = r
          BY <4>2, <4>3, <4>4 DEF TruthInv, OnceInv, CallsOfRouting
        <4> QED BY <3>1, <4>3, <4>5 DEF LiveStatus
      <3>2. CASE ledger[s].key # k
        <4>1. attempt'[s] = attempt[s]
          BY <1>1, <1>3, <3>2
        <4>2. ledger[s].key \in Keys
          BY <4>1 DEF TruthInv, OnceInv, LockInv, AttemptsHaveRows, CallsHaveKeys
        <4> QED BY <1>2, <1>6, <3>2, <4>1, <4>2 DEF TruthInv, TablesTrue, CustomerRowShowsCall
      <3> QED BY <3>1, <3>2
    <2> QED BY <2>1, <2>2, <2>3, <2>4, <2>5, <2>6 DEF TablesTrue
  <1>8. DoneIsUnrecorded' /\ LateWritesAreDue'
    <2>1. \A l \in Keys : row[l].selected # None => row'[l].selected # None
      <3>1. \A r \in job[h].done : ledger[r].provider # None
        BY <1>1, NoneIsNew DEF TruthInv, TablesTrue, CallsHaveProviders
      <3> QED BY <1>6, <3>1
    <2>2. \A l \in Keys : openedBy[l] = "merchant" => openedBy'[l] = "merchant"
      BY <1>2 DEF TruthInv, OnceInv, RowsHaveOrigin
    <2> QED BY <1>3, <2>1, <2>2, ReturnKeepsRequests
  <1> QED BY <1>7, <1>8 DEF TruthInv

LEMMA RouteKeepsTruth ==
  ASSUME TruthInv, NEW h \in Handlers, Route(h) PROVE TruthInv'
  <1>0. OnceInv'
    BY RouteKeepsOnce DEF TruthInv
  <1>k. job[h] \in Jobs
    BY DEF TruthInv, OnceInv, LockInv, TypeOK
  <1>1. CASE FindNoPolicy(h)
    <2>1. DeadCommit(h, "PROVIDER_UNAVAILABLE")
      BY <1>1 DEF FindNoPolicy, DeadCommit
    <2> QED BY <1>0, <1>1, <2>1, CommitKeepsTruth DEF FindNoPolicy, Routing
  <1>2. CASE LoadCandidates(h)
    <2>1. /\ pc[h] = "policy" /\ pc'[h] = "route" /\ job'[h].done = job[h].done
          /\ \A g \in Handlers \ {h} : pc'[g] = pc[g] /\ job'[g] = job[g]
          /\ UNCHANGED <<row, openedBy, attempt, ledger>>
      BY <1>2, <1>k DEF LoadCandidates, Goto, TruthInv, OnceInv, LockInv, TypeOK, Jobs
    <2> QED BY <1>0, <2>1, QuietKeepsTruth DEF TruthInv, DoneIsUnrecorded
  <1>3. CASE CallMock(h)
    <2>1. PICK outcome \in {"charged", "failed"} : Called(h, outcome)
      BY <1>3 DEF CallMock
    <2>2. /\ \A g \in Handlers \ {h} : pc'[g] = pc[g] /\ job'[g] = job[g]
          /\ pc'[h] = "route" /\ job'[h].done = job[h].done \cup {NewRef}
      BY <1>3, <1>k DEF CallMock, NextCall, TruthInv, OnceInv, LockInv, TypeOK, Jobs
    <2>3. NextCall(h) /\ Head(job[h].todo) \in MockProviders /\ UNCHANGED <<row, openedBy, attempt, writer>>
      BY <1>3 DEF CallMock
    <2> QED BY <1>0, <2>1, <2>2, <2>3, CallKeepsTruth DEF Providers
  <1>4. CASE SendPush(h)
    <2>1. PICK outcome \in {"prompted", "failed"} : Called(h, outcome)
      BY <1>4 DEF SendPush
    <2>2. /\ \A g \in Handlers \ {h} : pc'[g] = pc[g] /\ job'[g] = job[g]
          /\ pc'[h] = "push" /\ job'[h].ref = NewRef /\ job'[h].done = job[h].done
      BY <1>4, <1>k DEF SendPush, NextCall, Goto, TruthInv, OnceInv, LockInv, TypeOK, Jobs
    <2>3. /\ NextCall(h) /\ Head(job[h].todo) \in AsyncProviders
          /\ UNCHANGED <<row, openedBy, attempt, writer>>
      BY <1>4 DEF SendPush
    <2>4. Head(job[h].todo) \notin MockProviders
      BY <2>3, OneAsyncProvider
    <2> QED BY <1>0, <2>1, <2>2, <2>3, <2>4, CallKeepsTruth DEF Providers
  <1>5. CASE PushAnswered(h)
    <2>1. /\ \A g \in Handlers \ {h} : pc'[g] = pc[g] /\ job'[g] = job[g]
          /\ pc[h] = "push" /\ pc'[h] = "route"
          /\ job'[h].done = job[h].done \cup {job[h].ref}
          /\ UNCHANGED <<row, openedBy, attempt, ledger>>
      BY <1>5, <1>k DEF PushAnswered, Goto, TruthInv, OnceInv, LockInv, TypeOK, Jobs
    <2> QED BY <1>0, <2>1, QuietKeepsTruth DEF TruthInv, DoneIsUnrecorded
  <1>6. CASE FinishLive(h)
    <2>1. PICK r \in job[h].done : /\ Result(r) \in {"SUCCESS", "PENDING"}
                                   /\ CommitRouting(h, LiveStatus(r), ledger[r].provider)
      BY <1>6 DEF FinishLive
    <2>2. LiveCommit(h, r)
      BY <2>1 DEF LiveCommit, CommitRouting
    <2> QED BY <1>0, <1>6, <2>1, <2>2, CommitKeepsTruth DEF FinishLive, CommitRouting, Routing
  <1>7. CASE FinishDead(h)
    <2>1. \A r \in job[h].done : ledger[r].outcome = "failed"
      BY <1>7, DeadCallFailed DEF FinishDead
    <2>2. DeadCommit(h, DeadStatus(h))
      BY <1>7, <2>1 DEF FinishDead, CommitRouting, DeadCommit, DeadStatus
    <2> QED BY <1>0, <1>7, <2>2, CommitKeepsTruth DEF FinishDead, CommitRouting, Routing
  <1> QED BY <1>1, <1>2, <1>3, <1>4, <1>5, <1>6, <1>7 DEF Route

\* The customer answers a prompt, or a callback is acknowledged without effect.
LEMMA LedgerStepKeepsTruth ==
  ASSUME TruthInv, OnceInv', NEW r \in Refs, CustomerAnswers(r) \/ IgnoreCallback(r)
  PROVE  TruthInv'
  <1>1. /\ ledger'[r].key = ledger[r].key /\ ledger'[r].provider = ledger[r].provider
        /\ \/ ledger'[r].outcome = ledger[r].outcome
           \/ ledger[r].outcome = "prompted" /\ ledger'[r].outcome \in {"charged", "refused"}
        /\ \A s \in Refs \ {r} : ledger'[s] = ledger[s]
        /\ ledger[r].outcome # "unused"
    BY DEF CustomerAnswers, IgnoreCallback, CallsBack, TruthInv, OnceInv, LockInv, TypeOK, Calls
  <1>2. UNCHANGED <<row, openedBy, attempt, writer, pc, job>>
    BY DEF CustomerAnswers, IgnoreCallback
  <1>3. TablesTrue'
    <2>1. CallsHaveProviders' /\ AttemptsTellTheTruth' /\ CustomerRowShowsCall'
      BY <1>1, <1>2 DEF TruthInv, TablesTrue, CallsHaveProviders, AttemptsTellTheTruth,
         CustomerRowShowsCall
    <2>2. SelectedIsCharged' /\ CompletedIsCharged' /\ PendingHasPrompt'
      BY <1>1, <1>2 DEF TruthInv, TablesTrue, SelectedIsCharged, CompletedIsCharged, PendingHasPrompt
    <2> QED BY <2>1, <2>2 DEF TablesTrue
  <1>4. DoneIsUnrecorded' /\ LateWritesAreDue'
    BY <1>1, <1>2 DEF TruthInv, OnceInv, LockInv, JobsAreSet, DoneIsUnrecorded, LateWritesAreDue
  <1> QED BY <1>3, <1>4 DEF TruthInv

LEMMA TruthStep == TruthInv /\ [Next]_vars => TruthInv'
  <1> SUFFICES ASSUME TruthInv, [Next]_vars PROVE TruthInv'
    OBVIOUS
  <1>0. OnceInv'
    BY OnceStep DEF TruthInv
  <1>1. ASSUME NEW h \in Handlers, Arrive(h) \/ Lock(h) \/ Route(h) PROVE TruthInv'
    BY <1>1, ArriveKeepsTruth, LockKeepsTruth, RouteKeepsTruth
  <1>2. ASSUME NEW h \in Handlers, Abort(h) PROVE TruthInv'
    BY <1>0, <1>2, ReturnIsLocal, QuietKeepsTruth DEF Abort, TruthInv, OnceInv
  <1>3. ASSUME NEW r \in Refs, CustomerAnswers(r) \/ IgnoreCallback(r) PROVE TruthInv'
    BY <1>0, <1>3, LedgerStepKeepsTruth
  <1>4. CASE UNCHANGED vars
    BY <1>0, <1>4, TablesStay DEF vars, TruthInv, DoneIsUnrecorded, LateWritesAreDue
  <1> QED BY <1>1, <1>2, <1>3, <1>4 DEF Next

\* Whatever requests, aborts and callbacks raced, a COMPLETED row has a recorded
\* attempt that charged, at the provider it names (payment_service.py,
\* _route_and_resolve and handle_daraja_callback).
THEOREM CompletedCharged == Spec => []CompletedIsCharged
  <1>1. TruthInv => CompletedIsCharged
    BY DEF TruthInv, TablesTrue
  <1> QED BY TruthInit, TruthStep, <1>1, PTL DEF Spec

\* A row that waits for its authorization has a pending attempt whose prompt
\* went out (payment_service.py, _route_and_resolve).
THEOREM PendingPrompted == Spec => []PendingHasPrompt
  <1>1. TruthInv => PendingHasPrompt
    BY DEF TruthInv, TablesTrue
  <1> QED BY TruthInit, TruthStep, <1>1, PTL DEF Spec

\* No recorded attempt misstates what happened to the money.
THEOREM AttemptsTrue == Spec => []AttemptsTellTheTruth
  <1>1. TruthInv => AttemptsTellTheTruth
    BY DEF TruthInv, TablesTrue
  <1> QED BY TruthInit, TruthStep, <1>1, PTL DEF Spec

\* After a SUCCESS or a PENDING the router tries no further candidate
\* (router_service.py, the break of route_payment).
THEOREM OneLiveCall == Spec => []OneLiveCallPerRouting
  <1>1. TruthInv => OneLiveCallPerRouting
    <2>1. ASSUME NEW r, Result(r) \in {"SUCCESS", "PENDING"} PROVE ledger[r].outcome # "failed"
      BY <2>1 DEF Result
    <2> QED BY <2>1 DEF TruthInv, OnceInv, CallsOfRouting, OneLiveCallPerRouting
  <1> QED BY TruthInit, TruthStep, <1>1, PTL DEF Spec

\* Only the callback of its own prompt can write a customer's resolved row, and
\* it writes what is there.
LEMMA FinalStep ==
  ASSUME TruthInv, [Next]_vars, NEW k \in Keys, openedBy[k] = "customer", row[k].status \in Resolved
  PROVE  row'[k] = row[k]
  <1>1. row[k] \in Rows /\ Exists(k) /\ row \in [Keys -> Rows]
    BY DEF TruthInv, OnceInv, LockInv, TypeOK, Resolved, Exists
  <1>2. ASSUME NEW h \in Handlers, Arrive(h) \/ Abort(h) PROVE row' = row
    BY <1>2 DEF Arrive, CreatePayment, ReadForClaim, OpenRequest, ReadForCancel, ReadCallback,
       Start, Abort
  <1>3. ASSUME NEW h \in Handlers, Lock(h) PROVE row'[k] = row[k]
    <2>1. CASE InsertPayment(h) \/ InsertConflict(h) \/ FlushClaim(h)
      BY <2>1 DEF InsertPayment, InsertConflict, FlushClaim
    <2>2. CASE CommitRequest(h)
      BY <1>1, <2>2 DEF CommitRequest
    <2>3. CASE CommitCancel(h)
      BY <1>1, <2>3 DEF CommitCancel, TruthInv, LateWritesAreDue
    <2>4. CASE Settle(h)
      <3> DEFINE r == job[h].ref
                 l == job[h].key
      <3>1. /\ r \in Refs /\ l \in Keys /\ attempt[r] # "NONE" /\ ledger[r].key = l
            /\ ledger[r].outcome \in {"charged", "refused"}
        BY <2>4 DEF Settle, TruthInv, LateWritesAreDue, OnceInv, RequestsAgree, LockInv, JobsAreSet
      <3>2. CASE l = k
        <4>1. /\ row[k].selected = ledger[r].provider
              /\ \/ attempt[r] = "SUCCESS" /\ row[k].status = "COMPLETED"
                 \/ attempt[r] = "DECLINED" /\ row[k].status = "DECLINED"
          BY <3>1, <3>2 DEF TruthInv, TablesTrue, CustomerRowShowsCall, Resolved
        <4>2. Paid(r) <=> row[k].status = "COMPLETED"
          BY <3>1, <4>1 DEF TruthInv, TablesTrue, AttemptsTellTheTruth, Paid
        <4>3. row[k].status = "COMPLETED" => row[k].completed = TRUE
          BY <1>1 DEF TruthInv, TablesTrue, CompletedIsCharged, Rows
        <4> DEFINE s == IF Paid(r) THEN "COMPLETED" ELSE "DECLINED"
                   a == IF Paid(r) /\ job[h].seen # ledger[r].provider
                        THEN ledger[r].provider ELSE row[k].selected
                   c == IF Paid(r) THEN TRUE ELSE row[k].completed
        <4>4. s = row[k].status /\ a = row[k].selected /\ c = row[k].completed
          BY <4>1, <4>2, <4>3
        <4>5. row' = [row EXCEPT ![k] = [@ EXCEPT !.status = s, !.selected = a, !.completed = c]]
          BY <2>4, <3>2 DEF Settle
        <4> HIDE DEF s, a, c
        <4> QED BY <1>1, <4>4, <4>5 DEF Rows
      <3>3. CASE l # k
        BY <1>1, <2>4, <3>1, <3>3 DEF Settle
      <3> QED BY <3>2, <3>3
    <2> QED BY <1>3, <2>1, <2>2, <2>3, <2>4 DEF Lock
  <1>4. ASSUME NEW h \in Handlers, Route(h) PROVE row'[k] = row[k]
    <2>1. CASE LoadCandidates(h) \/ CallMock(h) \/ SendPush(h) \/ PushAnswered(h)
      BY <2>1 DEF LoadCandidates, CallMock, SendPush, PushAnswered
    <2>2. CASE FindNoPolicy(h) \/ FinishLive(h) \/ FinishDead(h)
      <3>1. pc[h] \in Routing /\ \E status, selected : row' = Routed(h, status, selected)
        BY <2>2 DEF FindNoPolicy, FinishLive, FinishDead, CommitRouting, Routing
      <3>2. job[h].key # k
        BY <1>1, <3>1 DEF TruthInv, OnceInv, RequestsAgree
      <3> QED BY <1>1, <3>1, <3>2 DEF Routed
    <2> QED BY <1>4, <2>1, <2>2 DEF Route
  <1>5. ASSUME NEW r \in Refs, CustomerAnswers(r) \/ IgnoreCallback(r) PROVE row' = row
    BY <1>5 DEF CustomerAnswers, IgnoreCallback
  <1>6. CASE UNCHANGED vars
    BY <1>6 DEF vars
  <1> QED BY <1>2, <1>3, <1>4, <1>5, <1>6 DEF Next

\* A customer's resolved payment stays as it is: no retry, cancel, claim or
\* repeated callback changes its row (payment_service.py).
THEOREM CustomerFinal == Spec => CustomerPaymentIsFinal
  <1> DEFINE Stays == \A k \in Keys : openedBy[k] = "customer" /\ row[k].status \in Resolved
                                       => row'[k] = row[k]
  <1>1. TruthInv /\ [Next]_vars => [Stays]_vars
    BY FinalStep
  <1> QED BY TruthInit, TruthStep, <1>1, PTL DEF Spec, CustomerPaymentIsFinal

(* -------------- facts the proofs of composed modules rest on ------------ *)

\* A step of one request leaves the others where they are.
LEMMA OthersStay ==
  ASSUME LockInv, NEW h \in Handlers, Arrive(h) \/ Lock(h) \/ Route(h) \/ Abort(h),
         NEW g \in Handlers \ {h}
  PROVE  pc'[g] = pc[g] /\ job'[g] = job[g]
  <1> USE DEF LockInv, TypeOK, Goto, Return
  <1>1. CASE Arrive(h)
    BY <1>1 DEF Arrive, CreatePayment, ReadForClaim, OpenRequest, ReadForCancel, ReadCallback, Start
  <1>2. CASE Lock(h)
    BY <1>2 DEF Lock, InsertPayment, InsertConflict, CommitRequest, FlushClaim, CommitCancel, Settle
  <1>3. CASE Route(h)
    BY <1>3 DEF Route, FindNoPolicy, LoadCandidates, CallMock, SendPush, PushAnswered, FinishLive,
       FinishDead, CommitRouting
  <1>4. CASE Abort(h)
    BY <1>4 DEF Abort
  <1> QED BY <1>1, <1>2, <1>3, <1>4

\* A call keeps its payment and its provider; only a prompt changes its outcome.
CallKept(r) ==
    /\ ledger'[r].key = ledger[r].key /\ ledger'[r].provider = ledger[r].provider
    /\ \/ ledger'[r].outcome = ledger[r].outcome
       \/ ledger[r].outcome = "prompted" /\ ledger'[r].outcome \in {"charged", "refused"}

LEMMA CallsAreKept ==
  ASSUME TruthInv, [Next]_vars, NEW r \in Refs, ledger[r].outcome # "unused"
  PROVE  CallKept(r)
  <1>1. CASE ledger' = ledger
    BY <1>1 DEF CallKept
  <1>2. ASSUME NEW h \in Handlers, CallMock(h) \/ SendPush(h) PROVE CallKept(r)
    <2>1. NextCall(h) /\ \E outcome : Called(h, outcome)
      BY <1>2 DEF CallMock, SendPush
    <2>2. r # NewRef
      BY <2>1, NewRefIsFree DEF NextCall
    <2> QED BY <2>1, <2>2 DEF CallKept, Called, TruthInv, OnceInv, LockInv, TypeOK
  <1>3. ASSUME NEW h \in Handlers, Settle(h) PROVE CallKept(r)
    <2>1. \E s \in Refs : ledger' \in {ledger, [ledger EXCEPT ![s].acked = TRUE]}
      BY <1>3 DEF Settle, TruthInv, OnceInv, LockInv, JobsAreSet
    <2> QED BY <2>1 DEF CallKept, TruthInv, OnceInv, LockInv, TypeOK, Calls
  <1>4. ASSUME NEW s \in Refs, CustomerAnswers(s) \/ IgnoreCallback(s) PROVE CallKept(r)
    BY <1>4 DEF CallKept, CustomerAnswers, IgnoreCallback, TruthInv, OnceInv, LockInv, TypeOK, Calls
  <1>5. ASSUME NEW h \in Handlers, Arrive(h) \/ Abort(h) PROVE ledger' = ledger
    BY <1>5 DEF Arrive, CreatePayment, ReadForClaim, OpenRequest, ReadForCancel, ReadCallback,
       Start, Abort
  <1>6. ASSUME NEW h \in Handlers, Lock(h), ~Settle(h) PROVE ledger' = ledger
    BY <1>6 DEF Lock, InsertPayment, InsertConflict, CommitRequest, FlushClaim, CommitCancel
  <1>7. ASSUME NEW h \in Handlers, Route(h), ~CallMock(h), ~SendPush(h) PROVE ledger' = ledger
    BY <1>7 DEF Route, FindNoPolicy, LoadCandidates, PushAnswered, FinishLive, FinishDead,
       CommitRouting
  <1> QED BY <1>1, <1>2, <1>3, <1>4, <1>5, <1>6, <1>7 DEF Next, vars

\* Calls are made by CallMock and SendPush, at the new reference.
LEMMA CallsAreMade ==
  ASSUME TruthInv, [Next]_vars, NEW r \in Refs, ledger[r].outcome = "unused",
         ledger'[r].outcome # "unused"
  PROVE  \E h \in Handlers :
            /\ CallMock(h) \/ SendPush(h)
            /\ r = NewRef /\ NextCall(h)
            /\ ledger'[r].key = job[h].key /\ ledger'[r].provider = Head(job[h].todo)
  <1>1. ASSUME NEW h \in Handlers, CallMock(h) \/ SendPush(h)
        PROVE  /\ r = NewRef /\ NextCall(h)
               /\ ledger'[r].key = job[h].key /\ ledger'[r].provider = Head(job[h].todo)
    <2>1. NextCall(h) /\ \E outcome : Called(h, outcome)
      BY <1>1 DEF CallMock, SendPush
    <2> QED BY <2>1 DEF Called, TruthInv, OnceInv, LockInv, TypeOK
  <1>2. ASSUME NEW h \in Handlers, Settle(h) PROVE FALSE
    <2>1. \E s \in Refs : ledger' \in {ledger, [ledger EXCEPT ![s].acked = TRUE]}
      BY <1>2 DEF Settle, TruthInv, OnceInv, LockInv, JobsAreSet
    <2> QED BY <2>1 DEF TruthInv, OnceInv, LockInv, TypeOK, Calls
  <1>3. ASSUME NEW s \in Refs, CustomerAnswers(s) \/ IgnoreCallback(s) PROVE FALSE
    BY <1>3 DEF CustomerAnswers, IgnoreCallback, CallsBack, TruthInv, OnceInv, LockInv, TypeOK, Calls
  <1>4. ASSUME NEW h \in Handlers, Arrive(h) \/ Abort(h) PROVE FALSE
    BY <1>4 DEF Arrive, CreatePayment, ReadForClaim, OpenRequest, ReadForCancel, ReadCallback,
       Start, Abort
  <1>5. ASSUME NEW h \in Handlers, Lock(h), ~Settle(h) PROVE FALSE
    BY <1>5 DEF Lock, InsertPayment, InsertConflict, CommitRequest, FlushClaim, CommitCancel
  <1>6. ASSUME NEW h \in Handlers, Route(h), ~CallMock(h), ~SendPush(h) PROVE FALSE
    BY <1>6 DEF Route, FindNoPolicy, LoadCandidates, PushAnswered, FinishLive, FinishDead,
       CommitRouting
  <1> QED BY <1>1, <1>2, <1>3, <1>4, <1>5, <1>6 DEF Next, vars

(* -------------- what races leave alone, and what aborts lose ----------- *)

\* Between two requests nothing is remembered; a request that will write an
\* owner knows whom; only a push or a callback under way holds a reference.
HandsFit ==
    /\ \A h \in Handlers :
        /\ pc[h] = "idle" => job[h] = NoJob
        /\ pc[h] \in {"insert", "claim"} \cup Routing => job[h].user \in Users
        /\ job[h].ref # None => pc[h] \in {"push", "settle"}
    /\ \A k \in Keys : ~Exists(k) => row[k].bio = None

HandsInv == TruthInv /\ HandsFit

LEMMA HandsInit == Init => HandsInv
  BY TruthInit DEF HandsInv, HandsFit, Init, NoJob, NoRow, Routing

Returns(h) == pc'[h] = "idle" /\ job'[h] = NoJob

\* A request that may become the owner's starts on a payment without one, any
\* other on one that is not resolved.
Starts(h) ==
    /\ pc[h] = "idle" /\ row' = row
    /\ \/ /\ pc'[h] \in {"insert", "claim"}
          /\ job'[h].user \in Users /\ job'[h].ref = None
          /\ ~Exists(job'[h].key) \/ Claimable(job'[h].key)
       \/ /\ pc'[h] \in {"open", "cancel", "settle"}
          /\ job'[h].user = None
          /\ job'[h].ref # None => pc'[h] = "settle"
          /\ row[job'[h].key].status \notin Resolved

Continues(h) ==
    /\ pc[h] \in {"insert", "claim"} \cup Routing /\ pc'[h] \in Routing
    /\ job'[h].key = job[h].key /\ job'[h].user = job[h].user
    /\ job'[h].ref # None => pc'[h] = "push"

\* A step of a request starts it, takes it further or ends it.
LEMMA StepsOfRequest ==
  ASSUME HandsInv, NEW h \in Handlers, Arrive(h) \/ Lock(h) \/ Route(h) \/ Abort(h)
  PROVE  Starts(h) \/ Continues(h) \/ Returns(h)
  <1> USE DEF HandsInv, TruthInv, OnceInv, LockInv, TypeOK
  <1>1. ASSUME NEW u \in Users, NEW k \in Keys, CreatePayment(h, u, k) \/ ReadForClaim(h, u, k)
        PROVE  Starts(h)
    BY <1>1 DEF CreatePayment, ReadForClaim, Start, Starts, NoJob
  <1>2. ASSUME NEW k \in Keys, OpenRequest(h, k) \/ ReadForCancel(h, k) PROVE Starts(h)
    BY <1>2 DEF OpenRequest, ReadForCancel, Start, Starts, NoJob, Exists, IsCancellable,
       Cancellable, Resolved
  <1>3. ASSUME NEW r \in Refs, ReadCallback(h, r) PROVE Starts(h)
    BY <1>3 DEF ReadCallback, Applies, Start, Starts, NoJob, Resolved
  <1>4. CASE InsertPayment(h) \/ FlushClaim(h)
    BY <1>4 DEF InsertPayment, FlushClaim, Goto, Continues, Routing, HandsFit
  <1>5. CASE InsertConflict(h) \/ CommitRequest(h) \/ CommitCancel(h) \/ Settle(h) \/ Abort(h)
    BY <1>5, ReturnIsLocal DEF InsertConflict, CommitRequest, CommitCancel, Settle, Abort, Returns
  <1>6. CASE FindNoPolicy(h) \/ FinishLive(h) \/ FinishDead(h)
    BY <1>6, ReturnIsLocal DEF FindNoPolicy, FinishLive, FinishDead, CommitRouting, Returns
  <1>7. CASE LoadCandidates(h) \/ CallMock(h) \/ SendPush(h) \/ PushAnswered(h)
    <2>1. job[h] \in Jobs
      OBVIOUS
    <2> QED BY <1>7, <2>1 DEF LoadCandidates, CallMock, SendPush, PushAnswered, NextCall, Goto,
            Continues, Routing, HandsFit, Jobs
  <1> QED BY <1>1, <1>2, <1>3, <1>4, <1>5, <1>6, <1>7 DEF Arrive, Lock, Route

\* A row is written by a request that works on it; it exists afterwards, and its
\* owner is the old one or the customer of a routing.
LEMMA RowWrites ==
  ASSUME TruthInv, [Next]_vars, NEW k \in Keys, row'[k] # row[k]
  PROVE  /\ Exists(k)'
         /\ \E h \in Handlers : /\ job[h].key = k /\ pc[h] # "idle"
                                /\ \/ row'[k].bio = row[k].bio
                                   \/ row'[k].bio = job[h].user /\ pc[h] \in Routing
  <1>0. row \in [Keys -> Rows] /\ row[k] \in Rows
    BY DEF TruthInv, OnceInv, LockInv, TypeOK
  <1>1. ASSUME NEW h \in Handlers, CommitRequest(h) \/ CommitCancel(h) \/ Settle(h)
        PROVE  /\ Exists(k)' /\ job[h].key = k /\ pc[h] # "idle" /\ row'[k].bio = row[k].bio
    BY <1>0, <1>1 DEF CommitRequest, CommitCancel, Settle, Rows, Exists
  <1>2. ASSUME NEW h \in Handlers, FindNoPolicy(h) \/ FinishLive(h) \/ FinishDead(h)
        PROVE  /\ Exists(k)' /\ job[h].key = k /\ pc[h] \in Routing /\ row'[k].bio = job[h].user
    <2>1. /\ pc[h] \in Routing
          /\ \E status \in Statuses : \E selected : row' = Routed(h, status, selected)
      BY <1>2 DEF FindNoPolicy, FinishLive, FinishDead, CommitRouting, LiveStatus, DeadStatus,
         Routing, Statuses
    <2>2. PICK status \in Statuses : \E selected : row' = Routed(h, status, selected)
      BY <2>1
    <2>6. PICK selected : row' = Routed(h, status, selected)
      BY <2>2
    <2> DEFINE l == job[h].key
               q == IF selected = None THEN row[l].selected ELSE selected
               c == IF status = "COMPLETED" THEN TRUE ELSE row[l].completed
    <2>3. row' = [row EXCEPT ![l] = [@ EXCEPT !.status = status, !.bio = job[h].user,
                                              !.selected = q, !.completed = c]]
      BY <2>6 DEF Routed
    <2> HIDE DEF q, c
    <2>4. k = l
      BY <1>0, <2>3
    <2>5. row'[k].status = status /\ row'[k].bio = job[h].user
      BY <1>0, <2>3, <2>4 DEF Rows
    <2> QED BY <2>1, <2>4, <2>5 DEF Exists, Statuses
  <1>3. ASSUME NEW h \in Handlers,
               \/ Arrive(h) \/ Abort(h)
               \/ InsertPayment(h) \/ InsertConflict(h) \/ FlushClaim(h)
               \/ LoadCandidates(h) \/ CallMock(h) \/ SendPush(h) \/ PushAnswered(h)
        PROVE  FALSE
    BY <1>3 DEF Arrive, CreatePayment, ReadForClaim, OpenRequest, ReadForCancel, ReadCallback,
       Start, Abort, InsertPayment, InsertConflict, FlushClaim, LoadCandidates, CallMock,
       SendPush, PushAnswered
  <1>4. ASSUME NEW r \in Refs, CustomerAnswers(r) \/ IgnoreCallback(r) PROVE FALSE
    BY <1>4 DEF CustomerAnswers, IgnoreCallback
  <1> QED BY <1>1, <1>2, <1>3, <1>4 DEF Next, Lock, Route, vars, Routing

LEMMA HandsStep == HandsInv /\ [Next]_vars => HandsInv'
  <1> SUFFICES ASSUME HandsInv, [Next]_vars PROVE HandsInv'
    OBVIOUS
  <1>1. TruthInv /\ TruthInv'
    BY TruthStep DEF HandsInv
  <1>2. ASSUME NEW k \in Keys, ~Exists(k)' PROVE row'[k].bio = None
    BY <1>1, <1>2, RowWrites DEF HandsInv, HandsFit, Exists
  <1>3. ASSUME NEW h \in Handlers, Arrive(h) \/ Lock(h) \/ Route(h) \/ Abort(h) PROVE HandsFit'
    <2>1. \A g \in Handlers \ {h} : HandsFit!1!(g)'
      BY <1>1, <1>3, OthersStay DEF HandsInv, HandsFit, TruthInv, OnceInv
    <2>2. HandsFit!1!(h)'
      <3>1. CASE Starts(h)
        BY <3>1 DEF Starts, Routing
      <3>2. CASE Continues(h)
        BY <3>2 DEF Continues, HandsInv, HandsFit, Routing
      <3>3. CASE Returns(h)
        BY <3>3 DEF Returns, NoJob, Routing
      <3> QED BY <1>3, <3>1, <3>2, <3>3, StepsOfRequest
    <2> QED BY <1>2, <2>1, <2>2 DEF HandsFit
  <1>4. CASE pc' = pc /\ job' = job
    BY <1>1, <1>2, <1>4 DEF HandsInv, HandsFit, Exists
  <1> QED BY <1>1, <1>3, <1>4 DEF HandsInv, Next, vars, CustomerAnswers, IgnoreCallback

\* The request that works on a call keeps it or records it, unless it aborts.
LEMMA CallsAreHeld ==
  ASSUME HandsInv, NEW h \in Handlers, Arrive(h) \/ Lock(h) \/ Route(h), NEW r \in Refs,
         attempt[r] = "NONE", r \in job[h].done \/ job[h].ref = r
  PROVE  attempt'[r] # "NONE" \/ r \in job'[h].done \/ job'[h].ref = r
  <1>1. pc[h] \in {"route", "push"} /\ (job[h].ref = r => pc[h] = "push")
    <2>1. r # None
      BY NoneIsNew
    <2>2. pc[h] # "settle" \/ (job[h].ref # r /\ job[h].done = {})
      BY DEF HandsInv, TruthInv, OnceInv, RequestsAgree, DoneIsUnrecorded
    <2> QED BY <2>1, <2>2 DEF HandsInv, HandsFit, TruthInv, DoneIsUnrecorded
  <1>2. Route(h) /\ ~FindNoPolicy(h) /\ ~LoadCandidates(h)
    BY <1>1 DEF Arrive, CreatePayment, ReadForClaim, OpenRequest, ReadForCancel, ReadCallback, Start,
       Lock, InsertPayment, InsertConflict, CommitRequest, FlushClaim, CommitCancel, Settle,
       FindNoPolicy, LoadCandidates
  <1>3. job \in [Handlers -> Jobs] /\ job[h] \in Jobs
    BY DEF HandsInv, TruthInv, OnceInv, LockInv, TypeOK
  <1>4. CASE CallMock(h) \/ SendPush(h) \/ PushAnswered(h)
    <2>1. CASE CallMock(h)
      <3>1. job' = [job EXCEPT ![h].todo = Tail(@), ![h].done = @ \cup {NewRef}] /\ pc[h] = "route"
        BY <2>1 DEF CallMock, NextCall
      <3>2. r \in job[h].done
        BY <1>1, <3>1
      <3> QED BY <1>3, <3>1, <3>2 DEF Jobs
    <2>2. CASE SendPush(h)
      <3>1. job' = [job EXCEPT ![h].ref = NewRef] /\ pc[h] = "route"
        BY <2>2 DEF SendPush, NextCall
      <3>2. r \in job[h].done
        BY <1>1, <3>1
      <3> QED BY <1>3, <3>1, <3>2 DEF Jobs
    <2>3. CASE PushAnswered(h)
      <3>1. job' = [job EXCEPT ![h].todo = Tail(@), ![h].done = @ \cup {job[h].ref},
                               ![h].ref = None]
        BY <2>3 DEF PushAnswered
      <3>2. job'[h].done = job[h].done \cup {job[h].ref}
        BY <1>3, <3>1 DEF Jobs
      <3> QED BY <3>2
    <2> QED BY <1>4, <2>1, <2>2, <2>3
  <1>5. CASE FinishLive(h) \/ FinishDead(h)
    <2>1. pc[h] = "route" /\ attempt' = Recorded(h)
      BY <1>5 DEF FinishLive, FinishDead, CommitRouting
    <2> QED BY <1>1, <2>1 DEF Recorded, Result
  <1> QED BY <1>2, <1>4, <1>5 DEF Route

LEMMA ForgottenStep ==
  ASSUME HandsInv, [Next]_vars, NEW r \in Refs, Forgotten(r)'
  PROVE  Forgotten(r) \/ \E h \in Handlers : Abort(h)
  <1> SUFFICES ASSUME \A h \in Handlers : ~Abort(h) PROVE Forgotten(r)
    OBVIOUS
  <1>0. /\ ledger'[r].outcome # "unused" /\ attempt'[r] = "NONE"
        /\ \A h \in Handlers : r \notin job'[h].done /\ job'[h].ref # r
    BY DEF Forgotten
  <1>j. job \in [Handlers -> Jobs]
    BY DEF HandsInv, TruthInv, OnceInv, LockInv, TypeOK
  <1>1. attempt[r] = "NONE"
    <2>1. ASSUME NEW h \in Handlers, Settle(h) PROVE attempt'[r] # "NONE" \/ attempt'[r] = attempt[r]
      BY <2>1 DEF Settle, HandsInv, TruthInv, OnceInv, LockInv, TypeOK
    <2>2. ASSUME NEW h \in Handlers, FinishLive(h) \/ FinishDead(h)
          PROVE  attempt'[r] # "NONE" \/ attempt'[r] = attempt[r]
      BY <2>2 DEF FinishLive, FinishDead, CommitRouting, Recorded, Result
    <2>3. ASSUME NEW h \in Handlers,
                 \/ Arrive(h) \/ InsertPayment(h) \/ InsertConflict(h) \/ CommitRequest(h)
                 \/ FlushClaim(h) \/ CommitCancel(h) \/ FindNoPolicy(h) \/ LoadCandidates(h)
                 \/ CallMock(h) \/ SendPush(h) \/ PushAnswered(h)
          PROVE  attempt' = attempt
      BY <2>3 DEF Arrive, CreatePayment, ReadForClaim, OpenRequest, ReadForCancel, ReadCallback,
         Start, InsertPayment, InsertConflict, CommitRequest, FlushClaim, CommitCancel,
         FindNoPolicy, LoadCandidates, CallMock, SendPush, PushAnswered
    <2>4. ASSUME NEW s \in Refs, CustomerAnswers(s) \/ IgnoreCallback(s) PROVE attempt' = attempt
      BY <2>4 DEF CustomerAnswers, IgnoreCallback
    <2> QED BY <1>0, <2>1, <2>2, <2>3, <2>4 DEF Next, Lock, Route, vars
  <1>2. ASSUME NEW g \in Handlers, r \in job[g].done \/ job[g].ref = r PROVE FALSE
    <2>1. ASSUME NEW h \in Handlers, Arrive(h) \/ Lock(h) \/ Route(h) PROVE FALSE
      <3>1. CASE h = g
        BY <1>0, <1>1, <1>2, <2>1, <3>1, CallsAreHeld
      <3>2. CASE h # g
        <4>1. job'[g] = job[g]
          BY <2>1, <3>2, OthersStay DEF HandsInv, TruthInv, OnceInv
        <4> QED BY <1>0, <1>2, <4>1
      <3> QED BY <3>1, <3>2
    <2>2. CASE job' = job
      BY <1>0, <1>2, <2>2
    <2> QED BY <2>1, <2>2 DEF Next, vars, CustomerAnswers, IgnoreCallback
  <1>3. ledger[r].outcome # "unused"
    <2> SUFFICES ASSUME ledger[r].outcome = "unused" PROVE FALSE
      OBVIOUS
    <2>1. PICK h \in Handlers : (CallMock(h) \/ SendPush(h)) /\ r = NewRef
      BY <1>0, CallsAreMade DEF HandsInv
    <2>2. r \in job'[h].done \/ job'[h].ref = r
      BY <1>j, <2>1 DEF CallMock, SendPush, Jobs
    <2> QED BY <1>0, <2>2
  <1> QED BY <1>1, <1>2, <1>3 DEF Forgotten

\* Every call that went to a provider is on record or in the hands of a request
\* that goes on to record it; only an exception in that request loses it
\* (payment_service.py, the loop over the attempts in _route_and_resolve).
THEOREM ForgottenByAbort == Spec => ForgottenByAbortOnly
  <1> DEFINE Kept == \A r \in Refs : Forgotten(r)' => Forgotten(r) \/ \E h \in Handlers : Abort(h)
  <1>1. HandsInv /\ [Next]_vars => [Kept]_vars
    BY ForgottenStep
  <1> QED BY HandsInit, HandsStep, <1>1, PTL DEF Spec, ForgottenByAbortOnly

\* A resolved payment nobody works on is not taken up again.
LEMMA RestStep ==
  ASSUME HandsInv, [Next]_vars, NEW k \in Keys, row[k].status \in Resolved, AtRest(k)
  PROVE  row'[k] = row[k] /\ AtRest(k)'
  <1>1. row'[k] = row[k]
    BY RowWrites DEF HandsInv, AtRest
  <1>2. ASSUME NEW h \in Handlers, Arrive(h) \/ Lock(h) \/ Route(h) \/ Abort(h) PROVE AtRest(k)'
    <2>1. \A g \in Handlers \ {h} : job'[g] = job[g]
      BY <1>2, OthersStay DEF HandsInv, TruthInv, OnceInv
    <2>2. job'[h].key # k
      <3>1. CASE Starts(h)
        BY <3>1 DEF Starts, Claimable, Exists, Resolved
      <3>2. CASE Continues(h)
        BY <3>2 DEF Continues, AtRest
      <3>3. CASE Returns(h)
        BY <3>3, NoneIsNew DEF Returns, NoJob
      <3> QED BY <1>2, <3>1, <3>2, <3>3, StepsOfRequest
    <2> QED BY <2>1, <2>2 DEF AtRest
  <1>3. ASSUME job' = job PROVE AtRest(k)'
    BY <1>3 DEF AtRest
  <1> QED BY <1>1, <1>2, <1>3 DEF Next, vars, CustomerAnswers, IgnoreCallback

\* A payment with an owner that nobody routes is not routed again.
LEMMA OwnerStep ==
  ASSUME HandsInv, [Next]_vars, NEW k \in Keys, row[k].bio # None, Unrouted(k)
  PROVE  row'[k].bio = row[k].bio /\ Unrouted(k)'
  <1>0. Exists(k)
    BY DEF HandsInv, HandsFit
  <1>1. row'[k].bio = row[k].bio
    <2> SUFFICES ASSUME row'[k] # row[k] PROVE row'[k].bio = row[k].bio
      OBVIOUS
    <2>1. \A h \in Handlers : job[h].key = k => pc[h] \notin Routing
      BY NoneIsNew DEF Unrouted, HandsInv, HandsFit
    <2> QED BY <2>1, RowWrites DEF HandsInv
  <1>2. ASSUME NEW h \in Handlers, Arrive(h) \/ Lock(h) \/ Route(h) \/ Abort(h) PROVE Unrouted(k)'
    <2>1. \A g \in Handlers \ {h} : job'[g] = job[g]
      BY <1>2, OthersStay DEF HandsInv, TruthInv, OnceInv
    <2>2. job'[h].key = k => job'[h].user = None
      <3>1. CASE Starts(h)
        BY <1>0, <3>1 DEF Starts, Claimable
      <3>2. CASE Continues(h)
        BY <3>2 DEF Continues, Unrouted
      <3>3. CASE Returns(h)
        BY <3>3 DEF Returns, NoJob
      <3> QED BY <1>2, <3>1, <3>2, <3>3, StepsOfRequest
    <2> QED BY <2>1, <2>2 DEF Unrouted
  <1>3. ASSUME job' = job PROVE Unrouted(k)'
    BY <1>3 DEF Unrouted
  <1> QED BY <1>1, <1>2, <1>3 DEF Next, vars, CustomerAnswers, IgnoreCallback

\* What the races of claim and cancel break, they break while their requests run:
\* a resolved payment nobody works on stays as it is for good, and so does the
\* owner of one nobody routes (payment_service.py, the status checks).
THEOREM RestIsFinal == Spec => FinalAtRest
  <1> DEFINE Stays == \A k \in Keys :
               /\ row[k].status \in Resolved /\ AtRest(k) => row'[k] = row[k] /\ AtRest(k)'
               /\ row[k].bio # None /\ Unrouted(k) => row'[k].bio = row[k].bio /\ Unrouted(k)'
  <1>1. HandsInv /\ [Next]_vars => [Stays]_vars
    BY RestStep, OwnerStep
  <1> QED BY HandsInit, HandsStep, <1>1, PTL DEF Spec, FinalAtRest

=============================================================================
