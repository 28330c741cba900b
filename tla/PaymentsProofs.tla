--------------------------- MODULE PaymentsProofs ---------------------------
(***************************************************************************)
(* Theorems of Payments, for any number of payments, customers, requests   *)
(* and provider calls.                                                     *)
(***************************************************************************)
EXTENDS Payments, TLAPS

Routing == {"policy", "route", "push"}

\* What a request remembers is there when a later step needs it.
JobsAreSet ==
    \A h \in Handlers :
        /\ pc[h] # "idle" => job[h].key \in Keys
        /\ pc[h] \in {"push", "settle"} => job[h].ref \in Refs
        /\ pc[h] = "push" => job[h].todo # <<>>

\* A request that routes a payment holds the lock of its row.
RoutersHoldLock ==
    \A h \in Handlers : pc[h] \in Routing => writer[job[h].key] = h

\* A call that was made is the call of a payment.
CallsHaveKeys ==
    \A r \in Refs : ledger[r].outcome # "unused" => ledger[r].key \in Keys

\* The inductive invariant: RoutingIsExclusive is not inductive alone, it
\* follows from who holds the row's lock.
LockInv == TypeOK /\ JobsAreSet /\ RoutersHoldLock /\ CallsHaveKeys

LEMMA NewRefIsFree == ASSUME FreeRefs # {} PROVE NewRef \in Refs /\ ledger[NewRef].outcome = "unused"
  BY DEF NewRef, FreeRefs

\* Routing is exclusive when the routers hold the locks.
LEMMA LocksExclude == LockInv => RoutingIsExclusive
  BY DEF LockInv, RoutersHoldLock, RoutingIsExclusive, Routing

LEMMA NoJobTyped == NoJob \in Jobs
  BY DEF NoJob, Jobs

LEMMA AckTyped == ASSUME NEW c \in Calls PROVE [c EXCEPT !.acked = TRUE] \in Calls
  BY DEF Calls

LEMMA AnswerTyped ==
  ASSUME NEW c \in Calls, NEW o \in {"charged", "refused"} PROVE [c EXCEPT !.outcome = o] \in Calls
  BY DEF Calls

LEMMA LockInit == Init => LockInv
  BY NoJobTyped DEF Init, LockInv, TypeOK, Rows, Calls, JobsAreSet, RoutersHoldLock, CallsHaveKeys, NoRow, NoCall, NoJob, Routing

\* A request that starts, at a step where it holds no lock, keeps the invariant.
LEMMA StartKeepsLocks ==
  ASSUME LockInv, NEW h \in Handlers, NEW j \in Jobs, j.key \in Keys,
         NEW step \in {"insert", "open", "claim", "cancel", "settle"},
         step = "settle" => j.ref \in Refs,
         Start(h, step, j)
  PROVE  LockInv'
  <1> USE DEF LockInv
  <1>1. TypeOK'
    BY DEF TypeOK, Start, Jobs
  <1>2. JobsAreSet' /\ RoutersHoldLock' /\ CallsHaveKeys'
    BY DEF TypeOK, Start, JobsAreSet, RoutersHoldLock, CallsHaveKeys, Routing
  <1> QED BY <1>1, <1>2

LEMMA ArriveKeepsLocks ==
  ASSUME LockInv, NEW h \in Handlers, Arrive(h) PROVE LockInv'
  <1>1. ASSUME NEW u \in Users, NEW k \in Keys, CreatePayment(h, u, k) PROVE LockInv'
    <2> DEFINE j == [NoJob EXCEPT !.user = u, !.key = k]
    <2>1. j \in Jobs /\ j.key \in Keys
      BY NoJobTyped DEF Jobs
    <2> QED BY <1>1, <2>1, StartKeepsLocks DEF CreatePayment
  <1>2. ASSUME NEW u \in Users, NEW k \in Keys, ReadForClaim(h, u, k) PROVE LockInv'
    <2> DEFINE j == [NoJob EXCEPT !.user = u, !.key = k]
    <2>1. j \in Jobs /\ j.key \in Keys
      BY NoJobTyped DEF Jobs
    <2> QED BY <1>2, <2>1, StartKeepsLocks DEF ReadForClaim
  <1>3. ASSUME NEW k \in Keys, OpenRequest(h, k) \/ ReadForCancel(h, k) PROVE LockInv'
    <2> DEFINE j == [NoJob EXCEPT !.key = k]
    <2>1. j \in Jobs /\ j.key \in Keys
      BY NoJobTyped DEF Jobs
    <2> QED BY <1>3, <2>1, StartKeepsLocks DEF OpenRequest, ReadForCancel
  <1>4. ASSUME NEW r \in Refs, ReadCallback(h, r) PROVE LockInv'
    <2> DEFINE k == ledger[r].key
               j == [NoJob EXCEPT !.key = k, !.ref = r, !.seen = row[k].selected]
    <2>1. k \in Keys
      BY <1>4, NoneIsNew DEF LockInv, TypeOK, CallsHaveKeys, ReadCallback, CallsBack
    <2>2. j \in Jobs /\ j.key \in Keys /\ j.ref \in Refs
      BY <2>1, NoJobTyped DEF Jobs, Rows, LockInv, TypeOK
    <2> QED BY <1>4, <2>2, StartKeepsLocks DEF ReadCallback
  <1> QED BY <1>1, <1>2, <1>3, <1>4 DEF Arrive

\* The request that returns, having freed the locks in its hands, if any.
LEMMA ReturnKeepsLocks ==
  ASSUME LockInv, TypeOK', CallsHaveKeys', NEW h \in Handlers, Return(h),
         \/ Release(h)
         \/ writer' = writer
  PROVE  LockInv'
  <1>1. JobsAreSet' /\ RoutersHoldLock'
    BY DEF LockInv, TypeOK, JobsAreSet, RoutersHoldLock, Routing, Return, Goto, Release
  <1> QED BY <1>1 DEF LockInv

LEMMA LockKeepsLocks ==
  ASSUME LockInv, NEW h \in Handlers, Lock(h) PROVE LockInv'
  <1> DEFINE k == job[h].key
  <1> k \in Keys
    BY DEF Lock, LockInv, JobsAreSet, InsertPayment, InsertConflict, CommitRequest, FlushClaim,
           CommitCancel, Settle
  <1>1. CASE InsertPayment(h) \/ FlushClaim(h)
    <2>1. TypeOK'
      BY <1>1 DEF InsertPayment, FlushClaim, LockInv, TypeOK, Goto
    <2>2. JobsAreSet' /\ CallsHaveKeys'
      BY <1>1 DEF InsertPayment, FlushClaim, LockInv, TypeOK, JobsAreSet, CallsHaveKeys, Goto
    <2>3. RoutersHoldLock'
      BY <1>1, NoneIsNew DEF InsertPayment, FlushClaim, LockInv, TypeOK, JobsAreSet,
         RoutersHoldLock, Routing, Goto, Unlocked
    <2> QED BY <2>1, <2>2, <2>3 DEF LockInv
  <1>2. CASE InsertConflict(h)
    <2>1. TypeOK' /\ CallsHaveKeys'
      BY <1>2, NoJobTyped DEF InsertConflict, LockInv, TypeOK, CallsHaveKeys, Return, Goto
    <2> QED BY <1>2, <2>1, ReturnKeepsLocks DEF InsertConflict
  <1>3. CASE CommitRequest(h) \/ CommitCancel(h)
    <2>1. row' \in [Keys -> Rows]
      <3>1. PICK s \in Statuses : row' = [row EXCEPT ![k] = [@ EXCEPT !.status = s]]
        BY <1>3 DEF CommitRequest, CommitCancel, Statuses
      <3>2. [row[k] EXCEPT !.status = s] \in Rows
        BY DEF LockInv, TypeOK, Rows
      <3> QED BY <3>1, <3>2 DEF LockInv, TypeOK
    <2>2. TypeOK' /\ CallsHaveKeys'
      BY <1>3, <2>1, NoJobTyped DEF CommitRequest, CommitCancel, LockInv, TypeOK,
         CallsHaveKeys, Return, Goto
    <2> QED BY <1>3, <2>2, ReturnKeepsLocks DEF CommitRequest, CommitCancel
  <1>4. CASE Settle(h)
    <2> DEFINE r == job[h].ref
               p == ledger[r].provider
    <2>1. r \in Refs
      BY <1>4 DEF Settle, LockInv, JobsAreSet
    <2>2. row' \in [Keys -> Rows]
      <3>1. PICK new \in Rows : row' = [row EXCEPT ![k] = new]
        <4>1. CASE Paid(r)
          <5> DEFINE q == IF job[h].seen # p THEN p ELSE row[k].selected
          <5>1. row[k] \in Rows /\ q \in Providers \cup {None}
            BY <2>1 DEF LockInv, TypeOK, Rows, Calls
          <5> HIDE DEF q
          <5>2. [row[k] EXCEPT !.status = "COMPLETED", !.selected = q, !.completed = TRUE] \in Rows
            BY <5>1 DEF Rows, Statuses
          <5>3. row' = [row EXCEPT ![k] = [row[k] EXCEPT !.status = "COMPLETED",
                                                        !.selected = q, !.completed = TRUE]]
            BY <1>4, <4>1 DEF Settle, q
          <5> QED BY <5>2, <5>3
        <4>2. CASE ~Paid(r)
          <5>1. [row[k] EXCEPT !.status = "DECLINED"] \in Rows
            BY <2>1 DEF LockInv, TypeOK, Rows, Statuses
          <5> QED BY <1>4, <4>2, <5>1 DEF Settle
        <4> QED BY <4>1, <4>2
      <3> QED BY <3>1 DEF LockInv, TypeOK
    <2>3. ledger' \in [Refs -> Calls] /\ CallsHaveKeys'
      <3>1. CASE ledger' = ledger
        BY <3>1 DEF LockInv, TypeOK, CallsHaveKeys
      <3>2. CASE ledger' = [ledger EXCEPT ![r].acked = TRUE]
        <4>1. ledger[r] \in Calls /\ [ledger[r] EXCEPT !.acked = TRUE] \in Calls
          BY <2>1, AckTyped DEF LockInv, TypeOK
        <4>2. ledger' \in [Refs -> Calls]
          BY <3>2, <4>1 DEF LockInv, TypeOK
        <4>3. CallsHaveKeys'
          BY <2>1, <3>2, <4>1 DEF LockInv, TypeOK, Calls, CallsHaveKeys
        <4> QED BY <4>2, <4>3
      <3> QED BY <1>4, <3>1, <3>2 DEF Settle
    <2>4. TypeOK'
      BY <1>4, <2>1, <2>2, <2>3, NoJobTyped DEF Settle, LockInv, TypeOK, Return, Goto
    <2> QED BY <1>4, <2>3, <2>4, ReturnKeepsLocks DEF Settle
  <1> QED BY <1>1, <1>2, <1>3, <1>4 DEF Lock

\* A routing that commits its row: the row it writes is a row, and the lock
\* goes with the commit.
LEMMA CommitKeepsLocks ==
  ASSUME LockInv, NEW h \in Handlers, pc[h] \in Routing,
         NEW status \in Statuses, NEW selected \in Providers \cup {None},
         row' = Routed(h, status, selected), openedBy' = Opened(h),
         attempt' \in {attempt, Recorded(h)}, UNCHANGED ledger, Release(h), Return(h)
  PROVE  LockInv'
  <1> DEFINE k == job[h].key
             q == IF selected = None THEN row[k].selected ELSE selected
             c == IF status = "COMPLETED" THEN TRUE ELSE row[k].completed
  <1>1. k \in Keys /\ row[k] \in Rows /\ job[h] \in Jobs
    BY DEF LockInv, TypeOK, JobsAreSet, Routing
  <1>2. q \in Providers \cup {None} /\ c \in BOOLEAN /\ job[h].user \in Users \cup {None}
    BY <1>1 DEF Rows, Jobs
  <1>3. row' = [row EXCEPT ![k] = [@ EXCEPT !.status = status, !.bio = job[h].user,
                                            !.selected = q, !.completed = c]]
    BY DEF Routed
  <1> HIDE DEF q, c
  <1>4. [row[k] EXCEPT !.status = status, !.bio = job[h].user,
                       !.selected = q, !.completed = c] \in Rows
    BY <1>1, <1>2 DEF Rows
  <1>5. row' \in [Keys -> Rows]
    BY <1>3, <1>4 DEF LockInv, TypeOK
  <1>6. attempt' \in [Refs -> {"NONE", "SUCCESS", "DECLINED", "ERROR", "PENDING"}]
    BY DEF Recorded, Result, LockInv, TypeOK
  <1>7. openedBy' \in [Keys -> {"nobody", "customer", "merchant"}]
    BY DEF Opened, LockInv, TypeOK
  <1>8. TypeOK' /\ CallsHaveKeys'
    BY <1>5, <1>6, <1>7, NoJobTyped DEF LockInv, TypeOK, CallsHaveKeys, Release, Return, Goto
  <1> QED BY <1>8, ReturnKeepsLocks

LEMMA RouteKeepsLocks ==
  ASSUME LockInv, NEW h \in Handlers, Route(h) PROVE LockInv'
  <1> DEFINE k == job[h].key
  <1>0. k \in Keys /\ job[h] \in Jobs
    BY DEF Route, LockInv, TypeOK, JobsAreSet, FindNoPolicy, LoadCandidates, CallMock, SendPush,
           NextCall, PushAnswered, FinishLive, FinishDead
  <1>1. CASE FindNoPolicy(h)
    BY <1>1, CommitKeepsLocks DEF FindNoPolicy, Routing, Statuses
  <1>2. CASE LoadCandidates(h)
    <2>1. PICK todo \in Candidates : job' = [job EXCEPT ![h].todo = todo]
      BY <1>2 DEF LoadCandidates
    <2>2. todo \in Seq(Providers)
      <3>1. CASE todo = <<>>
        BY <3>1
      <3>2. ASSUME NEW p \in Providers, todo = <<p>> PROVE todo \in Seq(Providers)
        BY <3>2
      <3>3. ASSUME NEW p \in Providers, NEW q \in Providers, todo = <<p, q>>
            PROVE  todo \in Seq(Providers)
        BY <3>3
      <3> QED BY <3>1, <3>2, <3>3 DEF Candidates
    <2>3. [job[h] EXCEPT !.todo = todo] \in Jobs
      BY <1>0, <2>2 DEF Jobs
    <2>4. TypeOK'
      BY <1>2, <2>1, <2>3 DEF LoadCandidates, LockInv, TypeOK, Goto
    <2>5. JobsAreSet' /\ RoutersHoldLock' /\ CallsHaveKeys'
      BY <1>0, <1>2, <2>1 DEF LoadCandidates, LockInv, TypeOK, JobsAreSet, RoutersHoldLock,
         CallsHaveKeys, Routing, Goto
    <2> QED BY <2>4, <2>5 DEF LockInv
  <1>3. CASE CallMock(h) \/ SendPush(h)
    <2>1. NewRef \in Refs /\ pc[h] = "route" /\ job[h].todo # <<>>
      BY <1>3, NewRefIsFree DEF CallMock, SendPush, NextCall, RoutingEnds
    <2>2. Head(job[h].todo) \in Providers /\ Tail(job[h].todo) \in Seq(Providers)
      BY <1>0, <2>1 DEF Jobs
    <2>3. PICK outcome \in {"charged", "prompted", "failed"} : Called(h, outcome)
      BY <1>3 DEF CallMock, SendPush
    <2>4. ledger' \in [Refs -> Calls] /\ CallsHaveKeys'
      BY <1>0, <2>2, <2>3 DEF Called, LockInv, TypeOK, Calls, CallsHaveKeys
    <2>5. CASE CallMock(h)
      <3>1. [job[h] EXCEPT !.todo = Tail(@), !.done = @ \cup {NewRef}] \in Jobs
        BY <1>0, <2>1, <2>2 DEF Jobs
      <3>2. TypeOK'
        BY <2>4, <2>5, <3>1 DEF CallMock, LockInv, TypeOK
      <3>3. JobsAreSet' /\ RoutersHoldLock'
        BY <1>0, <2>1, <2>5 DEF CallMock, LockInv, TypeOK, JobsAreSet, RoutersHoldLock, Routing
      <3> QED BY <2>4, <3>2, <3>3 DEF LockInv
    <2>6. CASE SendPush(h)
      <3>1. [job[h] EXCEPT !.ref = NewRef] \in Jobs
        BY <1>0, <2>1 DEF Jobs
      <3>2. TypeOK'
        BY <2>4, <2>6, <3>1 DEF SendPush, LockInv, TypeOK, Goto
      <3>3. JobsAreSet' /\ RoutersHoldLock'
        BY <1>0, <2>1, <2>6 DEF SendPush, LockInv, TypeOK, JobsAreSet, RoutersHoldLock, Routing, Goto
      <3> QED BY <2>4, <3>2, <3>3 DEF LockInv
    <2> QED BY <1>3, <2>5, <2>6
  <1>4. CASE PushAnswered(h)
    <2>1. job[h].ref \in Refs /\ job[h].todo # <<>>
      BY <1>4 DEF PushAnswered, LockInv, JobsAreSet
    <2>2. Tail(job[h].todo) \in Seq(Providers)
      BY <1>0, <2>1 DEF Jobs
    <2>3. [job[h] EXCEPT !.todo = Tail(@), !.done = @ \cup {job[h].ref}, !.ref = None] \in Jobs
      BY <1>0, <2>1, <2>2 DEF Jobs
    <2>4. TypeOK'
      BY <1>4, <2>3 DEF PushAnswered, LockInv, TypeOK, Goto
    <2>5. JobsAreSet' /\ RoutersHoldLock' /\ CallsHaveKeys'
      BY <1>0, <1>4 DEF PushAnswered, LockInv, TypeOK, JobsAreSet, RoutersHoldLock,
         CallsHaveKeys, Routing, Goto
    <2> QED BY <2>4, <2>5 DEF LockInv
  <1>5. CASE FinishLive(h)
    <2>1. PICK r \in job[h].done : CommitRouting(h, LiveStatus(r), ledger[r].provider)
      BY <1>5 DEF FinishLive
    <2>2. r \in Refs /\ ledger[r].provider \in Providers \cup {None}
      BY <1>0 DEF LockInv, TypeOK, Jobs, Calls
    <2>3. LiveStatus(r) \in Statuses
      BY DEF LiveStatus, Statuses
    <2> QED BY <1>5, <2>1, <2>2, <2>3, CommitKeepsLocks DEF FinishLive, CommitRouting, Routing
  <1>6. CASE FinishDead(h)
    <2>1. DeadStatus(h) \in Statuses
      BY DEF DeadStatus, Statuses
    <2> QED BY <1>6, <2>1, CommitKeepsLocks DEF FinishDead, CommitRouting, Routing
  <1> QED BY <1>1, <1>2, <1>3, <1>4, <1>5, <1>6 DEF Route

LEMMA LockStep == LockInv /\ [Next]_vars => LockInv'
  <1> SUFFICES ASSUME LockInv, [Next]_vars PROVE LockInv'
    OBVIOUS
  <1>1. ASSUME NEW h \in Handlers, Arrive(h) \/ Lock(h) \/ Route(h) PROVE LockInv'
    BY <1>1, ArriveKeepsLocks, LockKeepsLocks, RouteKeepsLocks
  <1>2. ASSUME NEW h \in Handlers, Abort(h) PROVE LockInv'
    <2>1. TypeOK' /\ CallsHaveKeys'
      BY <1>2, NoJobTyped DEF Abort, LockInv, TypeOK, CallsHaveKeys, Release, Return, Goto
    <2> QED BY <1>2, <2>1, ReturnKeepsLocks DEF Abort
  <1>3. ASSUME NEW r \in Refs, CustomerAnswers(r) \/ IgnoreCallback(r) PROVE LockInv'
    <2>1. PICK c \in Calls : ledger' = [ledger EXCEPT ![r] = c] /\ c.key = ledger[r].key
                             /\ ledger[r].outcome # "unused"
      <3>1. CASE CustomerAnswers(r)
        <4>1. PICK o \in {"charged", "refused"} : ledger' = [ledger EXCEPT ![r].outcome = o]
          BY <3>1 DEF CustomerAnswers
        <4>2. ledger[r] \in Calls /\ ledger[r].outcome # "unused"
          BY <3>1 DEF LockInv, TypeOK, CustomerAnswers
        <4>3. [ledger[r] EXCEPT !.outcome = o] \in Calls
          BY <4>2, AnswerTyped
        <4>4. [ledger[r] EXCEPT !.outcome = o].key = ledger[r].key
          BY <4>2 DEF Calls
        <4> QED BY <4>1, <4>2, <4>3, <4>4
      <3>2. CASE IgnoreCallback(r)
        <4>1. ledger[r] \in Calls /\ ledger[r].outcome # "unused"
          BY <3>2 DEF LockInv, TypeOK, IgnoreCallback, CallsBack
        <4>2. [ledger[r] EXCEPT !.acked = TRUE] \in Calls
          BY <4>1, AckTyped
        <4>3. [ledger[r] EXCEPT !.acked = TRUE].key = ledger[r].key
          BY <4>1 DEF Calls
        <4> QED BY <3>2, <4>1, <4>2, <4>3 DEF IgnoreCallback
      <3> QED BY <1>3, <3>1, <3>2
    <2>2. UNCHANGED <<row, openedBy, attempt, writer, pc, job>>
      BY <1>3 DEF CustomerAnswers, IgnoreCallback
    <2>3. TypeOK' /\ CallsHaveKeys'
      BY <2>1, <2>2 DEF LockInv, TypeOK, CallsHaveKeys
    <2>4. JobsAreSet' /\ RoutersHoldLock'
      BY <2>2 DEF LockInv, JobsAreSet, RoutersHoldLock
    <2> QED BY <2>3, <2>4 DEF LockInv
  <1>4. CASE UNCHANGED vars
    BY <1>4 DEF vars, LockInv, TypeOK, JobsAreSet, RoutersHoldLock, CallsHaveKeys
  <1> QED BY <1>1, <1>2, <1>3, <1>4 DEF Next

LEMMA LockInvariant == Spec => []LockInv
  BY LockInit, LockStep, PTL DEF Spec

\* Every state the program reaches is well typed; in particular only final or
\* waiting statuses are ever committed (payment_service.py, _route_and_resolve).
THEOREM TypeCorrect == Spec => []TypeOK
  <1>1. LockInv => TypeOK
    BY DEF LockInv
  <1> QED BY LockInvariant, <1>1, PTL

\* The row lock taken by the flush before _route_and_resolve keeps every two
\* requests from routing one payment at the same time, however many there are.
THEOREM RoutingExclusive == Spec => []RoutingIsExclusive
  BY LockInvariant, LocksExclude, PTL

(* -------------------- a customer's payment is routed once -------------- *)

\* The unique index keeps a second row out; what has to be shown besides is that
\* no request can route the row of a customer again, and that one routing leaves
\* one live call.


\* A committed row has an origin, and a row that waits for a customer is a
\* merchant's.
RowsHaveOrigin ==
    \A k \in Keys : /\ openedBy[k] = "nobody" <=> ~Exists(k)
                    /\ row[k].status = "AUTHENTICATION_PENDING" => openedBy[k] = "merchant"

\* Recorded attempts are calls that were made, of rows that are committed.
AttemptsHaveRows ==
    \A r \in Refs : attempt[r] # "NONE" =>
        ledger[r].outcome # "unused" /\ Exists(ledger[r].key)

\* What a request holds for its later steps is still so when it takes them.
RequestsAgree ==
    \A h \in Handlers :
        /\ pc[h] = "claim" => openedBy[job[h].key] = "merchant"
        /\ pc[h] \in Routing => ~Exists(job[h].key) \/ openedBy[job[h].key] = "merchant"
        /\ pc[h] = "cancel" => Exists(job[h].key)
        /\ pc[h] = "settle" => /\ attempt[job[h].ref] # "NONE"
                               /\ ledger[job[h].ref].key = job[h].key

\* The calls a request made are its payment's, and at most one may move money.
CallsOfRouting ==
    \A h \in Handlers :
        /\ \A r \in job[h].done : ledger[r].outcome # "unused" /\ ledger[r].key = job[h].key
        /\ \A r, s \in job[h].done :
              ledger[r].outcome # "failed" /\ ledger[s].outcome # "failed" => r = s
        /\ pc[h] = "push" =>
              /\ ledger[job[h].ref].outcome # "unused"
              /\ ledger[job[h].ref].key = job[h].key
              /\ \A r \in job[h].done : ledger[r].outcome = "failed"

OnceInv ==
    /\ LockInv
    /\ RowsHaveOrigin
    /\ AttemptsHaveRows
    /\ RequestsAgree
    /\ CallsOfRouting
    /\ CustomerPaymentRoutedOnce

LEMMA OnceInit == Init => OnceInv
  <1> SUFFICES ASSUME Init PROVE OnceInv
    OBVIOUS
  <1>1. LockInv
    BY LockInit
  <1>2. RowsHaveOrigin /\ AttemptsHaveRows
    BY DEF Init, RowsHaveOrigin, AttemptsHaveRows, Exists, NoRow
  <1>3. RequestsAgree /\ CallsOfRouting
    BY DEF Init, RequestsAgree, CallsOfRouting, NoJob, Routing
  <1>4. CustomerPaymentRoutedOnce
    BY DEF Init, CustomerPaymentRoutedOnce
  <1> QED BY <1>1, <1>2, <1>3, <1>4 DEF OnceInv

\* A failed call is the only one whose result lets the router go on.
LEMMA DeadCallFailed ==
  ASSUME NEW r, Result(r) \notin {"SUCCESS", "PENDING"} PROVE ledger[r].outcome = "failed"
  BY DEF Result

\* Steps of a request that leave the tables and the calls alone.
LEMMA QuietKeepsOnce ==
  ASSUME OnceInv, LockInv', NEW h \in Handlers,
         UNCHANGED <<row, openedBy, attempt, ledger>>,
         NEW step, NEW j \in Jobs, 
         pc' = [pc EXCEPT ![h] = step], job' = [job EXCEPT ![h] = j],
         step = "claim" => openedBy[j.key] = "merchant",
         step \in Routing => ~Exists(j.key) \/ openedBy[j.key] = "merchant",
         step = "cancel" => Exists(j.key),
         step = "settle" => attempt[j.ref] # "NONE" /\ ledger[j.ref].key = j.key,
         j.done = {} \/ (j.done = job[h].done /\ j.key = job[h].key),
         step # "push"
  PROVE  OnceInv'
  <1>1. RowsHaveOrigin' /\ AttemptsHaveRows' /\ CustomerPaymentRoutedOnce'
    BY DEF OnceInv, RowsHaveOrigin, AttemptsHaveRows, CustomerPaymentRoutedOnce, Exists
  <1>2. RequestsAgree'
    BY DEF OnceInv, LockInv, TypeOK, RequestsAgree, Exists
  <1>3. CallsOfRouting'
    BY DEF OnceInv, LockInv, TypeOK, CallsOfRouting
  <1> QED BY <1>1, <1>2, <1>3 DEF OnceInv

LEMMA ArriveKeepsOnce ==
  ASSUME OnceInv, NEW h \in Handlers, Arrive(h) PROVE OnceInv'
  <1>0. LockInv'
    BY ArriveKeepsLocks DEF OnceInv
  <1>1. ASSUME NEW u \in Users, NEW k \in Keys, CreatePayment(h, u, k) PROVE OnceInv'
    <2> DEFINE j == [NoJob EXCEPT !.user = u, !.key = k]
    <2>1. j \in Jobs /\ j.key = k /\ j.done = {}
      BY NoJobTyped DEF NoJob, Jobs
    <2> QED BY <1>0, <1>1, <2>1, QuietKeepsOnce DEF CreatePayment, Start, Routing
  <1>2. ASSUME NEW u \in Users, NEW k \in Keys, ReadForClaim(h, u, k) PROVE OnceInv'
    <2> DEFINE j == [NoJob EXCEPT !.user = u, !.key = k]
    <2>1. j \in Jobs /\ j.key = k /\ j.done = {}
      BY NoJobTyped DEF NoJob, Jobs
    <2>2. openedBy[k] = "merchant"
      BY <1>2 DEF ReadForClaim, Claimable, OnceInv, RowsHaveOrigin
    <2> QED BY <1>0, <1>2, <2>1, <2>2, QuietKeepsOnce DEF ReadForClaim, Start, Routing
  <1>3. ASSUME NEW k \in Keys, OpenRequest(h, k) PROVE OnceInv'
    <2> DEFINE j == [NoJob EXCEPT !.key = k]
    <2>1. j \in Jobs /\ j.key = k /\ j.done = {}
      BY NoJobTyped DEF NoJob, Jobs
    <2> QED BY <1>0, <1>3, <2>1, QuietKeepsOnce DEF OpenRequest, Start, Routing
  <1>4. ASSUME NEW k \in Keys, ReadForCancel(h, k) PROVE OnceInv'
    <2> DEFINE j == [NoJob EXCEPT !.key = k]
    <2>1. j \in Jobs /\ j.key = k /\ j.done = {}
      BY NoJobTyped DEF NoJob, Jobs
    <2>2. Exists(k)
      BY <1>4 DEF ReadForCancel, IsCancellable, Cancellable, Exists
    <2> QED BY <1>0, <1>4, <2>1, <2>2, QuietKeepsOnce DEF ReadForCancel, Start, Routing
  <1>5. ASSUME NEW r \in Refs, ReadCallback(h, r) PROVE OnceInv'
    <2> DEFINE k == ledger[r].key
               j == [NoJob EXCEPT !.key = k, !.ref = r, !.seen = row[k].selected]
    <2>1. k \in Keys
      BY <1>5 DEF OnceInv, LockInv, CallsHaveKeys, ReadCallback, CallsBack
    <2>2. row[k].selected \in Providers \cup {None}
      BY <2>1 DEF OnceInv, LockInv, TypeOK, Rows
    <2>3. j \in Jobs /\ j.key = k /\ j.ref = r /\ j.done = {}
      BY <2>1, <2>2, NoJobTyped DEF NoJob, Jobs
    <2> QED BY <1>0, <1>5, <2>3, QuietKeepsOnce DEF ReadCallback, Applies, Start, Routing
  <1> QED BY <1>1, <1>2, <1>3, <1>4, <1>5 DEF Arrive

\* A request that ends keeps the agreements of the others, when every row that
\* existed still does with its origin, and every recorded attempt is still one.
LEMMA ReturnKeepsAgreements ==
  ASSUME OnceInv, NEW h \in Handlers, Return(h), UNCHANGED ledger,
         \A g \in Handlers \ {h} : pc[g] # "idle" =>
            /\ Exists(job[g].key) => Exists(job[g].key)'
            /\ openedBy[job[g].key] = "merchant" => openedBy'[job[g].key] = "merchant"
            /\ pc[g] \in Routing => Exists(job[g].key)' = Exists(job[g].key),
         \A r \in Refs : attempt[r] # "NONE" => attempt'[r] # "NONE"
  PROVE  RequestsAgree' /\ CallsOfRouting'
  <1>1. \A g \in Handlers \ {h} : pc'[g] = pc[g] /\ job'[g] = job[g]
    BY DEF Return, Goto, OnceInv, LockInv, TypeOK
  <1>2. pc'[h] = "idle" /\ job'[h] = NoJob /\ NoJob.done = {}
    BY DEF Return, Goto, OnceInv, LockInv, TypeOK, NoJob
  <1>3. RequestsAgree'
    <2> SUFFICES ASSUME NEW g \in Handlers \ {h}
                 PROVE  RequestsAgree!(g)'
      BY <1>2 DEF RequestsAgree, Routing
    <2>1. pc[g] = "settle" => job[g].ref \in Refs
      BY DEF OnceInv, LockInv, JobsAreSet
    <2> QED BY <1>1, <2>1 DEF OnceInv, RequestsAgree, Routing
  <1>4. CallsOfRouting'
    BY <1>1, <1>2 DEF OnceInv, CallsOfRouting
  <1> QED BY <1>3, <1>4

\* Only the request that returns changes its entry.
LEMMA ReturnIsLocal ==
  ASSUME LockInv, NEW h \in Handlers, Return(h)
  PROVE  /\ pc'[h] = "idle" /\ job'[h] = NoJob /\ job'[h].done = {}
         /\ \A g \in Handlers \ {h} : pc'[g] = pc[g] /\ job'[g] = job[g]
  BY DEF Return, Goto, LockInv, TypeOK, NoJob

\* Writing the status of one row.
LEMMA StatusWrite ==
  ASSUME TypeOK, NEW k \in Keys, NEW s, NEW a, NEW b,
         \/ row' = [row EXCEPT ![k].status = s]
         \/ row' = [row EXCEPT ![k].status = s, ![k].selected = a, ![k].completed = b]
  PROVE  row'[k].status = s /\ \A l \in Keys \ {k} : row'[l] = row[l]
  <1> row[k] \in Rows
    BY DEF TypeOK
  <1> QED BY DEF TypeOK, Rows

LEMMA LockKeepsOnce ==
  ASSUME OnceInv, NEW h \in Handlers, Lock(h) PROVE OnceInv'
  <1> DEFINE k == job[h].key
  <1>0. LockInv'
    BY LockKeepsLocks DEF OnceInv
  <1>k. k \in Keys /\ job[h] \in Jobs /\ pc[h] # "idle"
    BY DEF Lock, OnceInv, LockInv, TypeOK, JobsAreSet, InsertPayment, InsertConflict,
           CommitRequest, FlushClaim, CommitCancel, Settle
  <1>1. CASE InsertPayment(h)
    <2>1. job' = [job EXCEPT ![h] = job[h]]
      BY <1>1 DEF InsertPayment, OnceInv, LockInv, TypeOK
    <2> QED BY <1>0, <1>1, <1>k, <2>1, QuietKeepsOnce DEF InsertPayment, Goto, Routing
  <1>2. CASE FlushClaim(h)
    <2>1. job' = [job EXCEPT ![h] = job[h]]
      BY <1>2 DEF FlushClaim, OnceInv, LockInv, TypeOK
    <2>2. openedBy[k] = "merchant"
      BY <1>2 DEF FlushClaim, OnceInv, RequestsAgree
    <2> QED BY <1>0, <1>2, <1>k, <2>1, <2>2, QuietKeepsOnce DEF FlushClaim, Goto, Routing
  <1>3. CASE InsertConflict(h)
    <2>1. NoJob \in Jobs /\ NoJob.done = {}
      BY NoJobTyped DEF NoJob
    <2> QED BY <1>0, <1>3, <2>1, QuietKeepsOnce DEF InsertConflict, Return, Goto, Routing
  <1>4. CASE CommitRequest(h)
    <2>1. /\ row' = [row EXCEPT ![k].status = "AUTHENTICATION_PENDING"]
          /\ openedBy' = [openedBy EXCEPT ![k] = "merchant"]
          /\ UNCHANGED <<attempt, ledger>> /\ Return(h) /\ Unlocked(k) /\ ~Exists(k)
      BY <1>4 DEF CommitRequest
    <2>2. /\ row'[k].status = "AUTHENTICATION_PENDING" /\ openedBy'[k] = "merchant"
          /\ \A l \in Keys \ {k} : row'[l] = row[l] /\ openedBy'[l] = openedBy[l]
      BY <1>k, <2>1, StatusWrite DEF OnceInv, LockInv, TypeOK
    <2>3. RowsHaveOrigin' /\ AttemptsHaveRows'
      BY <1>k, <2>1, <2>2 DEF OnceInv, LockInv, TypeOK, RowsHaveOrigin, AttemptsHaveRows,
         CallsHaveKeys, Exists
    <2>4. RequestsAgree' /\ CallsOfRouting'
      <3> SUFFICES ASSUME NEW g \in Handlers \ {h}, pc[g] # "idle"
                   PROVE  /\ Exists(job[g].key) => Exists(job[g].key)'
                          /\ openedBy[job[g].key] = "merchant" => openedBy'[job[g].key] = "merchant"
                          /\ pc[g] \in Routing => Exists(job[g].key)' = Exists(job[g].key)
        BY <2>1, ReturnKeepsAgreements
      <3>1. job[g].key \in Keys /\ job'[g] = job[g]
        BY <2>1, ReturnIsLocal DEF OnceInv, LockInv, JobsAreSet
      <3>2. CASE job[g].key = k
        BY <1>k, <2>1, <2>2, <3>1, <3>2, NoneIsNew
           DEF Exists, OnceInv, LockInv, TypeOK, RoutersHoldLock, Unlocked
      <3>3. CASE job[g].key # k
        BY <2>2, <3>1, <3>3 DEF Exists
      <3> QED BY <3>2, <3>3
    <2>5. CustomerPaymentRoutedOnce'
      BY <1>k, <2>1, <2>2 DEF OnceInv, LockInv, TypeOK, CustomerPaymentRoutedOnce
    <2> QED BY <1>0, <2>3, <2>4, <2>5 DEF OnceInv
  <1>5. CASE CommitCancel(h)
    <2>1. Exists(k)
      BY <1>5 DEF CommitCancel, OnceInv, RequestsAgree
    <2>2. row'[k].status = "CANCELLED" /\ \A l \in Keys \ {k} : row'[l] = row[l]
      BY <1>5, <1>k, StatusWrite DEF CommitCancel, OnceInv, LockInv
    <2>3. \A l \in Keys : Exists(l)' = Exists(l)
      BY <2>1, <2>2 DEF Exists
    <2>4. RowsHaveOrigin' /\ AttemptsHaveRows' /\ CustomerPaymentRoutedOnce'
      BY <1>5, <2>2, <2>3 DEF CommitCancel, OnceInv, LockInv, RowsHaveOrigin, AttemptsHaveRows,
         CallsHaveKeys, CustomerPaymentRoutedOnce
    <2>5. RequestsAgree' /\ CallsOfRouting'
      <3> SUFFICES ASSUME NEW g \in Handlers \ {h}, pc[g] # "idle"
                   PROVE  Exists(job[g].key)' = Exists(job[g].key)
        BY <1>5, ReturnKeepsAgreements DEF CommitCancel
      <3>1. job[g].key \in Keys /\ job'[g] = job[g]
        BY <1>5, ReturnIsLocal DEF CommitCancel, OnceInv, LockInv, JobsAreSet
      <3> QED BY <2>3, <3>1 DEF Exists
    <2> QED BY <1>0, <2>4, <2>5 DEF OnceInv
  <1>6. CASE Settle(h)
    <2> DEFINE r == job[h].ref
    <2>1. r \in Refs /\ attempt[r] # "NONE" /\ ledger[r].key = k
      BY <1>6 DEF Settle, OnceInv, LockInv, JobsAreSet, RequestsAgree
    <2>2. Exists(k)
      BY <2>1 DEF OnceInv, AttemptsHaveRows
    <2>3. row'[k].status \in {"COMPLETED", "DECLINED"} /\ \A l \in Keys \ {k} : row'[l] = row[l]
      BY <1>6, <1>k, StatusWrite DEF Settle, OnceInv, LockInv
    <2>4. \A l \in Keys : Exists(l)' = Exists(l)
      BY <2>2, <2>3 DEF Exists
    <2>5. \A s \in Refs : attempt'[s] # "NONE" <=> attempt[s] # "NONE"
      BY <1>6, <2>1 DEF Settle, OnceInv, LockInv, TypeOK
    <2>6. \A s \in Refs : ledger'[s].outcome = ledger[s].outcome /\ ledger'[s].key = ledger[s].key
      BY <1>6, <2>1 DEF Settle, OnceInv, LockInv, TypeOK, Calls
    <2>7. RowsHaveOrigin' /\ AttemptsHaveRows'
      BY <1>6, <2>3, <2>4, <2>5, <2>6 DEF Settle, OnceInv, LockInv, RowsHaveOrigin,
         AttemptsHaveRows, CallsHaveKeys
    <2>8. CustomerPaymentRoutedOnce'
      BY <1>6, <2>5, <2>6 DEF Settle, OnceInv, CustomerPaymentRoutedOnce
    <2>9. \A g \in Handlers \ {h} : pc'[g] = pc[g] /\ job'[g] = job[g]
      BY <1>6 DEF Settle, Return, Goto, OnceInv, LockInv, TypeOK
    <2>10. pc'[h] = "idle" /\ job'[h].done = {} /\ openedBy' = openedBy
      BY <1>6 DEF Settle, Return, Goto, OnceInv, LockInv, TypeOK, NoJob
    <2>11. RequestsAgree'
      BY <2>4, <2>5, <2>6, <2>9, <2>10
         DEF OnceInv, LockInv, JobsAreSet, RequestsAgree, Routing
    <2>12. CallsOfRouting'
      <3>1. \A g \in Handlers : job[g].done \subseteq Refs
        BY DEF OnceInv, LockInv, TypeOK, Jobs
      <3>2. \A g \in Handlers : pc[g] = "push" => job[g].ref \in Refs
        BY DEF OnceInv, LockInv, JobsAreSet
      <3> QED BY <2>6, <2>9, <2>10, <3>1, <3>2 DEF OnceInv, CallsOfRouting
    <2> QED BY <1>0, <2>7, <2>8, <2>11, <2>12 DEF OnceInv
  <1> QED BY <1>1, <1>2, <1>3, <1>4, <1>5, <1>6 DEF Lock

\* A new call of h at a free reference disturbs nothing that was there.
LEMMA CallKeepsOnce ==
  ASSUME OnceInv, NEW h \in Handlers, NextCall(h), job[h].key \in Keys,
         NEW outcome \in {"charged", "prompted", "failed"}, Called(h, outcome),
         UNCHANGED <<row, openedBy, attempt, writer>>,
         \A g \in Handlers \ {h} : pc'[g] = pc[g] /\ job'[g] = job[g],
         job'[h].key = job[h].key,
         \/ pc'[h] = "push" /\ job'[h].ref = NewRef /\ job'[h].done = job[h].done
         \/ pc'[h] = "route" /\ job'[h].done = job[h].done \cup {NewRef}
  PROVE  RowsHaveOrigin' /\ AttemptsHaveRows' /\ RequestsAgree' /\ CallsOfRouting'
            /\ CustomerPaymentRoutedOnce'
  <1>1. NewRef \in Refs /\ ledger[NewRef].outcome = "unused" /\ pc[h] = "route"
    BY NewRefIsFree DEF NextCall
  <1>2. /\ ledger'[NewRef].outcome = outcome /\ ledger'[NewRef].key = job[h].key
        /\ \A r \in Refs \ {NewRef} : ledger'[r] = ledger[r]
    BY <1>1 DEF Called, OnceInv, LockInv, TypeOK
  <1>3. attempt[NewRef] = "NONE"
    BY <1>1 DEF OnceInv, AttemptsHaveRows
  <1>4. RowsHaveOrigin' /\ AttemptsHaveRows' /\ CustomerPaymentRoutedOnce'
    BY <1>2, <1>3 DEF OnceInv, RowsHaveOrigin, AttemptsHaveRows, CustomerPaymentRoutedOnce, Exists
  <1>5. RequestsAgree'
    <2>1. \A g \in Handlers : pc[g] = "settle" => job[g].ref \in Refs \ {NewRef}
      BY <1>3 DEF OnceInv, LockInv, JobsAreSet, RequestsAgree
    <2> QED BY <1>1, <1>2, <2>1 DEF OnceInv, RequestsAgree, Exists, Routing
  <1>6. CallsOfRouting'
    <2>1. \A g \in Handlers : job[g].done \subseteq Refs \ {NewRef}
      BY <1>1 DEF OnceInv, LockInv, TypeOK, Jobs, CallsOfRouting
    <2>2. \A g \in Handlers : pc[g] = "push" => job[g].ref \in Refs \ {NewRef}
      BY <1>1 DEF OnceInv, LockInv, JobsAreSet, CallsOfRouting
    <2>3. \A r \in job[h].done : ledger[r].outcome = "failed"
      BY DeadCallFailed DEF NextCall, RoutingEnds, MustStop, StopsRouting
    <2>4. ASSUME NEW g \in Handlers \ {h} PROVE CallsOfRouting!(g)'
      BY <1>2, <2>1, <2>2, <2>4 DEF OnceInv, CallsOfRouting
    <2>5. CallsOfRouting!(h)'
      BY <1>1, <1>2, <2>1, <2>3 DEF OnceInv, CallsOfRouting
    <2> QED BY <2>4, <2>5 DEF CallsOfRouting
  <1> QED BY <1>4, <1>5, <1>6

\* The commit of a routing: a new row takes the attempts of this routing only.
LEMMA CommitKeepsOnce ==
  ASSUME OnceInv, LockInv', NEW h \in Handlers, pc[h] \in Routing,
         NEW status \in Statuses \ {"AUTHENTICATION_PENDING"}, NEW selected,
         row' = Routed(h, status, selected), openedBy' = Opened(h),
         attempt' \in {attempt, Recorded(h)}, UNCHANGED ledger, Return(h)
  PROVE  OnceInv'
  <1> DEFINE k == job[h].key
  <1>1. k \in Keys /\ job[h].done \subseteq Refs
    BY DEF OnceInv, LockInv, TypeOK, JobsAreSet, Jobs, Routing
  <1>2. row'[k].status = status /\ \A l \in Keys \ {k} : row'[l] = row[l]
    <2>1. row[k] \in Rows
      BY <1>1 DEF OnceInv, LockInv, TypeOK
    <2> DEFINE q == IF selected = None THEN row[k].selected ELSE selected
               c == IF status = "COMPLETED" THEN TRUE ELSE row[k].completed
    <2>2. row' = [row EXCEPT ![k] = [@ EXCEPT !.status = status, !.bio = job[h].user,
                                              !.selected = q, !.completed = c]]
      BY DEF Routed
    <2> HIDE DEF q, c
    <2> QED BY <1>1, <2>1, <2>2 DEF OnceInv, LockInv, TypeOK, Rows
  <1>3. openedBy'[k] = (IF Exists(k) THEN openedBy[k] ELSE "customer")
        /\ \A l \in Keys \ {k} : openedBy'[l] = openedBy[l]
    BY <1>1 DEF Opened, OnceInv, LockInv, TypeOK
  <1>4. \A r \in Refs : attempt[r] # "NONE" => attempt'[r] # "NONE"
    BY DEF Recorded, Result, OnceInv, LockInv, TypeOK
  <1>5. \A r \in Refs : attempt'[r] # "NONE" => attempt[r] # "NONE" \/ r \in job[h].done
    BY DEF Recorded, OnceInv, LockInv, TypeOK
  <1>6. RowsHaveOrigin'
    BY <1>1, <1>2, <1>3 DEF OnceInv, RowsHaveOrigin, Exists, Statuses
  <1>7. AttemptsHaveRows'
    <2> SUFFICES ASSUME NEW r \in Refs, attempt'[r] # "NONE"
                 PROVE  ledger[r].outcome # "unused" /\ row'[ledger[r].key].status # "NONE"
      BY DEF AttemptsHaveRows, Exists
    <2>1. ledger[r].outcome # "unused" /\ (ledger[r].key = k \/ Exists(ledger[r].key))
      BY <1>5 DEF OnceInv, AttemptsHaveRows, CallsOfRouting
    <2>2. ledger[r].key \in Keys
      BY <2>1 DEF OnceInv, LockInv, CallsHaveKeys
    <2> QED BY <1>2, <2>1, <2>2 DEF Exists, Statuses
  <1>8. RequestsAgree' /\ CallsOfRouting'
    <2> SUFFICES ASSUME NEW g \in Handlers \ {h}, pc[g] # "idle"
                 PROVE  /\ Exists(job[g].key) => Exists(job[g].key)'
                        /\ openedBy[job[g].key] = "merchant" => openedBy'[job[g].key] = "merchant"
                        /\ pc[g] \in Routing => Exists(job[g].key)' = Exists(job[g].key)
      BY <1>4, ReturnKeepsAgreements
    <2>1. job[g].key \in Keys /\ job'[g] = job[g]
      BY ReturnIsLocal DEF OnceInv, LockInv, JobsAreSet
    <2>2. CASE job[g].key = k
      <3>1. pc[g] \notin Routing
        BY <2>2, LocksExclude DEF OnceInv, RoutingIsExclusive, Routing
      <3> QED BY <1>1, <1>2, <1>3, <2>1, <2>2, <3>1 DEF Exists, Statuses, OnceInv, RowsHaveOrigin
    <2>3. CASE job[g].key # k
      BY <1>2, <1>3, <2>1, <2>3 DEF Exists
    <2> QED BY <2>2, <2>3
  <1>9. CustomerPaymentRoutedOnce'
    <2> SUFFICES ASSUME NEW l \in Keys, openedBy'[l] = "customer",
                        NEW r \in Refs, NEW s \in Refs,
                        ledger[r].key = l, attempt'[r] # "NONE", ledger[r].outcome # "failed",
                        ledger[s].key = l, attempt'[s] # "NONE", ledger[s].outcome # "failed"
                 PROVE  r = s
      BY DEF CustomerPaymentRoutedOnce
    <2>1. CASE l = k
      <3>1. ~Exists(k)
        BY <1>3, <2>1 DEF OnceInv, RequestsAgree
      <3>2. r \in job[h].done /\ s \in job[h].done
        BY <1>5, <2>1, <3>1 DEF OnceInv, AttemptsHaveRows
      <3> QED BY <3>2 DEF OnceInv, CallsOfRouting
    <2>2. CASE l # k
      <3>1. attempt[r] # "NONE" /\ attempt[s] # "NONE"
        BY <1>5, <2>2 DEF OnceInv, CallsOfRouting
      <3> QED BY <1>3, <2>2, <3>1 DEF OnceInv, CustomerPaymentRoutedOnce
    <2> QED BY <2>1, <2>2
  <1> QED BY <1>6, <1>7, <1>8, <1>9 DEF OnceInv

LEMMA RouteKeepsOnce ==
  ASSUME OnceInv, NEW h \in Handlers, Route(h) PROVE OnceInv'
  <1>0. LockInv'
    BY RouteKeepsLocks DEF OnceInv
  <1>k. job[h].key \in Keys /\ job[h] \in Jobs
    BY DEF Route, OnceInv, LockInv, TypeOK, JobsAreSet, FindNoPolicy, LoadCandidates, CallMock,
           SendPush, NextCall, PushAnswered, FinishLive, FinishDead
  <1>1. CASE FindNoPolicy(h)
    BY <1>0, <1>1, CommitKeepsOnce DEF FindNoPolicy, Routing, Statuses
  <1>2. CASE LoadCandidates(h)
    <2>1. PICK todo : job' = [job EXCEPT ![h].todo = todo]
      BY <1>2 DEF LoadCandidates
    <2> DEFINE j == [job[h] EXCEPT !.todo = todo]
    <2>2. job' = [job EXCEPT ![h] = j]
      BY <2>1
    <2>3. j \in Jobs /\ j.key = job[h].key /\ j.done = job[h].done
      BY <1>0, <1>k, <2>2 DEF OnceInv, LockInv, TypeOK, Jobs
    <2>4. ~Exists(job[h].key) \/ openedBy[job[h].key] = "merchant"
      BY <1>2 DEF LoadCandidates, OnceInv, RequestsAgree, Routing
    <2>5. UNCHANGED <<row, openedBy, attempt, ledger>> /\ pc' = [pc EXCEPT ![h] = "route"]
      BY <1>2 DEF LoadCandidates, Goto
    <2> HIDE DEF j
    <2> QED BY <1>0, <2>2, <2>3, <2>4, <2>5, QuietKeepsOnce DEF Routing
  <1>3. CASE CallMock(h)
    <2>1. PICK outcome \in {"charged", "failed"} : Called(h, outcome)
      BY <1>3 DEF CallMock
    <2>2. /\ \A g \in Handlers \ {h} : pc'[g] = pc[g] /\ job'[g] = job[g]
          /\ pc'[h] = "route" /\ job'[h].key = job[h].key
          /\ job'[h].done = job[h].done \cup {NewRef}
      BY <1>3, <1>k DEF CallMock, NextCall, OnceInv, LockInv, TypeOK, Jobs
    <2>3. NextCall(h) /\ UNCHANGED <<row, openedBy, attempt, writer>>
      BY <1>3 DEF CallMock
    <2> QED BY <1>0, <1>k, <2>1, <2>2, <2>3, CallKeepsOnce DEF OnceInv
  <1>4. CASE SendPush(h)
    <2>1. PICK outcome \in {"prompted", "failed"} : Called(h, outcome)
      BY <1>4 DEF SendPush
    <2>2. /\ \A g \in Handlers \ {h} : pc'[g] = pc[g] /\ job'[g] = job[g]
          /\ pc'[h] = "push" /\ job'[h].key = job[h].key /\ job'[h].ref = NewRef
          /\ job'[h].done = job[h].done
      BY <1>4, <1>k DEF SendPush, NextCall, Goto, OnceInv, LockInv, TypeOK, Jobs
    <2>3. NextCall(h) /\ UNCHANGED <<row, openedBy, attempt, writer>>
      BY <1>4 DEF SendPush
    <2> QED BY <1>0, <1>k, <2>1, <2>2, <2>3, CallKeepsOnce DEF OnceInv
  <1>5. CASE PushAnswered(h)
    <2>1. /\ \A g \in Handlers \ {h} : pc'[g] = pc[g] /\ job'[g] = job[g]
          /\ pc[h] = "push" /\ pc'[h] = "route" /\ job'[h].key = job[h].key
          /\ job'[h].done = job[h].done \cup {job[h].ref}
          /\ UNCHANGED <<row, openedBy, attempt, ledger>>
      BY <1>5, <1>k DEF PushAnswered, Goto, OnceInv, LockInv, TypeOK, Jobs
    <2>2. RowsHaveOrigin' /\ AttemptsHaveRows' /\ CustomerPaymentRoutedOnce'
      BY <2>1 DEF OnceInv, RowsHaveOrigin, AttemptsHaveRows, CustomerPaymentRoutedOnce, Exists
    <2>3. RequestsAgree'
      BY <2>1 DEF OnceInv, RequestsAgree, Exists, Routing
    <2>4. CallsOfRouting'
      BY <2>1 DEF OnceInv, CallsOfRouting
    <2> QED BY <1>0, <2>2, <2>3, <2>4 DEF OnceInv
  <1>6. CASE FinishLive(h)
    <2>1. PICK r : CommitRouting(h, LiveStatus(r), ledger[r].provider)
      BY <1>6 DEF FinishLive
    <2>2. LiveStatus(r) \in Statuses \ {"AUTHENTICATION_PENDING"}
      BY DEF LiveStatus, Statuses
    <2> QED BY <1>0, <1>6, <2>1, <2>2, CommitKeepsOnce DEF FinishLive, CommitRouting, Routing
  <1>7. CASE FinishDead(h)
    <2>1. DeadStatus(h) \in Statuses \ {"AUTHENTICATION_PENDING"}
      BY DEF DeadStatus, Statuses
    <2> QED BY <1>0, <1>7, <2>1, CommitKeepsOnce DEF FinishDead, CommitRouting, Routing
  <1> QED BY <1>1, <1>2, <1>3, <1>4, <1>5, <1>6, <1>7 DEF Route

LEMMA OnceStep == OnceInv /\ [Next]_vars => OnceInv'
  <1> SUFFICES ASSUME OnceInv, [Next]_vars PROVE OnceInv'
    OBVIOUS
  <1>0. LockInv'
    BY LockStep DEF OnceInv
  <1>1. ASSUME NEW h \in Handlers, Arrive(h) \/ Lock(h) \/ Route(h) PROVE OnceInv'
    BY <1>1, ArriveKeepsOnce, LockKeepsOnce, RouteKeepsOnce
  <1>2. ASSUME NEW h \in Handlers, Abort(h) PROVE OnceInv'
    <2>1. NoJob \in Jobs /\ NoJob.done = {}
      BY NoJobTyped DEF NoJob
    <2> QED BY <1>0, <1>2, <2>1, QuietKeepsOnce DEF Abort, Return, Goto, Routing
  <1>3. ASSUME NEW r \in Refs, CustomerAnswers(r) \/ IgnoreCallback(r) PROVE OnceInv'
    <2>1. /\ ledger'[r].key = ledger[r].key
          /\ ledger'[r].outcome # "failed" /\ ledger[r].outcome # "failed"
          /\ ledger'[r].outcome # "unused" /\ ledger[r].outcome # "unused"
          /\ \A s \in Refs \ {r} : ledger'[s] = ledger[s]
      BY <1>3 DEF CustomerAnswers, IgnoreCallback, CallsBack, OnceInv, LockInv, TypeOK, Calls
    <2>2. UNCHANGED <<row, openedBy, attempt, writer, pc, job>>
      BY <1>3 DEF CustomerAnswers, IgnoreCallback
    <2>3. RowsHaveOrigin' /\ AttemptsHaveRows' /\ CustomerPaymentRoutedOnce'
      BY <2>1, <2>2 DEF OnceInv, RowsHaveOrigin, AttemptsHaveRows, CustomerPaymentRoutedOnce, Exists
    <2>4. RequestsAgree'
      BY <2>1, <2>2 DEF OnceInv, LockInv, JobsAreSet, RequestsAgree, Exists
    <2>5. CallsOfRouting'
      <3>1. \A h \in Handlers : job[h].done \subseteq Refs
        BY DEF OnceInv, LockInv, TypeOK, Jobs
      <3>2. \A h \in Handlers : pc[h] = "push" => job[h].ref \in Refs
        BY DEF OnceInv, LockInv, JobsAreSet
      <3> QED BY <2>1, <2>2, <3>1, <3>2 DEF OnceInv, CallsOfRouting
    <2> QED BY <1>0, <2>3, <2>4, <2>5 DEF OnceInv
  <1>4. CASE UNCHANGED vars
    BY <1>0, <1>4 DEF vars, OnceInv, RowsHaveOrigin, AttemptsHaveRows, RequestsAgree,
       CallsOfRouting, CustomerPaymentRoutedOnce, Exists
  <1> QED BY <1>1, <1>2, <1>3, <1>4 DEF Next

\* However many requests carry the key of a customer's payment, at most one
\* recorded call of it moved or may move money (payment_service.py,
\* create_payment, with the unique index of idempotency_key).
THEOREM CustomerRoutedOnce == Spec => []CustomerPaymentRoutedOnce
  <1>1. OnceInv => CustomerPaymentRoutedOnce
    BY DEF OnceInv
  <1> QED BY OnceInit, OnceStep, <1>1, PTL DEF Spec

=============================================================================
