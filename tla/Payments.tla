------------------------------ MODULE Payments ------------------------------
(***************************************************************************)
(* The payment lifecycle of the backend: the requests that create, claim,  *)
(* cancel and route a payment, run concurrently by one uvicorn process     *)
(* against PostgreSQL at READ COMMITTED, and the M-PESA (Daraja) callback  *)
(* that settles a pending one.                                             *)
(*                                                                         *)
(* A payment is named by its idempotency key, the unique column of the     *)
(* transactions table.  Every request runs in one database transaction of  *)
(* its own: what it writes is seen by the others only when it commits, a   *)
(* write waits for the row lock another transaction holds, and an          *)
(* exception closes the session, which rolls everything back.  The calls   *)
(* to the providers are outside that transaction: money that moved stays   *)
(* moved.                                                                  *)
(***************************************************************************)
EXTENDS Naturals, Sequences, FiniteSets

CONSTANTS
    Keys,            \* idempotency keys, one per payment
    Users,           \* customers; a customer has one BioID, named by the user
    Handlers,        \* requests the server runs at the same time
    Refs,            \* provider references: one per call to a provider
    MockProviders,   \* providers that answer SUCCESS or DECLINED at once
    AsyncProviders,  \* providers that answer PENDING and call back (Daraja)
    None

Providers == MockProviders \cup AsyncProviders

\* Only MPESA can be asynchronous, and then it is not a mock (registry.py).
ASSUME OneAsyncProvider ==
    /\ \A p, q \in AsyncProviders : p = q
    /\ MockProviders \cap AsyncProviders = {}
ASSUME NoneIsNew == None \notin Keys \cup Users \cup Handlers \cup Refs \cup Providers

VARIABLES
    row,       \* the committed transactions table, by key
    openedBy,  \* who created the committed row (history)
    attempt,   \* the committed payment_attempts table: result, by reference
    ledger,    \* what each call did at the provider, whatever we recorded
    writer,    \* the request holding the row's lock (or its new index entry)
    pc, job    \* where each request is, and what it remembers

vars == <<row, openedBy, attempt, ledger, writer, pc, job>>

(* ---------------------------- vocabulary ------------------------------- *)

\* The statuses a commit can make visible.  AUTHENTICATED, ROUTING and
\* PROCESSING are assigned between commits only.
Statuses == {"AUTHENTICATION_PENDING", "AUTHORIZATION_PENDING", "COMPLETED",
             "DECLINED", "PROVIDER_UNAVAILABLE", "CANCELLED"}
Resolved == {"COMPLETED", "DECLINED", "PROVIDER_UNAVAILABLE", "CANCELLED"}
Cancellable == {"CREATED", "AUTHENTICATION_PENDING", "AUTHENTICATED", "ROUTING"}
CancellableOrPending == Cancellable \cup {"AUTHORIZATION_PENDING"}  \* mutant
IsCancellableOrPending(status) == status \in CancellableOrPending   \* mutant
IsCancellable(status) == status \in Cancellable

NoRow == [status |-> "NONE", bio |-> None, selected |-> None, completed |-> FALSE]
NoCall == [outcome |-> "unused", key |-> None, provider |-> None, acked |-> FALSE]
NoJob == [user |-> None, key |-> None, ref |-> None, seen |-> None,
          todo |-> <<>>, done |-> {}]

NeverExists(k) == FALSE                    \* mutant: the key is not unique
Exists(k) == row[k].status # "NONE"

Unlocked(k) == writer[k] = None

\* BioRouter's candidates: the primary and the fallback that are connected.
\* Policies and connections change under other requests, so any is possible.
Candidates == {<<>>} \cup {<<p>> : p \in Providers} \cup (Providers \X Providers)

FreeRefs == {r \in Refs : ledger[r].outcome = "unused"}
NewRef == CHOOSE r \in FreeRefs : TRUE   \* a fresh reference, any one will do
Routers == {h \in Handlers : pc[h] \in {"insert", "claim", "policy", "route", "push"}}
\* The calls the routings under way may still make, at most: two until the
\* candidates are known, then one for each of those left.
CallsToCome == {call \in Routers \X (1..2) :
                    pc[call[1]] \in {"route", "push"} => call[2] <= Len(job[call[1]].todo)}
\* The bound of the model: a payment starts routing only while enough
\* references are left for the two calls every routing may make.
RefsLeft == Cardinality(FreeRefs) >= 2 + Cardinality(CallsToCome)

ResultOfAnyPush(r) ==   \* mutant: the push's ResponseCode is not looked at
    IF ledger[r].provider \in AsyncProviders THEN "PENDING"
    ELSE IF ledger[r].outcome = "failed" THEN "DECLINED" ELSE "SUCCESS"
\* What initiate_payment returned for reference r.
Result(r) ==
    IF ledger[r].provider \in AsyncProviders
    THEN IF ledger[r].outcome = "failed" THEN "ERROR" ELSE "PENDING"
    ELSE IF ledger[r].outcome = "failed" THEN "DECLINED" ELSE "SUCCESS"

\* The result after which the router stops and tries no further candidate.
StopsOnSuccess(r) == Result(r) = "SUCCESS"                           \* mutant
StopsRouting(r) == Result(r) \in {"SUCCESS", "PENDING"}

MustStop(h) == \E r \in job[h].done : StopsRouting(r)
RoutingEnds(h) == job[h].todo = <<>> \/ MustStop(h)

(* ------------------------------ requests ------------------------------- *)

Start(h, step, j) ==
    /\ pc[h] = "idle"
    /\ pc' = [pc EXCEPT ![h] = step]
    /\ job' = [job EXCEPT ![h] = j]
    /\ UNCHANGED <<row, openedBy, attempt, ledger, writer>>

Goto(h, step) == pc' = [pc EXCEPT ![h] = step]

Return(h) == Goto(h, "idle") /\ job' = [job EXCEPT ![h] = NoJob]

\* Commit and rollback both end the database transaction and free its locks.
KeepLock(h) == writer' = writer          \* mutant: the session is never closed
Release(h) == writer' = [k \in Keys |-> IF writer[k] = h THEN None ELSE writer[k]]

AbortAndAck(h) ==   \* mutant: the webhook swallows the exception and answers 200
    /\ pc[h] # "idle"
    /\ ledger' = IF pc[h] = "settle" THEN [ledger EXCEPT ![job[h].ref].acked = TRUE]
                 ELSE ledger
    /\ Release(h) /\ Return(h)
    /\ UNCHANGED <<row, openedBy, attempt>>

\* An exception, a lost connection or a restart of the server: the database
\* transaction is rolled back, the calls already made to providers are not.
Abort(h) ==
    /\ pc[h] # "idle"
    /\ Release(h)
    /\ Return(h)
    /\ UNCHANGED <<row, openedBy, attempt, ledger>>

(* -------------------------- creating a payment ------------------------- *)

\* POST /payments.  A key already in the table returns its row unchanged.
CreatePayment(h, u, k) ==
    /\ ~Exists(k)
    /\ RefsLeft
    /\ Start(h, "insert", [NoJob EXCEPT !.user = u, !.key = k])

\* The INSERT of the AUTHENTICATED row waits for another uncommitted INSERT of
\* the key; the row stays uncommitted while it is routed.
InsertPayment(h) ==
    LET k == job[h].key IN
    /\ pc[h] = "insert"
    /\ Unlocked(k) /\ ~Exists(k)
    /\ writer' = [writer EXCEPT ![k] = h]
    /\ Goto(h, "policy")
    /\ UNCHANGED <<row, openedBy, attempt, ledger, job>>

\* POST /payments/request.
OpenRequest(h, k) ==
    /\ ~Exists(k)
    /\ Start(h, "open", [NoJob EXCEPT !.key = k])

CommitRequest(h) ==
    LET k == job[h].key IN
    /\ pc[h] = "open"
    /\ Unlocked(k) /\ ~Exists(k)
    /\ row' = [row EXCEPT ![k].status = "AUTHENTICATION_PENDING"]
    /\ openedBy' = [openedBy EXCEPT ![k] = "merchant"]
    /\ Return(h)
    /\ UNCHANGED <<attempt, ledger, writer>>

\* The other INSERT committed first: the unique index raises IntegrityError.
InsertConflict(h) ==
    /\ pc[h] \in {"insert", "open"}
    /\ Unlocked(job[h].key) /\ Exists(job[h].key)
    /\ Return(h)
    /\ UNCHANGED <<row, openedBy, attempt, ledger, writer>>

(* -------------------------- claiming a request ------------------------- *)

Claimable(k) == row[k].status = "AUTHENTICATION_PENDING" /\ row[k].bio = None

\* POST /payments/{id}/claim checks the row it read without locking it ...
ReadForClaim(h, u, k) ==
    /\ Claimable(k)
    /\ RefsLeft
    /\ Start(h, "claim", [NoJob EXCEPT !.user = u, !.key = k])

CommitClaimAtOnce(h) ==   \* mutant: a commit where the code flushes, the lock is lost
    /\ pc[h] = "claim"
    /\ Unlocked(job[h].key)
    /\ row' = [row EXCEPT ![job[h].key].bio = job[h].user]
    /\ Goto(h, "policy")
    /\ UNCHANGED <<openedBy, attempt, ledger, writer, job>>

\* ... and its UPDATE, by primary key, waits for the row's lock and then
\* applies to whatever the row has become.
FlushClaim(h) ==
    LET k == job[h].key IN
    /\ pc[h] = "claim"
    /\ Unlocked(k)
    /\ writer' = [writer EXCEPT ![k] = h]
    /\ Goto(h, "policy")
    /\ UNCHANGED <<row, openedBy, attempt, ledger, job>>

(* ------------------------------- routing ------------------------------- *)

\* The row as this request commits it: SQLAlchemy writes the columns the
\* request changed, so the other columns keep what earlier commits put there.
Routed(h, status, selected) ==
    LET k == job[h].key IN
    [row EXCEPT ![k].status = status,
                ![k].bio = job[h].user,
                ![k].selected = IF selected = None THEN @ ELSE selected,
                ![k].completed = IF status = "COMPLETED" THEN TRUE ELSE @]

Opened(h) == [openedBy EXCEPT ![job[h].key] = IF Exists(job[h].key) THEN @ ELSE "customer"]

FindNoPolicy(h) ==
    /\ pc[h] = "policy"
    /\ row' = Routed(h, "PROVIDER_UNAVAILABLE", None)
    /\ openedBy' = Opened(h)
    /\ Release(h)
    /\ Return(h)
    /\ UNCHANGED <<attempt, ledger>>

LoadCandidates(h) ==
    /\ pc[h] = "policy"
    /\ \E todo \in Candidates : job' = [job EXCEPT ![h].todo = todo]
    /\ Goto(h, "route")
    /\ UNCHANGED <<row, openedBy, attempt, ledger, writer>>

\* The next candidate is tried while no earlier call stopped the routing.
NextCall(h) ==
    /\ pc[h] = "route"
    /\ ~RoutingEnds(h)
    /\ FreeRefs # {}

Called(h, outcome) ==
    ledger' = [ledger EXCEPT ![NewRef] = [outcome |-> outcome, key |-> job[h].key,
                                          provider |-> Head(job[h].todo), acked |-> FALSE]]

\* A mock provider moves the money or declines, in its own memory.
CallMock(h) ==
    /\ NextCall(h)
    /\ Head(job[h].todo) \in MockProviders
    /\ \E outcome \in {"charged", "failed"} : Called(h, outcome)
    /\ job' = [job EXCEPT ![h].todo = Tail(@), ![h].done = @ \cup {NewRef}]
    /\ UNCHANGED <<row, openedBy, attempt, writer, pc>>

\* Daraja received the STK push: the prompt is on the phone, or refused.
SendPush(h) ==
    /\ NextCall(h)
    /\ Head(job[h].todo) \in AsyncProviders
    /\ \E outcome \in {"prompted", "failed"} : Called(h, outcome)
    /\ job' = [job EXCEPT ![h].ref = NewRef]
    /\ Goto(h, "push")
    /\ UNCHANGED <<row, openedBy, attempt, writer>>

\* The answer of the push (ResponseCode, CheckoutRequestID) arrived.
PushAnswered(h) ==
    /\ pc[h] = "push"
    /\ job' = [job EXCEPT ![h].todo = Tail(@), ![h].done = @ \cup {job[h].ref},
                          ![h].ref = None]
    /\ Goto(h, "route")
    /\ UNCHANGED <<row, openedBy, attempt, ledger, writer>>

NothingRecorded(h) == attempt          \* mutant: the attempts are not added to the session
DecisiveRecorded(h) ==                 \* mutant: only the call that decides is recorded
    [r \in Refs |-> IF r \in job[h].done /\ StopsRouting(r) THEN Result(r) ELSE attempt[r]]
Recorded(h) == [r \in Refs |-> IF r \in job[h].done THEN Result(r) ELSE attempt[r]]

OptimisticStatus(r) == "COMPLETED"     \* mutant: the push's acceptance is success
StaleStatus(r) ==                      \* mutant: the interim status is not replaced
    IF Result(r) = "SUCCESS" THEN "COMPLETED" ELSE "PROCESSING"
LiveStatus(r) == IF Result(r) = "SUCCESS" THEN "COMPLETED" ELSE "AUTHORIZATION_PENDING"
DeadStatus(h) == IF job[h].done = {} THEN "PROVIDER_UNAVAILABLE" ELSE "DECLINED"

CommitRouting(h, status, selected) ==
    /\ row' = Routed(h, status, selected)
    /\ openedBy' = Opened(h)
    /\ attempt' = Recorded(h)
    /\ Release(h)
    /\ Return(h)
    /\ UNCHANGED ledger

\* A call succeeded or is pending; OneLiveCallPerRouting says it is only one.
FinishLive(h) ==
    /\ pc[h] = "route"
    /\ RoutingEnds(h)
    /\ \E r \in job[h].done :
        /\ Result(r) \in {"SUCCESS", "PENDING"}
        /\ CommitRouting(h, LiveStatus(r), ledger[r].provider)

FinishDead(h) ==
    /\ pc[h] = "route"
    /\ RoutingEnds(h)
    /\ \A r \in job[h].done : Result(r) \notin {"SUCCESS", "PENDING"}
    /\ CommitRouting(h, DeadStatus(h), None)

(* ------------------------------ cancelling ----------------------------- *)

\* POST /payments/{id}/cancel: the status is read without a lock ...
ReadForCancel(h, k) ==
    /\ IsCancellable(row[k].status)
    /\ Start(h, "cancel", [NoJob EXCEPT !.key = k])

\* ... and the UPDATE of the status column waits for the row's lock.
CommitCancel(h) ==
    /\ pc[h] = "cancel"
    /\ Unlocked(job[h].key)
    /\ row' = [row EXCEPT ![job[h].key].status = "CANCELLED"]
    /\ Return(h)
    /\ UNCHANGED <<openedBy, attempt, ledger, writer>>

(* ------------------- the prompt, and Daraja's callback ------------------ *)

\* The customer enters the PIN, or refuses, or lets the prompt time out.
CustomerAnswers(r) ==
    /\ ledger[r].outcome = "prompted"
    /\ \E outcome \in {"charged", "refused"} :
        ledger' = [ledger EXCEPT ![r].outcome = outcome]
    /\ UNCHANGED <<row, openedBy, attempt, writer, pc, job>>

\* Safaricom delivers a result, again and again until it is acknowledged.
CallsBack(r) ==
    /\ ledger[r].provider \in AsyncProviders
    /\ ledger[r].outcome \in {"charged", "refused"}
    /\ ~ledger[r].acked

AppliesAgain(r) == attempt[r] # "NONE"   \* mutant: the payment's status is not looked at
\* The reference matches a recorded attempt of a payment still pending.
Applies(r) == attempt[r] # "NONE" /\ row[ledger[r].key].status = "AUTHORIZATION_PENDING"

\* Nothing to apply: the callback is acknowledged like any other.
IgnoreCallback(r) ==
    /\ CallsBack(r) /\ ~Applies(r)
    /\ ledger' = [ledger EXCEPT ![r].acked = TRUE]
    /\ UNCHANGED <<row, openedBy, attempt, writer, pc, job>>

ReadCallback(h, r) ==
    /\ CallsBack(r) /\ Applies(r)
    /\ Start(h, "settle", [NoJob EXCEPT !.key = ledger[r].key, !.ref = r,
                                        !.seen = row[ledger[r].key].selected])

Unpaid(r) == ledger[r].outcome = "refused"  \* mutant: the ResultCode read the wrong way
Paid(r) == ledger[r].outcome = "charged"

\* The commit waits for the row's lock; the acknowledgement may be lost.
Settle(h) ==
    LET r == job[h].ref
        k == job[h].key
        p == ledger[r].provider
    IN
    /\ pc[h] = "settle"
    /\ Unlocked(k)
    /\ attempt' = [attempt EXCEPT ![r] = IF Paid(r) THEN "SUCCESS" ELSE "DECLINED"]
    /\ row' = [row EXCEPT
                 ![k].status = IF Paid(r) THEN "COMPLETED" ELSE "DECLINED",
                 ![k].selected = IF Paid(r) /\ job[h].seen # p THEN p ELSE @,
                 ![k].completed = IF Paid(r) THEN TRUE ELSE @]
    /\ ledger' \in {ledger, [ledger EXCEPT ![r].acked = TRUE]}
    /\ Return(h)
    /\ UNCHANGED <<openedBy, writer>>

(* ---------------------------- specification ---------------------------- *)

Init ==
    /\ row = [k \in Keys |-> NoRow]
    /\ openedBy = [k \in Keys |-> "nobody"]
    /\ attempt = [r \in Refs |-> "NONE"]
    /\ ledger = [r \in Refs |-> NoCall]
    /\ writer = [k \in Keys |-> None]
    /\ pc = [h \in Handlers |-> "idle"]
    /\ job = [h \in Handlers |-> NoJob]

\* A request that arrives.
Arrive(h) ==
    \/ \E u \in Users, k \in Keys : CreatePayment(h, u, k) \/ ReadForClaim(h, u, k)
    \/ \E k \in Keys : OpenRequest(h, k) \/ ReadForCancel(h, k)
    \/ \E r \in Refs : ReadCallback(h, r)

\* A request that writes under a row lock it has to wait for.
Lock(h) ==
    \/ InsertPayment(h) \/ InsertConflict(h) \/ CommitRequest(h)
    \/ FlushClaim(h) \/ CommitCancel(h) \/ Settle(h)

\* A request that routes the payment it holds.
Route(h) ==
    \/ FindNoPolicy(h) \/ LoadCandidates(h)
    \/ CallMock(h) \/ SendPush(h)
    \/ PushAnswered(h) \/ FinishLive(h) \/ FinishDead(h)

Next ==
    \/ \E h \in Handlers : Arrive(h) \/ Lock(h) \/ Route(h) \/ Abort(h)
    \/ \E r \in Refs : CustomerAnswers(r) \/ IgnoreCallback(r)

Spec == Init /\ [][Next]_vars

\* A started request goes on (every await of the code ends, the provider calls
\* by their timeout); a waiter gets the lock that is freed again and again,
\* because PostgreSQL queues the waiters; Safaricom repeats its callback.
Fairness ==
    /\ \A h \in Handlers : WF_vars(Route(h)) /\ SF_vars(Lock(h))
    /\ \A r \in Refs : SF_vars(IgnoreCallback(r) \/ \E h \in Handlers : ReadCallback(h, r))

FairSpec == Spec /\ Fairness

(* ------------------------------ properties ----------------------------- *)

Rows == [status : Statuses \cup {"NONE"}, bio : Users \cup {None},
         selected : Providers \cup {None}, completed : BOOLEAN]
Calls == [outcome : {"unused", "failed", "charged", "prompted", "refused"},
          key : Keys \cup {None}, provider : Providers \cup {None}, acked : BOOLEAN]
Jobs == [user : Users \cup {None}, key : Keys \cup {None}, ref : Refs \cup {None},
         seen : Providers \cup {None}, todo : Seq(Providers), done : SUBSET Refs]

\* The type invariant.  It also says that no intermediate status (AUTHENTICATED,
\* ROUTING, PROCESSING) is ever committed, whatever the requests interleave.
TypeOK ==
    /\ row \in [Keys -> Rows]
    /\ openedBy \in [Keys -> {"nobody", "customer", "merchant"}]
    /\ attempt \in [Refs -> {"NONE", "SUCCESS", "DECLINED", "ERROR", "PENDING"}]
    /\ ledger \in [Refs -> Calls]
    /\ writer \in [Keys -> Handlers \cup {None}]
    /\ pc \in [Handlers -> {"idle", "insert", "open", "claim", "policy", "route", "push",
                            "cancel", "settle"}]
    /\ job \in [Handlers -> Jobs]

\* Two requests never route the same payment at the same time: the flush of
\* the row before _route_and_resolve keeps its lock until the commit.
RoutingIsExclusive ==
    \A g, h \in Handlers :
        /\ pc[g] \in {"policy", "route", "push"}
        /\ pc[h] \in {"policy", "route", "push"}
        /\ job[g].key = job[h].key
        => g = h

\* One routing never charges or prompts twice: after a SUCCESS or a PENDING
\* the router tries no further candidate (router_service.py, the break).
OneLiveCallPerRouting ==
    \A h \in Handlers : \A r, s \in job[h].done :
        Result(r) \in {"SUCCESS", "PENDING"} /\ Result(s) \in {"SUCCESS", "PENDING"} => r = s

\* Whatever requests and callbacks raced, a payment shown as COMPLETED took
\* money: a recorded attempt of it, at the provider it names, was charged.
CompletedIsCharged ==
    \A k \in Keys : row[k].status = "COMPLETED" =>
        /\ row[k].completed
        /\ \E r \in Refs : /\ attempt[r] = "SUCCESS"
                          /\ ledger[r].key = k
                          /\ ledger[r].outcome = "charged"
                          /\ ledger[r].provider = row[k].selected

\* A payment waiting for its authorization has a pending attempt, whose
\* prompt really went out: the callback it waits for has something to match.
PendingHasPrompt ==
    \A k \in Keys : row[k].status = "AUTHORIZATION_PENDING" =>
        \E r \in Refs : /\ attempt[r] = "PENDING"
                       /\ ledger[r].key = k
                       /\ ledger[r].outcome \in {"prompted", "charged", "refused"}

\* A recorded attempt never misstates what happened to the money.
AttemptsTellTheTruth ==
    \A r \in Refs :
        /\ attempt[r] = "SUCCESS" => ledger[r].outcome = "charged"
        /\ attempt[r] \in {"DECLINED", "ERROR"} => ledger[r].outcome \in {"failed", "refused"}

\* However many requests carry the key of a customer's payment, one of them
\* routes it: at most one recorded call of it moved or may move money.
CustomerPaymentRoutedOnce ==
    \A k \in Keys : openedBy[k] = "customer" =>
        \A r, s \in Refs :
            /\ ledger[r].key = k /\ attempt[r] # "NONE" /\ ledger[r].outcome # "failed"
            /\ ledger[s].key = k /\ attempt[s] # "NONE" /\ ledger[s].outcome # "failed"
            => r = s

\* A customer's payment that is resolved stays as it is: no retry, cancel,
\* claim, or repeated callback changes its row (a merchant's request has no
\* such protection, see ClaimIsFinal and ResolvedIsFinal).
CustomerPaymentIsFinal ==
    [][\A k \in Keys : openedBy[k] = "customer" /\ row[k].status \in Resolved
                        => row'[k] = row[k]]_vars

Forgotten(r) == /\ ledger[r].outcome # "unused"
                /\ attempt[r] = "NONE"
                /\ \A h \in Handlers : r \notin job[h].done /\ job[h].ref # r

\* A call that went to a provider stays on record, or in the hands of a request
\* that goes on to record it, also when it failed and the next candidate was
\* tried: only the end of that request by an exception loses it.
ForgottenByAbortOnly ==
    [][\A r \in Refs : Forgotten(r)' => Forgotten(r) \/ \E h \in Handlers : Abort(h)]_vars

AtRest(k) == \A h \in Handlers : job[h].key # k
Unrouted(k) == \A h \in Handlers : job[h].key = k => job[h].user = None

\* The races of claim and cancel reach no further than the requests that run
\* at the same time: once a payment is resolved and nobody works on it, it stays
\* so, whatever is retried, claimed, cancelled or redelivered later; and once it
\* has an owner and nobody routes it, nobody routes it again.
FinalAtRest ==
    [][\A k \in Keys :
        /\ row[k].status \in Resolved /\ AtRest(k) => row'[k] = row[k] /\ AtRest(k)'
        /\ row[k].bio # None /\ Unrouted(k) => row'[k].bio = row[k].bio /\ Unrouted(k)']_vars

\* Every request that starts ends: nobody waits for a row lock for ever.
EveryRequestEnds == \A h \in Handlers : pc[h] # "idle" ~> pc[h] = "idle"

\* A result Safaricom still has to deliver, of an attempt that is recorded,
\* ends the wait of its payment, whatever deliveries fail on the way.
AnsweredPromptSettles ==
    \A r \in Refs :
        attempt[r] = "PENDING" /\ CallsBack(r)
            ~> attempt[r] # "PENDING" \/ row[ledger[r].key].status # "AUTHORIZATION_PENDING"

(* What the documentation says, and the code does not keep.                *)

\* "Whoever claims a given request first gets it": an owner never changes.
ClaimIsFinal ==
    [][\A k \in Keys : row[k].bio # None => row'[k].bio = row[k].bio]_vars

\* A terminal status "won't change again on its own".
ResolvedIsFinal ==
    [][\A k \in Keys : row[k].status \in Resolved => row'[k].status = row[k].status]_vars

\* An acknowledged callback matched nothing BioFinance created, or was applied:
\* no payment waits for a callback that was already acknowledged.
NoCallbackLost ==
    \A r \in Refs : ledger[r].acked =>
        ~(attempt[r] = "PENDING" /\ row[ledger[r].key].status = "AUTHORIZATION_PENDING")

\* A retry with the same key returns the original transaction "instead of
\* double-charging": a customer's key is charged at most once.
RetryNeverChargesTwice ==
    \A k \in Keys : openedBy[k] # "merchant" =>
        \A r, s \in Refs :
            /\ ledger[r].key = k /\ ledger[r].outcome = "charged"
            /\ ledger[s].key = k /\ ledger[s].outcome = "charged"
            => r = s
=============================================================================
