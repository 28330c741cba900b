-------------------------------- MODULE Wallet --------------------------------
(***************************************************************************)
(* One customer's phone over the backend of Payments: the pay screen, the  *)
(* balances and the history it shows, and the mock providers' memory that  *)
(* the balances are read from.                                             *)
(*                                                                         *)
(* Every tap on "Authenticate & Pay" draws an idempotency key and posts it *)
(* once, so a key stands for its tap.  A lost connection ends the tap with *)
(* an error while the server goes on.  The user may leave the screen and   *)
(* pay again, so taps overlap.  All payments cost the same: an account     *)
(* pays Funds of them.  Balances and history are two Riverpod providers    *)
(* that share no state with each other: a behaviour has either of them.    *)
(***************************************************************************)
EXTENDS Payments

CONSTANTS Customer,    \* the owner of the phone
          Funds,       \* what a mock account starts with, in payments
          HistoryTaps  \* bound: payments tapped while the history is followed

ASSUME CustomerIsUser == Customer \in Users
ASSUME FundsAssumption == Funds \in Nat
ASSUME HistoryTapsBounded == HistoryTaps \in Nat

VARIABLES
    tap,       \* what the pay screen knows of each key
    arrived,   \* the keys whose POST /payments reached the server
    reply,     \* the answer on its way to the phone, by key
    debited,   \* the calls the mocks' memory has deducted
    view,      \* GET /balances or GET /transactions: how far it is, what it saw
    list       \* what the screen holds of the last fetch that returned

phone == <<tap, arrived, reply, view, list>>
walletVars == <<vars, phone, debited>>

\* A fetch that has not read anything yet.  Of balances, the calls that were seen
\* count; of history, who is listed, as completed, and with a successful attempt.
Fetch(what) == [what |-> what, state |-> "asked", seen |-> {},
                listed |-> {}, completed |-> {}, unread |-> {}, charged |-> {}]
Ended == [Fetch(view.what) EXCEPT !.state = "ended"]

\* A spinner or an error instead of the list, and a list.
Blank == [on |-> FALSE, seen |-> {}, listed |-> {}, completed |-> {}]
Fetched == [on |-> TRUE, seen |-> view.seen, listed |-> view.listed, completed |-> view.completed]

(* -------------------------- the mocks' memory -------------------------- *)

\* The account is the user's, at that provider: one account per mock here.
Spent(p) == {r \in debited : ledger[r].provider = p}
CanPay(p) == Cardinality(Spent(p)) < Funds

\* The balance is read and written without an await in between.
PayFromMock(h) ==
    /\ CallMock(h)
    /\ ledger'[NewRef].outcome = IF CanPay(Head(job[h].todo)) THEN "charged" ELSE "failed"
    /\ debited' = IF CanPay(Head(job[h].todo)) THEN debited \cup {NewRef} ELSE debited
    /\ UNCHANGED phone

\* A restarted server has no requests and every account its first balance.
Restart ==
    /\ \A h \in Handlers : pc[h] = "idle"
    /\ debited # {}
    /\ debited' = {}
    /\ UNCHANGED <<vars, phone>>

(* ------------------------------ the server ----------------------------- *)

PostArrives(h, k) ==
    /\ tap[k] # "unused" /\ k \notin arrived
    /\ CreatePayment(h, Customer, k)
    /\ arrived' = arrived \cup {k}
    /\ UNCHANGED <<tap, reply, view, list, debited>>

Working(k) == \E h \in Routers : job[h].key = k

\* The commit is followed by a refresh of the row, which is answered.
AnswerPost(k) ==
    /\ tap[k] = "sent" /\ k \in arrived /\ reply[k] = None
    /\ Exists(k) /\ ~Working(k)
    /\ reply' = [reply EXCEPT ![k] = row[k].status]
    /\ UNCHANGED <<vars, tap, arrived, view, list, debited>>

\* The other steps of the backend; nobody else pays with these keys.
ServerStep ==
    /\ \/ \E h \in Handlers :
            \/ InsertPayment(h) \/ Settle(h) \/ Abort(h)
            \/ FindNoPolicy(h) \/ LoadCandidates(h) \/ SendPush(h) \/ PushAnswered(h)
            \/ FinishLive(h) \/ FinishDead(h)
            \/ \E r \in Refs : ReadCallback(h, r)
       \/ \E r \in Refs : CustomerAnswers(r) \/ IgnoreCallback(r)
    /\ UNCHANGED <<phone, debited>>

(* --------------------------- the pay screen ---------------------------- *)

OutcomeOfAttempt(status) == IF status = "SUCCESS" THEN "paid" ELSE "declined"      \* mutant
OutcomeIfLive(status) ==                                                           \* mutant
    IF status \in {"COMPLETED", "AUTHORIZATION_PENDING"} THEN "paid" ELSE "declined"
Outcome(status) == IF status = "COMPLETED" THEN "paid" ELSE "declined"

TapPay(k) ==
    /\ tap[k] = "unused"
    /\ view.what = "history" => Cardinality({l \in Keys : tap[l] # "unused"}) < HistoryTaps
    /\ tap' = [tap EXCEPT ![k] = "sent"]
    /\ UNCHANGED <<vars, arrived, reply, view, list, debited>>

Answered(k) ==
    /\ tap[k] = "sent" /\ reply[k] # None
    /\ tap' = [tap EXCEPT ![k] = Outcome(reply[k])]
    /\ reply' = [reply EXCEPT ![k] = None]
    /\ UNCHANGED <<vars, arrived, list, debited>>

LeaveView(k) ==    \* mutant: the provider is not invalidated
    Answered(k) /\ UNCHANGED view
JoinFetch(k) ==    \* mutant: a fetch under way is not dropped
    Answered(k) /\ view' = IF view.state = "ended" THEN Fetch(view.what) ELSE view

\* The answer invalidates balances and history: each is fetched again, and what
\* an older fetch brings is dropped.  An invalidated provider keeps its value,
\* so the old list stays on screen until the new fetch returns.
ShowOutcome(k) == Answered(k) /\ view' = Fetch(view.what)

RetrySameKey(k) ==  \* mutant: the phone repeats a post that failed
    /\ tap[k] = "sent" /\ k \in arrived
    /\ arrived' = arrived \ {k}
    /\ UNCHANGED <<vars, tap, reply, view, list, debited>>

\* An error answer, or a lost connection: the request may still arrive, or go
\* on.  Nothing is fetched again.
ShowError(k) ==
    /\ tap[k] = "sent"
    /\ tap' = [tap EXCEPT ![k] = "error"]
    /\ reply' = [reply EXCEPT ![k] = None]
    /\ UNCHANGED <<vars, arrived, view, list, debited>>

(* ------------------------ balances and history ------------------------- *)

\* Daraja has no balance to offer and is skipped.
HasBalance(p) == p \in MockProviders

\* One query for the connections, then every mock's balance without a pause.
ReadBalances ==
    /\ view.what = "balances" /\ view.state = "asked"
    /\ view' = [view EXCEPT !.state = "read",
                            !.seen = {r \in debited : HasBalance(ledger[r].provider)}]
    /\ UNCHANGED <<vars, tap, arrived, reply, list, debited>>

Mine == {k \in Keys : row[k].bio = Customer}

\* The customer's transactions are one statement, ...
ReadRows ==
    /\ view.what = "history" /\ view.state = "asked"
    /\ view' = [view EXCEPT !.state = "read", !.listed = Mine, !.unread = Mine,
                         !.completed = {k \in Mine : row[k].status = "COMPLETED"}]
    /\ UNCHANGED <<vars, tap, arrived, reply, list, debited>>

HasSuccess(k) == \E r \in Refs : attempt[r] = "SUCCESS" /\ ledger[r].key = k
SeenCharged(k) == IF HasSuccess(k) THEN view.charged \cup {k} ELSE view.charged

AttemptsFirst(k) ==  \* mutant: the attempts are fetched before the rows
    /\ \/ /\ view.what = "history" /\ view.state = "asked"
          /\ view' = [view EXCEPT !.charged = SeenCharged(k)]
       \/ /\ k \in view.unread
          /\ view' = [view EXCEPT !.unread = @ \ {k}]
    /\ UNCHANGED <<vars, tap, arrived, reply, list, debited>>

\* ... the attempts of each of them another one.
ReadAttempts(k) ==
    /\ k \in view.unread
    /\ view' = [view EXCEPT !.charged = SeenCharged(k), !.unread = @ \ {k}]
    /\ UNCHANGED <<vars, tap, arrived, reply, list, debited>>

ShowView ==
    /\ view.state = "read" /\ view.unread = {}
    /\ list' = Fetched /\ view' = Ended
    /\ UNCHANGED <<vars, tap, arrived, reply, debited>>

\* A fetch that fails replaces the list by its error.
FetchFails ==
    /\ view.state \in {"asked", "read"}
    /\ list' = Blank /\ view' = Ended
    /\ UNCHANGED <<vars, tap, arrived, reply, debited>>

\* The dashboard can always be pulled, the history when it lists something.
\* The old list stays until the new one comes, as in ShowOutcome.
PullToRefresh ==
    /\ view.what = "balances" \/ list.listed # {}
    /\ view' = Fetch(view.what)
    /\ UNCHANGED <<vars, tap, arrived, reply, list, debited>>

\* Connecting or disconnecting a provider changes what the balances are computed
\* from: they are fetched again behind a spinner.
ConnectionsChange ==
    /\ view.what = "balances"
    /\ list' = Blank /\ view' = Fetch(view.what)
    /\ UNCHANGED <<vars, tap, arrived, reply, debited>>

(* ---------------------------- specification ---------------------------- *)

WalletInit ==
    /\ Init
    /\ tap = [k \in Keys |-> "unused"]
    /\ arrived = {}
    /\ reply = [k \in Keys |-> None]
    /\ debited = {}
    /\ view \in {Fetch("balances"), Fetch("history")}
    /\ list = Blank

Phone ==
    \/ \E k \in Keys : TapPay(k) \/ ShowOutcome(k) \/ ShowError(k)
    \/ ShowView \/ FetchFails \/ PullToRefresh \/ ConnectionsChange

Server ==
    \/ \E h \in Handlers, k \in Keys : PostArrives(h, k)
    \/ \E h \in Handlers : PayFromMock(h)
    \/ \E k \in Keys : AnswerPost(k) \/ ReadAttempts(k)
    \/ ReadBalances \/ ReadRows
    \/ ServerStep \/ Restart

WalletSpec == WalletInit /\ [][Phone \/ Server]_walletVars

(* ------------------------------ properties ----------------------------- *)

\* The type invariant; no answer carries an intermediate status.
WalletTypeOK ==
    /\ TypeOK
    /\ tap \in [Keys -> {"unused", "sent", "paid", "declined", "error"}]
    /\ arrived \subseteq Keys
    /\ reply \in [Keys -> Statuses \cup {None}]
    /\ debited \subseteq Refs
    /\ view \in [what : {"balances", "history"}, state : {"asked", "read", "ended"},
                 seen : SUBSET Refs, listed : SUBSET Keys, completed : SUBSET Keys,
                 unread : SUBSET Keys, charged : SUBSET Keys]
    /\ list \in [on : BOOLEAN, seen : SUBSET Refs, listed : SUBSET Keys, completed : SUBSET Keys]

\* One tap charges at most once, recorded or not, whatever is lost: a key is
\* posted once, and its routing stops at the first charge (create, pay).
TapChargesOnce ==
    \A r, s \in Refs :
        /\ ledger[r].key = ledger[s].key
        /\ ledger[r].outcome = "charged" /\ ledger[s].outcome = "charged"
        => r = s

\* A payment the phone calls successful is completed and was charged.
PaidIsCharged ==
    \A k \in Keys : tap[k] = "paid" =>
        /\ row[k].status = "COMPLETED"
        /\ \E r \in Refs : ledger[r].key = k /\ ledger[r].outcome = "charged"

\* A payment the phone calls declined ("No connected provider had sufficient
\* funds") is charged only if a prompt was still open: no mock charged it.
DeclinedChargesByPrompt ==
    \A k \in Keys, r \in Refs :
        tap[k] = "declined" /\ ledger[r].key = k /\ ledger[r].outcome = "charged"
            => ledger[r].provider \in AsyncProviders

\* What a fetch of balances, or of history, has not seen: a charge the mocks
\* still remember of a payment shown as successful; an answered payment, or that it
\* was successful.
MissesCharge(f) == \E r \in debited : tap[ledger[r].key] = "paid" /\ r \notin f.seen
MissesTap(f) ==
    \E k \in Keys : \/ tap[k] \in {"paid", "declined"} /\ k \notin f.listed
                    \/ tap[k] = "paid" /\ k \notin f.completed

\* Balances from before a payment that is shown as successful may stay on screen,
\* but not once no fetch is under way: one is that has seen the charge, or has not
\* read yet.  Charges the server forgot in a restart are no longer asked for.
BalancesCatchUp ==
    view.what = "balances" /\ list.on /\ MissesCharge(list) =>
        view.state = "asked" \/ (view.state = "read" /\ ~MissesCharge(view))

\* A history that lacks a payment the pay screen was answered for, or shows a
\* successful one as not completed, is being replaced: the fetch under way has
\* read all of them, or has not read yet.
HistoryCatchesUp ==
    view.what = "history" /\ list.on /\ MissesTap(list) =>
        view.state = "asked" \/ (view.state = "read" /\ ~MissesTap(view))

\* A transaction listed as completed has its successful attempt in the same
\* answer: rows are read before attempts, and both are committed together.
ListedPaidHasCharge == view.completed \ view.unread \subseteq view.charged
=============================================================================
