-------------------------------- MODULE Daraja --------------------------------
(***************************************************************************)
(* The Daraja adapter under the routing of Payments: every push is         *)
(* preceded by a call for an access token, and asks for whole shillings    *)
(* while the transaction keeps its cents.  Amounts are in cents.           *)
(***************************************************************************)
EXTENDS Payments, Integers

CONSTANTS Amounts,      \* the amounts transactions may have
          CallbackURL   \* whether DARAJA_CALLBACK_BASE_URL is configured

ASSUME AmountsAreCents == Amounts \subseteq Nat
ASSUME CallbackURLAssumption == CallbackURL \in BOOLEAN

VARIABLES
    amount,  \* the amount of each transaction
    asked,   \* the shillings the push of each reference asked for
    token    \* the requests that hold a fresh access token

adapter == <<amount, asked, token>>
darajaVars == <<vars, adapter>>

Truncated(cents) == cents \div 100             \* mutant: the cents are cut off
\* ROUND_HALF_UP to a whole number of shillings.
Shillings(cents) == (cents + 50) \div 100

\* Without a callback URL the call raises before anything is sent; without a
\* token (raise_for_status) before the push.  Both are an Abort of Payments.
GetToken(h) ==
    /\ CallbackURL
    /\ NextCall(h) /\ Head(job[h].todo) \in AsyncProviders
    /\ h \notin token
    /\ token' = token \cup {h}
    /\ UNCHANGED <<vars, amount, asked>>

PushAmount(h) ==
    /\ h \in token
    /\ SendPush(h)
    /\ asked' = [asked EXCEPT ![NewRef] = Shillings(amount[job[h].key])]
    /\ token' = token \ {h}
    /\ UNCHANGED amount

DarajaRoute(h) ==
    \/ GetToken(h) \/ PushAmount(h)
    \/ /\ \/ FindNoPolicy(h) \/ LoadCandidates(h) \/ CallMock(h)
          \/ PushAnswered(h) \/ FinishLive(h) \/ FinishDead(h)
       /\ UNCHANGED adapter

DarajaAbort(h) ==
    /\ Abort(h)
    /\ token' = token \ {h}
    /\ UNCHANGED <<amount, asked>>

DarajaInit ==
    /\ Init
    /\ amount \in [Keys -> Amounts]
    /\ asked = [r \in Refs |-> 0]
    /\ token = {}

DarajaLock(h) == Lock(h) /\ UNCHANGED adapter
DarajaIgnores(r) == IgnoreCallback(r) /\ UNCHANGED adapter
DarajaReads(h, r) == ReadCallback(h, r) /\ UNCHANGED adapter

DarajaNext ==
    \/ \E h \in Handlers : \/ DarajaRoute(h) \/ DarajaLock(h) \/ DarajaAbort(h)
                           \/ (Arrive(h) /\ UNCHANGED adapter)
    \/ \E r \in Refs : DarajaIgnores(r) \/ (CustomerAnswers(r) /\ UNCHANGED adapter)

DarajaSpec == DarajaInit /\ [][DarajaNext]_darajaVars

\* As in Payments; the call for the token ends like every other await.
DarajaFairSpec ==
    /\ DarajaSpec
    /\ \A h \in Handlers : WF_darajaVars(DarajaRoute(h)) /\ SF_darajaVars(DarajaLock(h))
    /\ \A r \in Refs :
         SF_darajaVars(DarajaIgnores(r) \/ \E h \in Handlers : DarajaReads(h, r))

(* ------------------------------ properties ----------------------------- *)

\* The type invariant: tokens belong to requests about to push, pushes ask for
\* whole shillings.
DarajaTypeOK ==
    /\ TypeOK
    /\ amount \in [Keys -> Amounts]
    /\ asked \in [Refs -> Nat]
    /\ token \subseteq {h \in Handlers : pc[h] = "route"}

Near(shillings, cents) == 100 * shillings - cents \in -50..50

\* What the history shows of a payment that Daraja completed is what the
\* customer was charged, up to half a shilling: the push that was confirmed
\* asked for the amount of this transaction.
CompletedChargeIsNear ==
    \A k \in Keys :
        row[k].status = "COMPLETED" /\ row[k].selected \in AsyncProviders =>
            \E r \in Refs : /\ ledger[r].key = k /\ ledger[r].outcome = "charged"
                            /\ Near(asked[r], amount[k])
=============================================================================
