------------------------------ MODULE Terminal ------------------------------
(***************************************************************************)
(* The BioPOS terminal: the amount entry opens a payment request, the      *)
(* waiting screen polls it every two seconds and may cancel it, the        *)
(* receipt shows how it ended.  Polls are not awaited before the next one  *)
(* is sent, and their answers come back in any order, also while the       *)
(* screen that sent them is already leaving.                               *)
(*                                                                         *)
(* Flutter's Navigator is external: pop and pushReplacement act on the     *)
(* topmost route that is not being popped or replaced, and a State stays   *)
(* mounted until the transition that removes its route has ended.          *)
(***************************************************************************)
EXTENDS Naturals, Sequences, FiniteSets

CONSTANTS
    MaxRequests,  \* bound: requests the merchant opens in one behaviour
    MaxMoves,     \* bound: status changes by customers and providers
    Slots,        \* bound: polls of one screen that are under way at a time
    Outcomes      \* the terminal statuses that happen

\* isTerminal, without the two statuses the backend never assigns.
Terminals == {"COMPLETED", "DECLINED", "PROVIDER_UNAVAILABLE", "CANCELLED"}
Statuses == {"AUTHENTICATION_PENDING", "AUTHORIZATION_PENDING"} \cup Outcomes

ASSUME OutcomesAreTerminal == Outcomes \subseteq Terminals /\ "CANCELLED" \in Outcomes
ASSUME BoundsAreNaturals == MaxRequests \in Nat /\ MaxMoves \in Nat

VARIABLES
    opened,   \* number of requests opened so far; the i-th one is request i
    status,   \* the backend's status of each request
    stack,    \* the routes of the Navigator, the visible one last
    mounted,  \* the waiting screens whose State is mounted
    timer,    \* the waiting screens whose poll timer runs
    poll,     \* the polls under way, by screen and slot
    cancel,   \* where the Cancel of each waiting screen is
    moves     \* status changes so far (bounded)

vars == <<opened, status, stack, mounted, timer, poll, cancel, moves>>

Requests == 1 .. MaxRequests
Home == [screen |-> "amount entry", request |-> 0, status |-> "-"]
Waiting(i) == [screen |-> "waiting", request |-> i, status |-> "-"]
Receipt(i, s) == [screen |-> "receipt", request |-> i, status |-> s]
Routes == {Home} \cup {Waiting(i) : i \in Requests}
          \cup {Receipt(i, s) : i \in Requests, s \in Outcomes}

Top == stack[Len(stack)]
Pop == SubSeq(stack, 1, Len(stack) - 1)
OnStack(route) == \E n \in DOMAIN stack : stack[n] = route
PushOnTop(route) == Append(stack, route)            \* mutant: push, not pushReplacement
Replaced(route) == Append(Pop, route)

\* The assumption on the merchant: a tap is slower than the 300 ms of a route's
\* transition, no screen is still leaving when the next button is pressed.
Settled == \A i \in mounted : OnStack(Waiting(i))

PendingIsTerminal(s) == s # "AUTHENTICATION_PENDING"  \* mutant: claimed counts as ended
PaidIsTerminal(s) == s \in {"COMPLETED", "DECLINED"}  \* mutant: CANCELLED is not known
IsTerminal(s) == s \in Terminals

(* --------------------------- the amount entry -------------------------- *)

\* POST /payments/request answered; one that failed leaves the screen as it is.
RequestPayment ==
    /\ Top = Home /\ Settled
    /\ opened < MaxRequests
    /\ LET i == opened + 1 IN
        /\ opened' = i
        /\ status' = [status EXCEPT ![i] = "AUTHENTICATION_PENDING"]
        /\ stack' = Append(stack, Waiting(i))
        /\ mounted' = mounted \cup {i}
        /\ timer' = timer \cup {i}
    /\ UNCHANGED <<poll, cancel, moves>>

(* -------------------------- the waiting screen ------------------------- *)

SendPoll(i, s) ==
    /\ i \in timer /\ i \in mounted
    /\ poll[i][s] = "free"
    /\ poll' = [poll EXCEPT ![i][s] = "sent"]
    /\ UNCHANGED <<opened, status, stack, mounted, timer, cancel, moves>>

\* GET /payments/{id} returns the status of the moment.
AnswerPoll(i, s) ==
    /\ poll[i][s] = "sent"
    /\ poll' = [poll EXCEPT ![i][s] = status[i]]
    /\ UNCHANGED <<opened, status, stack, mounted, timer, cancel, moves>>

Arrived(i, s) == poll[i][s] \in Statuses

\* A pending status, or a screen that is gone: nothing to show.
ReturnPending(i, s) ==
    /\ Arrived(i, s)
    /\ i \in mounted => ~IsTerminal(poll[i][s])
    /\ poll' = [poll EXCEPT ![i][s] = "free"]
    /\ UNCHANGED <<opened, status, stack, mounted, timer, cancel, moves>>

ReturnUnmounted(i, s) ==     \* mutant: `mounted` is not asked after the await
    /\ Arrived(i, s)
    /\ IsTerminal(poll[i][s])
    /\ stack' = Replaced(Receipt(i, poll[i][s]))
    /\ timer' = timer \ {i}
    /\ poll' = [poll EXCEPT ![i][s] = "free"]
    /\ UNCHANGED <<opened, status, mounted, cancel, moves>>

\* A terminal status replaces whatever route is on top by the receipt.
ReturnTerminal(i, s) ==
    /\ Arrived(i, s)
    /\ i \in mounted
    /\ IsTerminal(poll[i][s])
    /\ stack' = Replaced(Receipt(i, poll[i][s]))
    /\ timer' = timer \ {i}
    /\ poll' = [poll EXCEPT ![i][s] = "free"]
    /\ UNCHANGED <<opened, status, mounted, cancel, moves>>

GiveUpOnFailure(i, s) ==     \* mutant: a failed poll ends the polling
    /\ poll[i][s] # "free"
    /\ poll' = [poll EXCEPT ![i][s] = "free"]
    /\ timer' = timer \ {i}
    /\ UNCHANGED <<opened, status, stack, mounted, cancel, moves>>

\* A failed poll is ignored, the next one will retry.
FailPoll(i, s) ==
    /\ poll[i][s] # "free"
    /\ poll' = [poll EXCEPT ![i][s] = "free"]
    /\ UNCHANGED <<opened, status, stack, mounted, timer, cancel, moves>>

\* The transition that removed the route has ended.
Dispose(i) ==
    /\ i \in mounted
    /\ ~OnStack(Waiting(i))
    /\ mounted' = mounted \ {i}
    /\ timer' = timer \ {i}
    /\ UNCHANGED <<opened, status, stack, poll, cancel, moves>>

PressCancel(i) ==
    /\ Top = Waiting(i) /\ Settled
    /\ cancel[i] = "no"
    /\ cancel' = [cancel EXCEPT ![i] = "sent"]
    /\ timer' = timer \ {i}
    /\ UNCHANGED <<opened, status, stack, mounted, poll, moves>>

\* POST /payments/{id}/cancel at the backend, which only cancels a request
\* nobody claimed; the answer does not say which, and the screen ignores it.
AnswerCancel(i) ==
    /\ cancel[i] = "sent"
    /\ cancel' = [cancel EXCEPT ![i] = "answered"]
    /\ status' = IF status[i] = "AUTHENTICATION_PENDING"
                 THEN [status EXCEPT ![i] = "CANCELLED"] ELSE status
    /\ UNCHANGED <<opened, stack, mounted, timer, poll, moves>>

FailCancel(i) ==
    /\ cancel[i] = "sent"
    /\ cancel' = [cancel EXCEPT ![i] = "answered"]
    /\ UNCHANGED <<opened, status, stack, mounted, timer, poll, moves>>

StayOnFailure(i) ==          \* mutant: the screen is left only when the status changed
    /\ cancel[i] = "answered"
    /\ cancel' = [cancel EXCEPT ![i] = "done"]
    /\ stack' = IF i \in mounted /\ status[i] = "CANCELLED" THEN Pop ELSE stack
    /\ UNCHANGED <<opened, status, mounted, timer, poll, moves>>

\* Leaving the screen either way, unless it is disposed.
LeaveWaiting(i) ==
    /\ cancel[i] = "answered"
    /\ cancel' = [cancel EXCEPT ![i] = "done"]
    /\ stack' = IF i \in mounted THEN Pop ELSE stack
    /\ UNCHANGED <<opened, status, mounted, timer, poll, moves>>

(* ------------------------------ the receipt ---------------------------- *)

\* "New Transaction" pops every route above the first one.
NewTransaction ==
    /\ Top.screen = "receipt" /\ Settled
    /\ stack' = SubSeq(stack, 1, 1)
    /\ stack' # stack
    /\ UNCHANGED <<opened, status, mounted, timer, poll, cancel, moves>>

(* ------------------------------ the backend ---------------------------- *)

\* What customers and providers do to the request (see Payments): it never
\* waits for a customer again, any other change may happen, in the races of
\* ClaimIsFinal and ResolvedIsFinal even to a status that was terminal.
Resolve(i) ==
    /\ i <= opened
    /\ moves < MaxMoves
    /\ \E s \in Statuses \ {"AUTHENTICATION_PENDING"} : status' = [status EXCEPT ![i] = s]
    /\ moves' = moves + 1
    /\ UNCHANGED <<opened, stack, mounted, timer, poll, cancel>>

(* ---------------------------- specification ---------------------------- *)

Init ==
    /\ opened = 0
    /\ status = [i \in Requests |-> "none"]
    /\ stack = <<Home>>
    /\ mounted = {}
    /\ timer = {}
    /\ poll = [i \in Requests |-> [s \in Slots |-> "free"]]
    /\ cancel = [i \in Requests |-> "no"]
    /\ moves = 0

Poll(i, s) ==
    SendPoll(i, s) \/ AnswerPoll(i, s) \/ ReturnPending(i, s) \/ ReturnTerminal(i, s)

Next ==
    \/ RequestPayment \/ NewTransaction
    \/ \E i \in Requests :
        \/ \E s \in Slots : Poll(i, s) \/ FailPoll(i, s)
        \/ Dispose(i) \/ PressCancel(i) \/ AnswerCancel(i) \/ FailCancel(i)
        \/ LeaveWaiting(i) \/ Resolve(i)

Spec == Init /\ [][Next]_vars

\* The timer goes on and sooner or later one of the screen's polls gets
\* through; a started cancel returns, if only by its error.
Fairness ==
    \A i \in Requests :
        /\ WF_vars(\E s \in Slots : SendPoll(i, s))
        /\ WF_vars(\E s \in Slots : ReturnPending(i, s))
        /\ SF_vars(\E s \in Slots : AnswerPoll(i, s))
        /\ SF_vars(\E s \in Slots : ReturnTerminal(i, s))
        /\ WF_vars(AnswerCancel(i) \/ FailCancel(i)) /\ WF_vars(LeaveWaiting(i))

FairSpec == Spec /\ Fairness

(* ------------------------------ properties ----------------------------- *)

TypeOK ==
    /\ opened \in 0 .. MaxRequests
    /\ status \in [Requests -> Statuses \cup {"none"}]
    /\ stack \in Seq(Routes) /\ stack # <<>>
    /\ timer \subseteq mounted /\ mounted \subseteq 1 .. opened
    /\ poll \in [Requests -> [Slots -> Statuses \cup {"free", "sent"}]]
    /\ cancel \in [Requests -> {"no", "sent", "answered", "done"}]
    /\ moves \in 0 .. MaxMoves

\* However many polls of however many screens end at once, the merchant never
\* has two receipts to leave, or a receipt above or below a waiting screen.
OneResultAtATime ==
    Cardinality({n \in DOMAIN stack : stack[n].screen # "amount entry"}) <= 1

\* A late answer never brings back a request that was left: whatever is shown,
\* waiting screen or receipt, is of the request opened last.
NoStaleResult == \A n \in DOMAIN stack : stack[n].request \in {0, opened}

\* A screen that waits and was not cancelled goes on polling: it never hangs
\* with its timer stopped, whatever its earlier polls returned.
WaitingKeepsPolling ==
    \A i \in Requests : OnStack(Waiting(i)) /\ cancel[i] = "no" => i \in timer

\* Cancel always leaves the waiting screen, also when the request fails or a
\* poll replaces the screen in the meantime.
CancelLeaves == \A i \in Requests : cancel[i] = "sent" ~> ~OnStack(Waiting(i))

\* A request that stays resolved is shown: the merchant does not wait for ever
\* although polls fail and overlap.
ResolvedIsShown ==
    \A i \in Requests : <>[](status[i] \in Terminals) => []<>(Top # Waiting(i))

(* What the comments say, and the code does not keep.                      *)

\* The first route is the gate that "switches between merchant sign-in and the
\* terminal", so "New Transaction" leads back to the amount entry.
HomeStaysFirst == stack[1] = Home
=============================================================================
