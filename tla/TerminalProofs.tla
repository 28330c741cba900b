--------------------------- MODULE TerminalProofs ---------------------------
(***************************************************************************)
(* Theorems of Terminal, for any number of requests and of polls under way:*)
(* the shapes the Navigator's stack can have.                              *)
(***************************************************************************)
EXTENDS Terminal, FiniteSetTheorems, TLAPS

\* The four stacks the merchant can see.
AtHome == stack = <<Home>>
AtWaiting(i) == stack = <<Home, Waiting(i)>>
AtReceipt(i, s) == stack = <<Home, Receipt(i, s)>>
AtLastReceipt(i, s) == stack = <<Receipt(i, s)>>    \* the gate was replaced, see HomeStaysFirst

PollsTyped ==
    /\ opened \in 0 .. MaxRequests
    /\ status \in [Requests -> Statuses \cup {"none"}]
    /\ timer \subseteq mounted /\ mounted \subseteq 1 .. opened
    /\ poll \in [Requests -> [Slots -> Statuses \cup {"free", "sent"}]]
    /\ cancel \in [Requests -> {"no", "sent", "answered", "done"}]
    /\ moves \in 0 .. MaxMoves

\* Only requests that were opened have a status, polls and a Cancel.
OpenedFits ==
    \A i \in Requests :
        /\ i <= opened => status[i] # "none"
        /\ i > opened => cancel[i] = "no" /\ \A s \in Slots : poll[i][s] = "free"

\* At most one State is mounted, the last request's; while it leaves, the stack
\* is what its answers have made of it: a Cancel pops once, and an answered
\* poll replaces whatever is on top.
StackFits ==
    /\ \/ AtHome
       \/ \E i \in Requests : AtWaiting(i) /\ i \in mounted /\ cancel[i] # "done"
       \/ \E i \in Requests, s \in Outcomes : AtReceipt(i, s)
       \/ \E i \in Requests, s \in Outcomes : AtLastReceipt(i, s)
    /\ \A i, j \in mounted : i = j
    /\ Len(stack) = 1 => \A i \in mounted : cancel[i] = "done"
    /\ \A i \in Requests : AtWaiting(i) /\ cancel[i] = "no" => i \in timer

TerminalInv == PollsTyped /\ OpenedFits /\ StackFits

(* ------------------------ stacks of one or two routes ------------------ *)

LEMMA ShortSequences ==
  ASSUME NEW S, NEW a \in S, NEW b \in S
  PROVE  /\ SubSeq(<<a>>, 1, 0) = <<>> /\ SubSeq(<<a>>, 1, 1) = <<a>>
         /\ SubSeq(<<a, b>>, 1, 1) = <<a>>
         /\ Append(<<>>, b) = <<b>> /\ Append(<<a>>, b) = <<a, b>>
  <1>1. ASSUME NEW s \in Seq(S), Len(s) = 1, s[1] = a PROVE s = <<a>>
    BY <1>1
  <1>2. ASSUME NEW s \in Seq(S), Len(s) = 2, s[1] = a, s[2] = b PROVE s = <<a, b>>
    BY <1>2
  <1>3. SubSeq(<<a>>, 1, 1) = <<a>> /\ SubSeq(<<a, b>>, 1, 1) = <<a>>
    <2>1. SubSeq(<<a>>, 1, 1) \in Seq(S) /\ Len(SubSeq(<<a>>, 1, 1)) = 1 /\ SubSeq(<<a>>, 1, 1)[1] = a
      OBVIOUS
    <2>2. SubSeq(<<a, b>>, 1, 1) \in Seq(S) /\ Len(SubSeq(<<a, b>>, 1, 1)) = 1 /\ SubSeq(<<a, b>>, 1, 1)[1] = a
      OBVIOUS
    <2> QED BY <1>1, <2>1, <2>2
  <1>4. Append(<<a>>, b) = <<a, b>>
    <2>1. Append(<<a>>, b) \in Seq(S) /\ Len(Append(<<a>>, b)) = 2 /\ Append(<<a>>, b)[1] = a
          /\ Append(<<a>>, b)[2] = b
      OBVIOUS
    <2> QED BY <1>2, <2>1
  <1> QED BY <1>3, <1>4

LEMMA OneRoute ==
  ASSUME NEW a, NEW b, stack = <<a>>
  PROVE  /\ Top = a /\ Pop = <<>> /\ Replaced(b) = <<b>> /\ Append(stack, b) = <<a, b>>
         /\ SubSeq(stack, 1, 1) = <<a>> /\ Len(stack) = 1
         /\ OnStack(b) <=> b = a
  <1>1. Len(stack) = 1 /\ DOMAIN stack = {1} /\ stack[1] = a
    OBVIOUS
  <1>2. Pop = <<>>
    BY ONLY <1>1, stack = <<a>>, ShortSequences, a \in {a, b} DEF Pop
  <1>3. OnStack(b) <=> b = a
    BY <1>1 DEF OnStack
  <1>4. a \in {a, b} /\ b \in {a, b}
    OBVIOUS
  <1>5. Append(stack, b) = <<a, b>> /\ SubSeq(stack, 1, 1) = <<a>> /\ Append(<<>>, b) = <<b>>
    BY <1>4, ShortSequences
  <1> QED BY <1>1, <1>2, <1>3, <1>5 DEF Top, Replaced

LEMMA TwoRoutes ==
  ASSUME NEW a, NEW b, NEW c, stack = <<a, b>>
  PROVE  /\ Top = b /\ Pop = <<a>> /\ Replaced(c) = <<a, c>>
         /\ SubSeq(stack, 1, 1) = <<a>> /\ Len(stack) = 2
         /\ OnStack(c) <=> c = a \/ c = b
  <1>1. Len(stack) = 2 /\ DOMAIN stack = {1, 2} /\ stack[1] = a /\ stack[2] = b
    OBVIOUS
  <1>2. a \in {a, b, c} /\ b \in {a, b, c} /\ c \in {a, b, c}
    OBVIOUS
  <1>3. SubSeq(stack, 1, 1) = <<a>> /\ Append(<<a>>, c) = <<a, c>>
    BY <1>2, ShortSequences
  <1>4. Pop = <<a>>
    BY <1>1, <1>3 DEF Pop
  <1>5. OnStack(c) <=> c = a \/ c = b
    BY <1>1 DEF OnStack
  <1> QED BY <1>1, <1>3, <1>4, <1>5 DEF Top, Replaced

LEMMA RoutesDiffer ==
  /\ \A i : Home # Waiting(i) /\ \A j : Waiting(i) = Waiting(j) => i = j
  /\ \A i, s : Home # Receipt(i, s) /\ \A j : Waiting(j) # Receipt(i, s)
  /\ Home.screen = "amount entry"
  /\ \A i, s : Receipt(i, s).screen = "receipt" /\ Waiting(i).screen = "waiting"
  <1>1. \A i : Waiting(i).screen = "waiting" /\ Waiting(i).request = i
    BY DEF Waiting
  <1>2. Home.screen = "amount entry"
    BY DEF Home
  <1>3. \A i, s : Receipt(i, s).screen = "receipt"
    BY DEF Receipt
  <1> QED
    <2>1. \A i, j : Waiting(i) = Waiting(j) => i = j
      BY <1>1
    <2>2. \A i, s : Home # Receipt(i, s) /\ Home # Waiting(i) /\ \A j : Waiting(j) # Receipt(i, s)
      BY <1>1, <1>2, <1>3
    <2> QED BY <1>1, <1>2, <1>3, <2>1, <2>2

\* What each of the four stacks tells.
LEMMA HomeShape ==
  ASSUME AtHome
  PROVE  /\ Top = Home /\ Len(stack) = 1
         /\ \A i : /\ ~OnStack(Waiting(i)) /\ ~AtWaiting(i)
                   /\ Append(stack, Waiting(i)) = <<Home, Waiting(i)>>
         /\ \A i, s : Replaced(Receipt(i, s)) = <<Receipt(i, s)>>
  <1>1. stack = <<Home>>
    BY DEF AtHome
  <1>2. ASSUME NEW b PROVE /\ Top = Home /\ Len(stack) = 1 /\ Replaced(b) = <<b>> /\ Append(stack, b) = <<Home, b>>
                           /\ OnStack(b) <=> b = Home
    BY <1>1, OneRoute
  <1>3. ASSUME NEW i PROVE ~AtWaiting(i)
    <2>1. Len(<<Home, Waiting(i)>>) = 2 /\ Len(stack) = 1
      BY <1>2
    <2> QED BY <2>1 DEF AtWaiting
  <1> QED BY <1>2, <1>3, RoutesDiffer

LEMMA WaitingShape ==
  ASSUME NEW k, AtWaiting(k)
  PROVE  /\ Top = Waiting(k) /\ Len(stack) = 2 /\ Pop = <<Home>>
         /\ \A i : /\ OnStack(Waiting(i)) <=> i = k
                   /\ AtWaiting(i) <=> i = k
         /\ \A i, s : Replaced(Receipt(i, s)) = <<Home, Receipt(i, s)>>
  <1>1. stack = <<Home, Waiting(k)>>
    BY DEF AtWaiting
  <1>2. ASSUME NEW c PROVE /\ Top = Waiting(k) /\ Len(stack) = 2 /\ Pop = <<Home>>
                           /\ Replaced(c) = <<Home, c>>
                           /\ OnStack(c) <=> c = Home \/ c = Waiting(k)
    BY <1>1, TwoRoutes
  <1>3. ASSUME NEW i, AtWaiting(i) PROVE i = k
    <2>1. <<Home, Waiting(i)>>[2] = Waiting(i) /\ <<Home, Waiting(k)>>[2] = Waiting(k)
      OBVIOUS
    <2> QED BY <1>1, <1>3, <2>1, RoutesDiffer DEF AtWaiting
  <1>4. \A i, s : Replaced(Receipt(i, s)) = <<Home, Receipt(i, s)>>
    BY <1>2
  <1>5. ASSUME NEW i PROVE OnStack(Waiting(i)) <=> i = k
    <2>1. OnStack(Waiting(i)) <=> Waiting(i) = Home \/ Waiting(i) = Waiting(k)
      BY <1>2
    <2> QED BY <2>1, RoutesDiffer
  <1>6. \A i : AtWaiting(i) <=> i = k
    BY <1>1, <1>3 DEF AtWaiting
  <1> QED BY <1>2, <1>4, <1>5, <1>6

LEMMA ReceiptShape ==
  ASSUME NEW k, NEW r, AtReceipt(k, r)
  PROVE  /\ Top = Receipt(k, r) /\ Len(stack) = 2 /\ Pop = <<Home>> /\ SubSeq(stack, 1, 1) = <<Home>>
         /\ \A i : ~OnStack(Waiting(i)) /\ ~AtWaiting(i)
         /\ \A i, s : Replaced(Receipt(i, s)) = <<Home, Receipt(i, s)>>
  <1>1. stack = <<Home, Receipt(k, r)>>
    BY DEF AtReceipt
  <1>2. ASSUME NEW c PROVE /\ Top = Receipt(k, r) /\ Len(stack) = 2 /\ Pop = <<Home>>
                           /\ SubSeq(stack, 1, 1) = <<Home>> /\ Replaced(c) = <<Home, c>>
                           /\ OnStack(c) <=> c = Home \/ c = Receipt(k, r)
    BY <1>1, TwoRoutes
  <1>3. ASSUME NEW i PROVE ~OnStack(Waiting(i))
    <2>1. OnStack(Waiting(i)) <=> Waiting(i) = Home \/ Waiting(i) = Receipt(k, r)
      BY <1>2
    <2> QED BY <2>1, RoutesDiffer
  <1>4. ASSUME NEW i PROVE ~AtWaiting(i)
    <2>1. <<Home, Waiting(i)>>[2] = Waiting(i) /\ <<Home, Receipt(k, r)>>[2] = Receipt(k, r)
      OBVIOUS
    <2> QED BY <1>1, <2>1, RoutesDiffer DEF AtWaiting
  <1> QED BY <1>2, <1>3, <1>4

LEMMA LastReceiptShape ==
  ASSUME NEW k, NEW r, AtLastReceipt(k, r)
  PROVE  /\ Top = Receipt(k, r) /\ Len(stack) = 1 /\ SubSeq(stack, 1, 1) = stack
         /\ \A i : ~OnStack(Waiting(i)) /\ ~AtWaiting(i)
         /\ \A i, s : Replaced(Receipt(i, s)) = <<Receipt(i, s)>>
  <1>1. stack = <<Receipt(k, r)>>
    BY DEF AtLastReceipt
  <1>2. ASSUME NEW b PROVE /\ Top = Receipt(k, r) /\ Len(stack) = 1 /\ SubSeq(stack, 1, 1) = stack
                           /\ Replaced(b) = <<b>>
                           /\ OnStack(b) <=> b = Receipt(k, r)
    BY <1>1, OneRoute
  <1>3. ASSUME NEW i PROVE ~AtWaiting(i)
    <2>1. Len(<<Home, Waiting(i)>>) = 2 /\ Len(stack) = 1
      BY <1>2
    <2> QED BY <2>1 DEF AtWaiting
  <1>4. ASSUME NEW i PROVE ~OnStack(Waiting(i))
    <2>1. OnStack(Waiting(i)) <=> Waiting(i) = Receipt(k, r)
      BY <1>2
    <2> QED BY <2>1, RoutesDiffer
  <1> QED BY <1>2, <1>3, <1>4

\* The route on top tells which of the stacks it is.
LEMMA TopTells ==
  ASSUME StackFits
  PROVE  /\ Top = Home => AtHome
         /\ \A i : Top = Waiting(i) \/ OnStack(Waiting(i)) => AtWaiting(i) /\ i \in mounted
         /\ Top.screen = "receipt" => \E i \in Requests, s \in Outcomes : AtReceipt(i, s) \/ AtLastReceipt(i, s)
  <1> DEFINE G == /\ Top = Home => AtHome
                  /\ \A i : Top = Waiting(i) \/ OnStack(Waiting(i)) => AtWaiting(i) /\ i \in mounted
                  /\ Top.screen = "receipt" =>
                        \E i \in Requests, s \in Outcomes : AtReceipt(i, s) \/ AtLastReceipt(i, s)
  <1>1. ASSUME AtHome PROVE G
    BY <1>1, HomeShape, RoutesDiffer
  <1>2. ASSUME NEW k \in mounted, AtWaiting(k) PROVE G
    <2>1. Top = Waiting(k) /\ Top # Home /\ Top.screen # "receipt"
      BY <1>2, WaitingShape, RoutesDiffer
    <2>2. ASSUME NEW i, Top = Waiting(i) \/ OnStack(Waiting(i)) PROVE i = k
      BY <1>2, <2>1, <2>2, WaitingShape, RoutesDiffer
    <2> QED BY <1>2, <2>1, <2>2
  <1>3. ASSUME NEW k \in Requests, NEW r \in Outcomes, AtReceipt(k, r) \/ AtLastReceipt(k, r) PROVE G
    <2>1. Top = Receipt(k, r) /\ \A i : ~OnStack(Waiting(i))
      BY <1>3, ReceiptShape, LastReceiptShape
    <2>2. Top # Home /\ \A i : Top # Waiting(i)
      BY <2>1, RoutesDiffer
    <2> QED BY <1>3, <2>1, <2>2
  <1> QED BY <1>1, <1>2, <1>3 DEF StackFits

LEMMA LengthOfStack == StackFits => Len(stack) \in {1, 2}
  BY HomeShape, WaitingShape, ReceiptShape, LastReceiptShape DEF StackFits

LEMMA StackTyped == StackFits => stack \in Seq(Routes) /\ stack # <<>>
  <1> SUFFICES ASSUME StackFits PROVE stack \in Seq(Routes) /\ stack # <<>>
    OBVIOUS
  <1>1. Home \in Routes /\ \A i \in Requests : Waiting(i) \in Routes /\ \A s \in Outcomes : Receipt(i, s) \in Routes
    BY DEF Routes
  <1>2. \A a, b \in Routes : <<a>> \in Seq(Routes) /\ <<a, b>> \in Seq(Routes)
    OBVIOUS
  <1>3. stack \in Seq(Routes)
    BY <1>1, <1>2 DEF StackFits, AtHome, AtWaiting, AtReceipt, AtLastReceipt
  <1>4. stack # <<>>
    BY LengthOfStack
  <1> QED BY <1>3, <1>4

(* ------------------------- the invariant is kept ----------------------- *)

LEMMA TerminalInit == Init => TerminalInv
  <1> SUFFICES ASSUME Init PROVE TerminalInv
    OBVIOUS
  <1>1. PollsTyped
    BY BoundsAreNaturals DEF Init, PollsTyped, Requests
  <1>2. AtHome /\ mounted = {} /\ \A i \in Requests : cancel[i] = "no"
    BY DEF Init, AtHome
  <1>3. StackFits
    BY <1>2, HomeShape DEF StackFits
  <1>4. OpenedFits
    BY DEF Init, OpenedFits, Requests
  <1> QED BY <1>1, <1>3, <1>4 DEF TerminalInv

LEMMA StepKeepsTypes == TerminalInv /\ [Next]_vars => PollsTyped'
  <1> SUFFICES ASSUME TerminalInv, [Next]_vars PROVE PollsTyped'
    OBVIOUS
  <1> USE DEF TerminalInv, PollsTyped
  <1>0. Requests = 1 .. MaxRequests /\ opened \in Nat
    BY BoundsAreNaturals DEF Requests
  <1>1. CASE RequestPayment
    <2> DEFINE i == opened + 1
    <2>1. /\ opened < MaxRequests /\ opened' = i /\ mounted' = mounted \cup {i} /\ timer' = timer \cup {i}
          /\ status' = [status EXCEPT ![i] = "AUTHENTICATION_PENDING"] /\ UNCHANGED <<poll, cancel, moves>>
      BY <1>1 DEF RequestPayment
    <2>2. i \in 0 .. MaxRequests /\ 1 .. opened \subseteq 1 .. i /\ i \in 1 .. i
      BY <1>0, <2>1, BoundsAreNaturals
    <2>3. status' \in [Requests -> Statuses \cup {"none"}]
      BY <2>1 DEF Statuses
    <2> QED BY <2>1, <2>2, <2>3
  <1>2. CASE NewTransaction
    BY <1>2 DEF NewTransaction
  <1>3. ASSUME NEW i \in Requests, NEW s \in Slots, Poll(i, s) \/ FailPoll(i, s) PROVE PollsTyped'
    <2>1. CASE SendPoll(i, s) \/ ReturnPending(i, s) \/ ReturnTerminal(i, s) \/ FailPoll(i, s)
      <3>1. \E v \in {"sent", "free"} : poll' = [poll EXCEPT ![i][s] = v]
        BY <2>1 DEF SendPoll, ReturnPending, ReturnTerminal, FailPoll
      <3>2. poll' \in [Requests -> [Slots -> Statuses \cup {"free", "sent"}]]
        BY <3>1
      <3> QED BY <2>1, <3>2 DEF SendPoll, ReturnPending, ReturnTerminal, FailPoll
    <2>2. CASE AnswerPoll(i, s)
      <3>1. status[i] \in Statuses
        BY <1>0, <2>2 DEF AnswerPoll, OpenedFits
      <3> QED BY <2>2, <3>1 DEF AnswerPoll
    <2> QED BY <1>3, <2>1, <2>2 DEF Poll
  <1>4. ASSUME NEW i \in Requests,
               Dispose(i) \/ PressCancel(i) \/ AnswerCancel(i) \/ FailCancel(i) \/ LeaveWaiting(i)
        PROVE  PollsTyped'
    <2>1. CASE Dispose(i)
      BY <2>1 DEF Dispose
    <2>2. CASE PressCancel(i)
      BY <2>2 DEF PressCancel
    <2>3. CASE AnswerCancel(i)
      <3>1. "CANCELLED" \in Statuses
        BY OutcomesAreTerminal DEF Statuses
      <3> QED BY <2>3, <3>1 DEF AnswerCancel
    <2>4. CASE FailCancel(i) \/ LeaveWaiting(i)
      BY <2>4 DEF FailCancel, LeaveWaiting
    <2> QED BY <1>4, <2>1, <2>2, <2>3, <2>4
  <1>5. ASSUME NEW i \in Requests, Resolve(i) PROVE PollsTyped'
    <2>1. moves' \in 0 .. MaxMoves
      BY <1>5, BoundsAreNaturals DEF Resolve
    <2> QED BY <1>5, <2>1 DEF Resolve
  <1>6. CASE UNCHANGED vars
    BY <1>6 DEF vars
  <1> QED BY <1>1, <1>2, <1>3, <1>4, <1>5, <1>6 DEF Next

LEMMA StepKeepsOpened == TerminalInv /\ [Next]_vars => OpenedFits'
  <1> SUFFICES ASSUME TerminalInv, [Next]_vars PROVE OpenedFits'
    OBVIOUS
  <1> USE DEF TerminalInv, PollsTyped, OpenedFits
  <1>0. Requests = 1 .. MaxRequests /\ opened \in Nat /\ MaxRequests \in Nat
    BY BoundsAreNaturals DEF Requests
  <1>1. CASE RequestPayment
    BY <1>0, <1>1 DEF RequestPayment
  <1>2. CASE NewTransaction
    BY <1>2 DEF NewTransaction
  <1>3. ASSUME NEW i \in Requests, NEW s \in Slots, Poll(i, s) \/ FailPoll(i, s) PROVE OpenedFits'
    <2>1. CASE i <= opened
      <3>1. UNCHANGED <<opened, status, cancel>> /\ \A k \in Requests \ {i} : poll'[k] = poll[k]
        BY <1>3 DEF Poll, SendPoll, AnswerPoll, ReturnPending, ReturnTerminal, FailPoll
      <3> QED BY <1>0, <2>1, <3>1
    <2>2. CASE i > opened
      <3>1. poll[i][s] = "free" /\ i \notin timer
        BY <1>0, <2>2
      <3>2. "free" \notin Statuses
        BY OutcomesAreTerminal DEF Statuses, Terminals
      <3> QED BY <1>3, <3>1, <3>2 DEF Poll, SendPoll, AnswerPoll, ReturnPending, ReturnTerminal, FailPoll, Arrived
    <2> QED BY <1>0, <2>1, <2>2
  <1>4. ASSUME NEW i \in Requests,
               Dispose(i) \/ PressCancel(i) \/ AnswerCancel(i) \/ FailCancel(i) \/ LeaveWaiting(i)
        PROVE  OpenedFits'
    <2>1. CASE Dispose(i)
      BY <2>1 DEF Dispose
    <2>2. CASE PressCancel(i)
      <3>1. i <= opened
        BY <1>0, <2>2, TopTells DEF PressCancel
      <3> QED BY <1>0, <2>2, <3>1 DEF PressCancel
    <2>3. CASE AnswerCancel(i)
      BY <1>0, <2>3 DEF AnswerCancel
    <2>4. CASE FailCancel(i) \/ LeaveWaiting(i)
      BY <1>0, <2>4 DEF FailCancel, LeaveWaiting
    <2> QED BY <1>4, <2>1, <2>2, <2>3, <2>4
  <1>5. ASSUME NEW i \in Requests, Resolve(i) PROVE OpenedFits'
    <2>1. "none" \notin Statuses
      BY OutcomesAreTerminal DEF Statuses, Terminals
    <2> QED BY <1>0, <1>5, <2>1 DEF Resolve
  <1>6. CASE UNCHANGED vars
    BY <1>6 DEF vars
  <1> QED BY <1>1, <1>2, <1>3, <1>4, <1>5, <1>6 DEF Next

\* The routes are left alone, and at most a timer of a cancelled screen stops.
LEMMA QuietKeepsStack ==
  ASSUME StackFits, UNCHANGED <<stack, mounted, cancel>>, timer' = timer
  PROVE  StackFits'
  BY DEF StackFits, AtHome, AtWaiting, AtReceipt, AtLastReceipt

LEMMA StepKeepsStack == TerminalInv /\ [Next]_vars => StackFits'
  <1> SUFFICES ASSUME TerminalInv, [Next]_vars PROVE StackFits'
    OBVIOUS
  <1>0. /\ StackFits /\ Requests = 1 .. MaxRequests /\ opened \in Nat /\ MaxRequests \in Nat
        /\ mounted \subseteq Requests /\ timer \subseteq mounted
        /\ cancel \in [Requests -> {"no", "sent", "answered", "done"}]
    BY BoundsAreNaturals DEF Requests, TerminalInv, PollsTyped
  <1>1. CASE RequestPayment
    <2>0. PICK i \in Requests : i = opened + 1
      BY <1>0, <1>1 DEF RequestPayment
    <2>1. /\ Top = Home /\ Settled /\ stack' = Append(stack, Waiting(i))
          /\ mounted' = mounted \cup {i} /\ timer' = timer \cup {i} /\ cancel' = cancel
      BY <1>1, <2>0 DEF RequestPayment
    <2>2. AtHome
      BY <1>0, <2>1, TopTells
    <2>3. mounted = {}
      BY <2>1, <2>2, HomeShape DEF Settled
    <2>4. cancel[i] = "no"
      BY <1>0, <2>0 DEF TerminalInv, OpenedFits
    <2>5. (AtWaiting(i))'
      BY <2>1, <2>2, HomeShape DEF AtWaiting
    <2>6. Len(stack') = 2 /\ \A j : (AtWaiting(j))' => j = i
      <3>1. stack' = <<Home, Waiting(i)>>
        BY <2>5 DEF AtWaiting
      <3>2. Len(<<Home, Waiting(i)>>) = 2 /\ \A j : <<Home, Waiting(j)>>[2] = Waiting(j)
        OBVIOUS
      <3> QED BY <3>1, <3>2, RoutesDiffer DEF AtWaiting
    <2> QED BY <2>1, <2>3, <2>4, <2>5, <2>6 DEF StackFits
  <1>2. CASE NewTransaction
    <2>1. /\ Top.screen = "receipt" /\ Settled /\ stack' = SubSeq(stack, 1, 1) /\ stack' # stack
          /\ UNCHANGED <<mounted, timer, cancel>>
      BY <1>2 DEF NewTransaction
    <2>2. PICK i \in Requests, s \in Outcomes : AtReceipt(i, s)
      BY <1>0, <2>1, TopTells, LastReceiptShape
    <2>3. mounted = {}
      BY <2>1, <2>2, ReceiptShape DEF Settled
    <2>4. AtHome'
      BY <2>1, <2>2, ReceiptShape DEF AtHome
    <2>5. \A j : ~(AtWaiting(j))'
      <3>1. Len(<<Home>>) = 1 /\ \A j : Len(<<Home, Waiting(j)>>) = 2
        OBVIOUS
      <3> QED BY <2>4, <3>1 DEF AtHome, AtWaiting
    <2> QED BY <2>1, <2>3, <2>4, <2>5 DEF StackFits
  <1>3. ASSUME NEW i \in Requests, NEW s \in Slots, ReturnTerminal(i, s) PROVE StackFits'
    <2>0. PICK r : r = poll[i][s]
      OBVIOUS
    <2>1. /\ i \in mounted /\ stack' = Replaced(Receipt(i, r)) /\ timer' = timer \ {i}
          /\ UNCHANGED <<mounted, cancel>> /\ r \in Statuses /\ r \in Terminals
      BY <1>3, <2>0 DEF ReturnTerminal, Arrived, IsTerminal
    <2>2. r \in Outcomes
      BY <2>1 DEF Statuses, Terminals
    <2>3. \/ (AtReceipt(i, r))' /\ Len(stack) = 2
          \/ (AtLastReceipt(i, r))' /\ Len(stack) = 1
      BY <1>0, <2>1, HomeShape, WaitingShape, ReceiptShape, LastReceiptShape
         DEF StackFits, AtReceipt, AtLastReceipt
    <2>4. Len(stack') = 1 => Len(stack) = 1
      <3>1. Len(<<Home, Receipt(i, r)>>) = 2
        OBVIOUS
      <3> QED BY <2>3, <3>1 DEF AtReceipt
    <2>5. ASSUME NEW j, (AtWaiting(j))' PROVE FALSE
      <3>1. Len(stack') = 2 /\ stack'[2] = Waiting(j)
        BY <2>5 DEF AtWaiting
      <3>2. Len(<<Receipt(i, r)>>) = 1 /\ <<Home, Receipt(i, r)>>[2] = Receipt(i, r)
        OBVIOUS
      <3>3. stack'[2] = Receipt(i, r)
        BY <2>3, <3>1, <3>2 DEF AtReceipt, AtLastReceipt
      <3> QED BY <3>1, <3>3, RoutesDiffer
    <2> QED BY <1>0, <2>1, <2>2, <2>3, <2>4, <2>5 DEF StackFits
  <1>4. ASSUME NEW i \in Requests, Dispose(i) PROVE StackFits'
    <2>1. /\ ~OnStack(Waiting(i)) /\ mounted' = mounted \ {i} /\ timer' = timer \ {i}
          /\ UNCHANGED <<stack, cancel>>
      BY <1>4 DEF Dispose
    <2>2. ~AtWaiting(i)
      BY <2>1, WaitingShape
    <2> QED BY <1>0, <2>1, <2>2 DEF StackFits, AtHome, AtWaiting, AtReceipt, AtLastReceipt
  <1>5. ASSUME NEW i \in Requests, PressCancel(i) PROVE StackFits'
    <2>1. /\ Top = Waiting(i) /\ cancel' = [cancel EXCEPT ![i] = "sent"] /\ timer' = timer \ {i}
          /\ UNCHANGED <<stack, mounted>>
      BY <1>5 DEF PressCancel
    <2>2. AtWaiting(i) /\ i \in mounted /\ Len(stack) = 2 /\ \A j : AtWaiting(j) => j = i
      BY <1>0, <2>1, TopTells, WaitingShape
    <2>3. (AtWaiting(i))' /\ cancel'[i] = "sent" /\ Len(stack') = 2 /\ \A j : (AtWaiting(j))' => j = i
      BY <1>0, <2>1, <2>2 DEF AtWaiting
    <2> QED BY <1>0, <2>1, <2>2, <2>3 DEF StackFits
  <1>6. ASSUME NEW i \in Requests, AnswerCancel(i) \/ FailCancel(i) PROVE StackFits'
    <2>1. /\ cancel[i] = "sent" /\ cancel' = [cancel EXCEPT ![i] = "answered"]
          /\ UNCHANGED <<stack, mounted, timer>>
      BY <1>6 DEF AnswerCancel, FailCancel
    <2>2. Len(stack) = 1 => i \notin mounted
      BY <2>1, <1>0 DEF StackFits
    <2>3. \A j \in Requests : /\ cancel'[j] = "no" => cancel[j] = "no"
                              /\ cancel[j] # "done" => cancel'[j] # "done"
                              /\ cancel[j] = "done" => cancel'[j] = "done"
      BY <1>0, <2>1
    <2> QED BY <1>0, <2>1, <2>2, <2>3 DEF StackFits, AtHome, AtWaiting, AtReceipt, AtLastReceipt
  <1>7. ASSUME NEW i \in Requests, LeaveWaiting(i) PROVE StackFits'
    <2>1. /\ cancel[i] = "answered" /\ cancel' = [cancel EXCEPT ![i] = "done"]
          /\ stack' = IF i \in mounted THEN Pop ELSE stack
          /\ UNCHANGED <<mounted, timer>>
      BY <1>7 DEF LeaveWaiting
    <2>2. cancel'[i] = "done" /\ \A j \in Requests \ {i} : cancel'[j] = cancel[j]
      BY <1>0, <2>1
    <2>3. CASE i \in mounted
      <3>1. Len(stack) # 1
        BY <1>0, <2>1, <2>3 DEF StackFits
      <3>2. AtHome'
        BY <1>0, <2>1, <2>3, <3>1, HomeShape, WaitingShape, ReceiptShape, LastReceiptShape DEF StackFits, AtHome
      <3>3. \A j \in mounted : j = i
        BY <1>0, <2>3 DEF StackFits
      <3>4. \A j : ~(AtWaiting(j))'
        <4>1. Len(<<Home>>) = 1 /\ \A j : Len(<<Home, Waiting(j)>>) = 2
          OBVIOUS
        <4> QED BY <3>2, <4>1 DEF AtHome, AtWaiting
      <3> QED BY <2>1, <2>2, <3>2, <3>3, <3>4 DEF StackFits
    <2>4. CASE i \notin mounted
      BY <1>0, <2>1, <2>2, <2>4 DEF StackFits, AtHome, AtWaiting, AtReceipt, AtLastReceipt
    <2> QED BY <2>3, <2>4
  <1>8. ASSUME NEW i \in Requests, Resolve(i) \/ \E s \in Slots : (Poll(i, s) /\ ~ReturnTerminal(i, s)) \/ FailPoll(i, s)
        PROVE  StackFits'
    <2>1. UNCHANGED <<stack, mounted, cancel, timer>>
      BY <1>8 DEF Resolve, Poll, SendPoll, AnswerPoll, ReturnPending, FailPoll
    <2> QED BY <1>0, <2>1, QuietKeepsStack
  <1>9. CASE UNCHANGED vars
    BY <1>0, <1>9, QuietKeepsStack DEF vars
  <1> QED BY <1>1, <1>2, <1>3, <1>4, <1>5, <1>6, <1>7, <1>8, <1>9 DEF Next, Poll

(* ------------------------------ the theorems --------------------------- *)

THEOREM TerminalInvariant == Spec => []TerminalInv
  <1>1. TerminalInv /\ [Next]_vars => TerminalInv'
    BY StepKeepsTypes, StepKeepsOpened, StepKeepsStack DEF TerminalInv
  <1> QED BY <1>1, TerminalInit, PTL DEF Spec

\* The variables of Terminal keep their types; above all the Navigator is never
\* left without a route, whatever polls and Cancels pop and replace.
THEOREM TerminalTypeCorrect == Spec => []TypeOK
  <1>1. TerminalInv => TypeOK
    BY StackTyped DEF TerminalInv, PollsTyped, TypeOK
  <1> QED BY <1>1, TerminalInvariant, PTL

\* However many polls of the waiting screen end at once and race its Cancel, the
\* merchant never has two results, or a result and a waiting screen, to leave
\* (waiting_screen.dart).
THEOREM OneResult == Spec => []OneResultAtATime
  <1> DEFINE Results == {n \in DOMAIN stack : stack[n].screen # "amount entry"}
  <1>1. TerminalInv => OneResultAtATime
    <2> SUFFICES ASSUME StackFits PROVE Cardinality(Results) <= 1
      BY DEF TerminalInv, OneResultAtATime
    <2>1. Results \subseteq {Len(stack)}
      <3>1. CASE Len(stack) = 1
        <4>1. DOMAIN stack = {1}
          BY <3>1 DEF StackFits, AtHome, AtWaiting, AtReceipt, AtLastReceipt
        <4> QED BY <3>1, <4>1
      <3>2. CASE Len(stack) = 2
        <4>1. DOMAIN stack = {1, 2} /\ stack[1] = Home
          BY <3>2 DEF StackFits, AtHome, AtWaiting, AtReceipt, AtLastReceipt
        <4> QED BY <3>2, <4>1, RoutesDiffer
      <3> QED BY <3>1, <3>2, LengthOfStack
    <2>2. Cardinality({Len(stack)}) = 1 /\ IsFiniteSet({Len(stack)})
      BY FS_Singleton
    <2>3. Cardinality(Results) <= Cardinality({Len(stack)})
      BY <2>1, <2>2, FS_Subset
    <2> QED BY <2>2, <2>3
  <1> QED BY <1>1, TerminalInvariant, PTL

\* A waiting screen that was not cancelled has its timer running: no answer of an
\* earlier poll stops it.
THEOREM PollingGoesOn == Spec => []WaitingKeepsPolling
  <1>1. TerminalInv => WaitingKeepsPolling
    BY TopTells DEF TerminalInv, StackFits, WaitingKeepsPolling
  <1> QED BY <1>1, TerminalInvariant, PTL

\* The State that is mounted is the last request's: nobody opens a request while
\* an earlier screen is leaving (Settled).
LastShown == mounted \subseteq {opened} /\ NoStaleResult

LEMMA StepKeepsLast == TerminalInv /\ LastShown /\ [Next]_vars => LastShown'
  <1> SUFFICES ASSUME TerminalInv, LastShown, [Next]_vars PROVE LastShown'
    OBVIOUS
  <1>0. StackFits /\ stack \in Seq(Routes) /\ stack # <<>>
    BY StackTyped DEF TerminalInv
  <1> DEFINE Shown(q) == \A n \in DOMAIN q : q[n].request \in {0, opened}
  <1>1. /\ mounted \subseteq {opened} /\ Shown(stack)
        /\ Shown(Pop) /\ Pop \in Seq(Routes) /\ Shown(SubSeq(stack, 1, 1))
    <2>1. /\ Pop \in Seq(Routes) /\ \A n \in DOMAIN Pop : n \in DOMAIN stack /\ Pop[n] = stack[n]
          /\ \A n \in DOMAIN SubSeq(stack, 1, 1) : n \in DOMAIN stack /\ SubSeq(stack, 1, 1)[n] = stack[n]
      BY <1>0 DEF Pop
    <2> QED BY <2>1 DEF LastShown, NoStaleResult
  <1>2. CASE RequestPayment
    <2> DEFINE i == opened + 1
    <2>1. /\ Top = Home /\ Settled /\ opened' = i /\ stack' = Append(stack, Waiting(i))
          /\ mounted' = mounted \cup {i}
      BY <1>2 DEF RequestPayment
    <2>2. AtHome /\ mounted = {}
      BY <1>0, <2>1, TopTells, HomeShape DEF Settled
    <2>3. stack' = <<Home, Waiting(i)>>
      BY <2>1, <2>2, HomeShape
    <2>4. <<Home, Waiting(i)>>[1].request = 0 /\ <<Home, Waiting(i)>>[2].request = i
      BY DEF Home, Waiting
    <2>5. DOMAIN <<Home, Waiting(i)>> = {1, 2}
      OBVIOUS
    <2> HIDE DEF i
    <2> QED BY <2>1, <2>2, <2>3, <2>4, <2>5 DEF LastShown, NoStaleResult
  <1>3. CASE NewTransaction
    BY <1>1, <1>3 DEF NewTransaction, LastShown, NoStaleResult
  <1>4. ASSUME NEW i \in Requests, NEW s \in Slots, ReturnTerminal(i, s) PROVE LastShown'
    <2> DEFINE route == Receipt(i, poll[i][s])
    <2>1. /\ i \in mounted /\ stack' = Append(Pop, route) /\ UNCHANGED <<opened, mounted>>
      BY <1>4 DEF ReturnTerminal, Replaced
    <2>2. route.request = opened
      BY <1>1, <2>1 DEF Receipt
    <2> HIDE DEF route
    <2>3. \A n \in DOMAIN Append(Pop, route) :
             \/ Append(Pop, route)[n] = route
             \/ n \in DOMAIN Pop /\ Append(Pop, route)[n] = Pop[n]
      BY <1>1
    <2> QED BY <1>1, <2>1, <2>2, <2>3 DEF LastShown, NoStaleResult
  <1>5. ASSUME NEW i \in Requests, LeaveWaiting(i) PROVE LastShown'
    BY <1>1, <1>5 DEF LeaveWaiting, LastShown, NoStaleResult
  <1>6. ASSUME NEW i \in Requests, Dispose(i) PROVE LastShown'
    BY <1>1, <1>6 DEF Dispose, LastShown, NoStaleResult
  <1>7. ASSUME NEW i \in Requests,
               \/ PressCancel(i) \/ AnswerCancel(i) \/ FailCancel(i) \/ Resolve(i)
               \/ \E s \in Slots : (Poll(i, s) /\ ~ReturnTerminal(i, s)) \/ FailPoll(i, s)
        PROVE  LastShown'
    <2>1. UNCHANGED <<opened, stack, mounted>>
      BY <1>7 DEF PressCancel, AnswerCancel, FailCancel, Resolve, Poll, SendPoll, AnswerPoll,
         ReturnPending, FailPoll
    <2> QED BY <2>1 DEF LastShown, NoStaleResult
  <1>8. CASE UNCHANGED vars
    BY <1>8 DEF LastShown, NoStaleResult, vars
  <1> QED BY <1>2, <1>3, <1>4, <1>5, <1>6, <1>7, <1>8 DEF Next, Poll

\* A poll that is answered late never brings back a request the merchant left:
\* after its await the State asks whether it is still mounted, and it is mounted
\* only while its request is the last one (waiting_screen.dart, _poll).
THEOREM NothingStale == Spec => []NoStaleResult
  <1>1. Init => LastShown
    <2> SUFFICES ASSUME Init PROVE LastShown
      OBVIOUS
    <2>1. stack = <<Home>> /\ mounted = {}
      BY DEF Init
    <2>2. DOMAIN stack = {1} /\ stack[1] = Home
      BY <2>1
    <2>3. Home.request = 0
      BY DEF Home
    <2> QED BY <2>1, <2>2, <2>3 DEF LastShown, NoStaleResult
  <1>2. LastShown => NoStaleResult
    BY DEF LastShown
  <1> QED BY TerminalInvariant, StepKeepsLast, <1>1, <1>2, PTL DEF Spec

=============================================================================
