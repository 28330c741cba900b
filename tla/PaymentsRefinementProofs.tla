---------------------- MODULE PaymentsRefinementProofs ----------------------
(***************************************************************************)
(* The theorem that Payments implements Purchase.  Every step leaves what  *)
(* the customers were told and charged alone, or changes it for one key:   *)
(* the commit of a new row decides a purchase, the customer's answer to a  *)
(* recorded prompt answers it, and the first callback of it settles it.    *)
(***************************************************************************)
EXTENDS PaymentsTruthProofs, PaymentsRefinement

\* A key whose row, origin and live calls stay is no other purchase.
LEMMA PurchaseStays ==
  ASSUME NEW l \in Keys, row'[l] = row[l], openedBy'[l] = openedBy[l],
         \A r \in Refs : r \in LiveCalls(l)' <=> r \in LiveCalls(l),
         \A r \in LiveCalls(l) : ledger'[r].outcome = ledger[r].outcome
  PROVE  ToldOf'[l] = ToldOf[l] /\ ChargeOf'[l] = ChargeOf[l]
  <1>1. LiveCalls(l)' = LiveCalls(l)
    BY DEF LiveCalls
  <1>2. LiveCalls(l) # {} => LiveCall(l) \in LiveCalls(l)
    BY DEF LiveCall
  <1>3. LiveCall(l)' = LiveCall(l)
    BY <1>1 DEF LiveCall
  <1>4. ToldOf'[l] = ToldOf[l]
    BY DEF ToldOf
  <1>5. ChargeOf'[l] = ChargeOf[l]
    BY <1>1, <1>2, <1>3 DEF ChargeOf
  <1> QED BY <1>4, <1>5

\* A key no customer opened is no purchase.
LEMMA NoPurchase ==
  ASSUME NEW l \in Keys, openedBy[l] # "customer"
  PROVE  ToldOf[l] = "none" /\ ChargeOf[l] = "no"
  BY DEF ToldOf, ChargeOf

\* The charge of a customer's key is its live call, which is unique.
LEMMA ChargeIsLiveCall ==
  ASSUME TruthInv, NEW k \in Keys, openedBy[k] = "customer", NEW r \in LiveCalls(k)
  PROVE  ChargeOf[k] = Charged[ledger[r].outcome]
  <1>1. \A s \in LiveCalls(k) : s = r
    BY DEF LiveCalls, Charged, TruthInv, OnceInv, CustomerPaymentRoutedOnce
  <1>2. LiveCall(k) \in LiveCalls(k)
    BY DEF LiveCall
  <1> QED BY <1>1, <1>2 DEF ChargeOf

\* Every key but k stays: the step is one of k's purchase.
LEMMA OneKeyChanges ==
  ASSUME NEW k \in Keys, NEW told, NEW charged,
         ToldOf'[k] = told, ChargeOf'[k] = charged,
         \A l \in Keys \ {k} : ToldOf'[l] = ToldOf[l] /\ ChargeOf'[l] = ChargeOf[l]
  PROVE  /\ ToldOf' = [ToldOf EXCEPT ![k] = told]
         /\ ChargeOf' = [ChargeOf EXCEPT ![k] = charged]
  <1>1. /\ ToldOf \in [Keys -> {ToldOf[l] : l \in Keys}] /\ DOMAIN ToldOf = Keys
        /\ ToldOf' = [l \in Keys |-> ToldOf'[l]]
    BY DEF ToldOf
  <1>2. /\ ChargeOf = [l \in Keys |-> ChargeOf[l]] /\ DOMAIN ChargeOf = Keys
        /\ ChargeOf' = [l \in Keys |-> ChargeOf'[l]]
    BY DEF ChargeOf
  <1>3. ToldOf = [l \in Keys |-> ToldOf[l]]
    BY DEF ToldOf
  <1> QED BY <1>1, <1>2, <1>3

Stutters == ToldOf' = ToldOf /\ ChargeOf' = ChargeOf

LEMMA AllKeysStay ==
  ASSUME \A l \in Keys : ToldOf'[l] = ToldOf[l] /\ ChargeOf'[l] = ChargeOf[l]
  PROVE  Stutters
  <1>1. ToldOf = [l \in Keys |-> ToldOf[l]] /\ ToldOf' = [l \in Keys |-> ToldOf'[l]]
    BY DEF ToldOf
  <1>2. ChargeOf = [l \in Keys |-> ChargeOf[l]] /\ ChargeOf' = [l \in Keys |-> ChargeOf'[l]]
    BY DEF ChargeOf
  <1> QED BY <1>1, <1>2 DEF Stutters

\* Steps that change no table and no recorded call.
LEMMA TablesStayStutters ==
  ASSUME UNCHANGED <<row, openedBy, attempt>>,
         \A r \in Refs : attempt[r] # "NONE" =>
            ledger'[r].outcome = ledger[r].outcome /\ ledger'[r].key = ledger[r].key
  PROVE  Stutters
  <1> SUFFICES ASSUME NEW l \in Keys PROVE ToldOf'[l] = ToldOf[l] /\ ChargeOf'[l] = ChargeOf[l]
    BY AllKeysStay
  <1>1. \A r \in Refs : r \in LiveCalls(l)' <=> r \in LiveCalls(l)
    BY DEF LiveCalls
  <1>2. \A r \in LiveCalls(l) : ledger'[r].outcome = ledger[r].outcome
    BY DEF LiveCalls
  <1> QED BY <1>1, <1>2, PurchaseStays

LEMMA RefinementInit == Init => Promise!Init
  <1> SUFFICES ASSUME Init PROVE Promise!Init
    OBVIOUS
  <1>1. \A l \in Keys : ToldOf[l] = "none" /\ ChargeOf[l] = "no"
    BY NoPurchase DEF Init
  <1>2. ToldOf = [l \in Keys |-> "none"]
    BY <1>1 DEF ToldOf
  <1>3. ChargeOf = [l \in Keys |-> "no"]
    BY <1>1 DEF ChargeOf
  <1> QED BY <1>2, <1>3 DEF Promise!Init

\* A write to the row of a merchant's request, or to its attempts and calls, is
\* no step of a purchase.
LEMMA MerchantStutters ==
  ASSUME TruthInv, NEW k \in Keys, openedBy[k] # "customer", openedBy'[k] # "customer",
         \A l \in Keys \ {k} : row'[l] = row[l] /\ openedBy'[l] = openedBy[l],
         \A r \in Refs : \/ attempt'[r] = attempt[r] /\ ledger'[r].key = ledger[r].key
                            /\ ledger'[r].outcome = ledger[r].outcome
                         \/ ledger[r].key = k /\ ledger'[r].key = k
  PROVE  Stutters
  <1> SUFFICES ASSUME NEW l \in Keys PROVE ToldOf'[l] = ToldOf[l] /\ ChargeOf'[l] = ChargeOf[l]
    BY AllKeysStay
  <1>1. CASE l = k
    <2>1. (openedBy[k] # "customer")' => (ToldOf[k] = "none" /\ ChargeOf[k] = "no")'
      BY DEF ToldOf, ChargeOf
    <2> QED BY <1>1, <2>1, NoPurchase
  <1>2. CASE l # k
    <2>1. \A r \in Refs : r \in LiveCalls(l)' <=> r \in LiveCalls(l)
      BY <1>2 DEF LiveCalls
    <2>2. \A r \in LiveCalls(l) : ledger'[r].outcome = ledger[r].outcome
      BY <1>2 DEF LiveCalls
    <2> QED BY <1>2, <2>1, <2>2, PurchaseStays
  <1> QED BY <1>1, <1>2

\* The callback of a customer's row settles its purchase, or repeats what it is.
LEMMA SettleRefines ==
  ASSUME TruthInv, TruthInv', NEW h \in Handlers, Settle(h)
  PROVE  Stutters \/ \E k \in Keys : Promise!Settle(k)
  <1>0. PICK k \in Keys, r \in Refs : k = job[h].key /\ r = job[h].ref
    BY DEF Settle, TruthInv, OnceInv, LockInv, JobsAreSet
  <1>1. /\ attempt[r] # "NONE" /\ ledger[r].key = k
        /\ ledger[r].outcome \in {"charged", "refused"}
    BY <1>0 DEF Settle, TruthInv, LateWritesAreDue, OnceInv, RequestsAgree
  <1>2. /\ openedBy' = openedBy
        /\ \A l \in Keys \ {k} : row'[l] = row[l]
        /\ row'[k].status = IF Paid(r) THEN "COMPLETED" ELSE "DECLINED"
        /\ attempt'[r] = IF Paid(r) THEN "SUCCESS" ELSE "DECLINED"
        /\ \A s \in Refs \ {r} : attempt'[s] = attempt[s]
        /\ \A s \in Refs : ledger'[s].key = ledger[s].key /\ ledger'[s].outcome = ledger[s].outcome
    <2>1. openedBy' = openedBy
      BY DEF Settle
    <2>2. /\ row'[k].status = IF Paid(r) THEN "COMPLETED" ELSE "DECLINED"
          /\ \A l \in Keys \ {k} : row'[l] = row[l]
      <3>1. row[k] \in Rows /\ row \in [Keys -> Rows]
        BY DEF TruthInv, OnceInv, LockInv, TypeOK
      <3> QED BY <1>0, <3>1 DEF Settle, Rows
    <2>3. /\ attempt'[r] = IF Paid(r) THEN "SUCCESS" ELSE "DECLINED"
          /\ \A s \in Refs \ {r} : attempt'[s] = attempt[s]
      BY <1>0 DEF Settle, TruthInv, OnceInv, LockInv, TypeOK
    <2>4. \A s \in Refs : ledger'[s].key = ledger[s].key /\ ledger'[s].outcome = ledger[s].outcome
      BY <1>0 DEF Settle, TruthInv, OnceInv, LockInv, TypeOK, Calls
    <2> QED BY <2>1, <2>2, <2>3, <2>4
  <1>3. CASE openedBy[k] # "customer"
    BY <1>1, <1>2, <1>3, MerchantStutters
  <1>4. CASE openedBy[k] = "customer"
    <2>3. \A l \in Keys, s \in Refs : s \in LiveCalls(l)' <=> s \in LiveCalls(l)
      BY <1>1, <1>2 DEF LiveCalls
    <2>4. \A l \in Keys \ {k} : ToldOf'[l] = ToldOf[l] /\ ChargeOf'[l] = ChargeOf[l]
      BY <1>2, <2>3, PurchaseStays DEF LiveCalls
    <2>5. r \in LiveCalls(k) /\ (r \in LiveCalls(k))'
      BY <1>1, <2>3 DEF LiveCalls, Charged
    <2>6. ChargeOf[k] = Charged[ledger[r].outcome]
      BY <1>1, <1>4, <2>5, ChargeIsLiveCall
    <2>7. ChargeOf'[k] = ChargeOf[k]
      <3>1. LiveCalls(k)' = LiveCalls(k)
        BY <1>1, <2>3 DEF LiveCalls
      <3>2. LiveCall(k)' = LiveCall(k) /\ LiveCall(k) \in LiveCalls(k)
        BY <2>5, <3>1 DEF LiveCall
      <3> QED BY <1>1, <1>2, <3>1, <3>2 DEF ChargeOf, LiveCalls
    <2>8. CASE row[k].status = "AUTHORIZATION_PENDING"
      <3>1. ToldOf[k] = "waiting"
        BY <1>1, <1>4, <2>8 DEF ToldOf, Told
      <3>2. ToldOf'[k] = IF Paid(r) THEN "paid" ELSE "unpaid"
        BY <1>2, <1>4 DEF ToldOf, Told
      <3>3. ChargeOf[k] = IF Paid(r) THEN "taken" ELSE "refused"
        BY <1>1, <2>6 DEF Paid, Charged
      <3>4. ToldOf' = [ToldOf EXCEPT ![k] = IF Paid(r) THEN "paid" ELSE "unpaid"]
        BY <1>1, <2>4, <2>7, <3>2, OneKeyChanges
      <3>5. ChargeOf' = ChargeOf
        <4>1. ChargeOf = [l \in Keys |-> ChargeOf[l]] /\ ChargeOf' = [l \in Keys |-> ChargeOf'[l]]
          BY DEF ChargeOf
        <4> QED BY <2>4, <2>7, <4>1
      <3> QED BY <1>1, <3>1, <3>3, <3>4, <3>5 DEF Promise!Settle
    <2>9. CASE row[k].status # "AUTHORIZATION_PENDING"
      <3>1. row[k].status \in Resolved
        BY <1>1, <1>4, <2>9 DEF TruthInv, TablesTrue, CustomerRowShowsCall, Resolved
      <3>2. [Next]_vars
        BY DEF Next, Lock
      <3>3. row'[k] = row[k]
        BY <1>1, <1>4, <3>1, <3>2, FinalStep
      <3>4. ToldOf'[k] = ToldOf[k]
        BY <1>1, <1>2, <3>3 DEF ToldOf
      <3> QED BY <2>4, <2>7, <3>4, AllKeysStay
    <2> QED BY <2>8, <2>9
  <1> QED BY <1>3, <1>4

\* The customer's answer to a recorded prompt answers the purchase.
LEMMA AnswerRefines ==
  ASSUME TruthInv, TruthInv', NEW r \in Refs, CustomerAnswers(r)
  PROVE  \/ Stutters
         \/ \E k \in Keys, charged \in {"taken", "refused"} : Promise!Answer(k, charged)
  <1>0. PICK k \in Keys : k = ledger[r].key
    BY DEF CustomerAnswers, TruthInv, OnceInv, LockInv, CallsHaveKeys
  <1>1. /\ ledger[r].outcome = "prompted" /\ ledger'[r].outcome \in {"charged", "refused"}
        /\ ledger[r].key = k /\ ledger'[r].key = k /\ \A s \in Refs \ {r} : ledger'[s] = ledger[s]
        /\ UNCHANGED <<row, openedBy, attempt>>
    BY <1>0 DEF CustomerAnswers, TruthInv, OnceInv, LockInv, TypeOK, Calls
  <1>2. CASE attempt[r] = "NONE"
    BY <1>1, <1>2, TablesStayStutters
  <1>3. CASE openedBy[k] # "customer"
    BY <1>1, <1>3, MerchantStutters
  <1>4. CASE attempt[r] # "NONE" /\ openedBy[k] = "customer"
    <2>1. r \in LiveCalls(k) /\ (r \in LiveCalls(k))'
      BY <1>1, <1>4 DEF LiveCalls, Charged
    <2>2. ChargeOf[k] = "asked"
      BY <1>1, <1>4, <2>1, ChargeIsLiveCall DEF Charged
    <2>3. ChargeOf'[k] = Charged[ledger'[r].outcome]
      <3>1. LiveCalls(k)' = LiveCalls(k)
        BY <1>1 DEF LiveCalls, Charged
      <3>2. LiveCall(k)' = LiveCall(k) /\ LiveCall(k) \in LiveCalls(k)
        BY <2>1, <3>1 DEF LiveCall
      <3>3. LiveCall(k) = r
        BY <1>4, <2>1, <3>2 DEF LiveCalls, Charged, TruthInv, OnceInv, CustomerPaymentRoutedOnce
      <3> QED BY <1>1, <1>4, <2>1, <3>1, <3>2, <3>3 DEF ChargeOf
    <2>4. PICK charged \in {"taken", "refused"} : ChargeOf'[k] = charged
      BY <1>1, <2>3 DEF Charged
    <2>5. \A l \in Keys \ {k} : ToldOf'[l] = ToldOf[l] /\ ChargeOf'[l] = ChargeOf[l]
      <3> TAKE l \in Keys \ {k}
      <3>1. \A s \in Refs : s \in LiveCalls(l)' <=> s \in LiveCalls(l)
        BY <1>1 DEF LiveCalls
      <3>2. \A s \in LiveCalls(l) : ledger'[s].outcome = ledger[s].outcome
        BY <1>1 DEF LiveCalls
      <3> QED BY <1>1, <3>1, <3>2, PurchaseStays
    <2>6. ToldOf' = ToldOf
      BY <1>1 DEF ToldOf
    <2>7. ChargeOf' = [ChargeOf EXCEPT ![k] = charged]
      BY <1>1, <2>4, <2>5, OneKeyChanges
    <2> QED BY <1>1, <2>2, <2>6, <2>7 DEF Promise!Answer
  <1> QED BY <1>2, <1>3, <1>4

\* The commit of a routing decides the purchase of a new row.
LEMMA CommitRefines ==
  ASSUME TruthInv, TruthInv', NEW h \in Handlers, pc[h] \in Routing,
         \/ \E status : DeadCommit(h, status)
         \/ \E r : LiveCommit(h, r),
         openedBy' = Opened(h), UNCHANGED ledger
  PROVE  \/ Stutters
         \/ \E k \in Keys, told \in {"paid", "unpaid", "waiting"},
               charged \in {"no", "asked", "taken", "refused"} : Promise!Decide(k, told, charged)
  <1>0. PICK k \in Keys : k = job[h].key
    BY DEF TruthInv, OnceInv, LockInv, JobsAreSet, Routing
  <1>1. /\ job[h].done \subseteq Refs /\ row[k] \in Rows /\ row \in [Keys -> Rows]
        /\ \A r \in job[h].done : ledger[r].outcome # "unused" /\ ledger[r].key = k
    BY <1>0 DEF TruthInv, OnceInv, LockInv, TypeOK, Jobs, CallsOfRouting
  <1>2. /\ openedBy'[k] = (IF Exists(k) THEN openedBy[k] ELSE "customer")
        /\ \A l \in Keys \ {k} : openedBy'[l] = openedBy[l]
    BY <1>0 DEF Opened, TruthInv, OnceInv, LockInv, TypeOK
  <1>3. \A r \in Refs : attempt'[r] = attempt[r] \/ r \in job[h].done
    BY DEF DeadCommit, LiveCommit, Recorded, TruthInv, OnceInv, LockInv, TypeOK
  <1>4. \A l \in Keys \ {k} : row'[l] = row[l]
    BY <1>0, <1>1 DEF DeadCommit, LiveCommit, Routed
  <1>5. CASE Exists(k)
    <2>1. openedBy[k] = "merchant"
      BY <1>0, <1>5 DEF TruthInv, OnceInv, RequestsAgree
    <2> QED BY <1>1, <1>2, <1>3, <1>4, <1>5, <2>1, MerchantStutters
  <1>6. CASE ~Exists(k)
    <2>1. openedBy[k] # "customer" /\ openedBy'[k] = "customer"
      BY <1>2, <1>6 DEF TruthInv, OnceInv, RowsHaveOrigin
    <2>2. ToldOf[k] = "none"
      BY <2>1, NoPurchase
    <2>3. \A l \in Keys \ {k} : ToldOf'[l] = ToldOf[l] /\ ChargeOf'[l] = ChargeOf[l]
      <3> TAKE l \in Keys \ {k}
      <3>1. \A r \in Refs : r \in LiveCalls(l)' <=> r \in LiveCalls(l)
        BY <1>1, <1>3 DEF LiveCalls
      <3> QED BY <1>2, <1>4, <3>1, PurchaseStays
    <2>4. \A r \in Refs : r \in LiveCalls(k)' => r \in job[h].done /\ attempt'[r] # "NONE"
      BY <1>3, <1>6 DEF LiveCalls, TruthInv, OnceInv, AttemptsHaveRows
    <2>5. \A r, s \in LiveCalls(k)' : r = s
      <3>1. \A r \in LiveCalls(k)' : r \in job[h].done /\ ledger[r].outcome # "failed"
        BY <2>4 DEF LiveCalls, Charged
      <3> QED BY <3>1 DEF TruthInv, OnceInv, CallsOfRouting
    <2>6. ToldOf'[k] = Told[row'[k].status]
      BY <2>1 DEF ToldOf
    <2>7. /\ LiveCalls(k)' = {} => ChargeOf'[k] = "no"
          /\ \A r \in LiveCalls(k)' : ChargeOf'[k] = Charged[ledger'[r].outcome]
      <3>1. LiveCalls(k)' # {} => LiveCall(k)' \in LiveCalls(k)'
        BY DEF LiveCall
      <3> QED BY <2>1, <2>5, <3>1 DEF ChargeOf
    <2>8. \/ ToldOf'[k] = "paid" /\ ChargeOf'[k] = "taken"
          \/ ToldOf'[k] = "unpaid" /\ ChargeOf'[k] = "no"
          \/ ToldOf'[k] = "waiting" /\ ChargeOf'[k] \in {"asked", "taken", "refused"}
      <3>1. CASE row'[k].status = "COMPLETED"
        <4>1. PICK r \in Refs : /\ attempt'[r] = "SUCCESS" /\ ledger'[r].key = k
                                /\ ledger'[r].outcome = "charged"
          BY <3>1 DEF TruthInv, TablesTrue, CompletedIsCharged
        <4>2. r \in LiveCalls(k)'
          BY <4>1 DEF LiveCalls, Charged
        <4> QED BY <2>6, <2>7, <3>1, <4>1, <4>2 DEF Told, Charged
      <3>2. CASE row'[k].status = "AUTHORIZATION_PENDING"
        <4>1. PICK r \in Refs : /\ attempt'[r] = "PENDING" /\ ledger'[r].key = k
                                /\ ledger'[r].outcome \in {"prompted", "charged", "refused"}
          BY <3>2 DEF TruthInv, TablesTrue, PendingHasPrompt
        <4>2. r \in LiveCalls(k)'
          BY <4>1 DEF LiveCalls, Charged
        <4> QED BY <2>6, <2>7, <3>2, <4>1, <4>2 DEF Told, Charged
      <3>3. CASE \E status : DeadCommit(h, status)
        <4>1. row'[k].status \in {"PROVIDER_UNAVAILABLE", "DECLINED"}
          <5>1. PICK status : DeadCommit(h, status)
            BY <3>3
          <5> DEFINE c == IF status = "COMPLETED" THEN TRUE ELSE row[k].completed
          <5>2. row' = [row EXCEPT ![k] = [@ EXCEPT !.status = status, !.bio = job[h].user,
                                                    !.selected = row[k].selected, !.completed = c]]
            BY <1>0, <5>1 DEF DeadCommit, Routed
          <5> HIDE DEF c
          <5>3. row'[k].status = status
            BY <1>1, <5>2 DEF Rows
          <5> QED BY <5>1, <5>3 DEF DeadCommit
        <4>2. LiveCalls(k)' = {}
          <5> SUFFICES ASSUME NEW r \in Refs, r \in LiveCalls(k)' PROVE FALSE
            BY DEF LiveCalls
          <5>1. r \in job[h].done /\ ledger[r].outcome # "failed" /\ attempt'[r] # "NONE"
            BY <2>4 DEF LiveCalls, Charged
          <5>2. attempt[r] = "NONE"
            BY <5>1 DEF TruthInv, DoneIsUnrecorded
          <5> QED BY <3>3, <5>1, <5>2 DEF DeadCommit
        <4> QED BY <2>6, <2>7, <4>1, <4>2 DEF Told
      <3>4. CASE \E r : LiveCommit(h, r)
        <4>1. PICK r : LiveCommit(h, r)
          BY <3>4
        <4>2. row'[k].status = LiveStatus(r)
          BY <1>0, <1>1, <4>1 DEF LiveCommit, Routed, Rows
        <4> QED BY <3>1, <3>2, <4>2 DEF LiveStatus
      <3> QED BY <3>3, <3>4
    <2>9. PICK told \in {"paid", "unpaid", "waiting"}, charged \in {"no", "asked", "taken", "refused"} :
             ToldOf'[k] = told /\ ChargeOf'[k] = charged
      BY <2>8
    <2>10. /\ ToldOf' = [ToldOf EXCEPT ![k] = told]
           /\ ChargeOf' = [ChargeOf EXCEPT ![k] = charged]
      BY <2>3, <2>9, OneKeyChanges
    <2> QED BY <2>2, <2>8, <2>9, <2>10 DEF Promise!Decide
  <1> QED BY <1>5, <1>6

LEMMA RefinementStep ==
  TruthInv /\ TruthInv' /\ [Next]_vars => [Promise!Next]_<<ToldOf, ChargeOf>>
  <1> SUFFICES ASSUME TruthInv, TruthInv', [Next]_vars
               PROVE  Stutters \/ Promise!Next
    BY DEF Stutters
  <1>1. ASSUME NEW h \in Handlers, Arrive(h) \/ Abort(h) PROVE Stutters
    <2>1. UNCHANGED <<row, openedBy, attempt, ledger>>
      BY <1>1 DEF Arrive, CreatePayment, ReadForClaim, OpenRequest, ReadForCancel, ReadCallback,
         Start, Abort
    <2> QED BY <2>1, TablesStayStutters
  <1>2. ASSUME NEW h \in Handlers, Lock(h) PROVE Stutters \/ Promise!Next
    <2>1. CASE InsertPayment(h) \/ InsertConflict(h) \/ FlushClaim(h)
      BY <2>1, TablesStayStutters DEF InsertPayment, InsertConflict, FlushClaim
    <2>2. CASE CommitRequest(h) \/ CommitCancel(h)
      <3>0. PICK k \in Keys : k = job[h].key
        BY <2>2 DEF CommitRequest, CommitCancel, TruthInv, OnceInv, LockInv, JobsAreSet
      <3>1. /\ \A l \in Keys \ {k} : row'[l] = row[l] /\ openedBy'[l] = openedBy[l]
            /\ UNCHANGED <<attempt, ledger>>
        BY <2>2, <3>0 DEF CommitRequest, CommitCancel, TruthInv, OnceInv, LockInv, TypeOK
      <3>2. openedBy[k] # "customer" /\ openedBy'[k] # "customer"
        BY <2>2, <3>0 DEF CommitRequest, CommitCancel, TruthInv, LateWritesAreDue, OnceInv,
           RowsHaveOrigin, LockInv, TypeOK
      <3> QED BY <3>1, <3>2, MerchantStutters
    <2>3. CASE Settle(h)
      BY <2>3, SettleRefines DEF Promise!Next
    <2> QED BY <1>2, <2>1, <2>2, <2>3 DEF Lock
  <1>3. ASSUME NEW h \in Handlers, Route(h) PROVE Stutters \/ Promise!Next
    <2>1. CASE LoadCandidates(h) \/ PushAnswered(h)
      BY <2>1, TablesStayStutters DEF LoadCandidates, PushAnswered
    <2>2. CASE CallMock(h) \/ SendPush(h)
      <3>1. /\ NextCall(h) /\ UNCHANGED <<row, openedBy, attempt>>
            /\ \E outcome : Called(h, outcome)
        BY <2>2 DEF CallMock, SendPush
      <3>2. NewRef \in Refs /\ attempt[NewRef] = "NONE"
        BY <3>1, NewRefIsFree DEF NextCall, TruthInv, OnceInv, AttemptsHaveRows
      <3>3. \A r \in Refs \ {NewRef} : ledger'[r] = ledger[r]
        BY <3>1 DEF Called, TruthInv, OnceInv, LockInv, TypeOK
      <3> QED BY <3>1, <3>2, <3>3, TablesStayStutters
    <2>3. CASE FindNoPolicy(h)
      <3>1. DeadCommit(h, "PROVIDER_UNAVAILABLE")
        BY <2>3 DEF FindNoPolicy, DeadCommit
      <3> QED BY <2>3, <3>1, CommitRefines DEF FindNoPolicy, Routing, Promise!Next
    <2>4. CASE FinishLive(h)
      <3>1. PICK r \in job[h].done : /\ Result(r) \in {"SUCCESS", "PENDING"}
                                     /\ CommitRouting(h, LiveStatus(r), ledger[r].provider)
        BY <2>4 DEF FinishLive
      <3>2. LiveCommit(h, r)
        BY <3>1 DEF LiveCommit, CommitRouting
      <3> QED BY <2>4, <3>1, <3>2, CommitRefines DEF FinishLive, CommitRouting, Routing, Promise!Next
    <2>5. CASE FinishDead(h)
      <3>1. \A r \in job[h].done : ledger[r].outcome = "failed"
        BY <2>5, DeadCallFailed DEF FinishDead
      <3>2. DeadCommit(h, DeadStatus(h))
        BY <2>5, <3>1 DEF FinishDead, CommitRouting, DeadCommit, DeadStatus
      <3> QED BY <2>5, <3>2, CommitRefines DEF FinishDead, CommitRouting, Routing, Promise!Next
    <2> QED BY <1>3, <2>1, <2>2, <2>3, <2>4, <2>5 DEF Route
  <1>4. ASSUME NEW r \in Refs, CustomerAnswers(r) PROVE Stutters \/ Promise!Next
    BY <1>4, AnswerRefines DEF Promise!Next
  <1>5. ASSUME NEW r \in Refs, IgnoreCallback(r) PROVE Stutters
    <2>1. /\ UNCHANGED <<row, openedBy, attempt>>
          /\ \A s \in Refs : ledger'[s].outcome = ledger[s].outcome /\ ledger'[s].key = ledger[s].key
      BY <1>5 DEF IgnoreCallback, TruthInv, OnceInv, LockInv, TypeOK, Calls
    <2> QED BY <2>1, TablesStayStutters
  <1>6. CASE UNCHANGED vars
    BY <1>6, TablesStayStutters DEF vars
  <1> QED BY <1>1, <1>2, <1>3, <1>4, <1>5, <1>6 DEF Next

\* However the requests of customers' payments interleave, abort and are retried,
\* the tables show purchases decided once and atomically, each with the only
\* charge it has on record (payment_service.py).
THEOREM PurchaseImplemented == Spec => ImplementsPurchase
  <1>1. TruthInv /\ TruthInv' /\ [Next]_vars => [Promise!Next]_<<ToldOf, ChargeOf>>
    BY RefinementStep
  <1> QED BY TruthInit, TruthStep, RefinementInit, <1>1, PTL
          DEF Spec, ImplementsPurchase, Promise!Spec

=============================================================================
