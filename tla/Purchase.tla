------------------------------ MODULE Purchase ------------------------------
(***************************************************************************)
(* What POST /payments promises the customer: a purchase is decided once,  *)
(* in one step, together with the only charge it may ever have; it waits   *)
(* at most for the answer to that charge; and it ends the way its charge   *)
(* did.  There are no requests here, no locks, no retries and no aborts:   *)
(* PaymentsRefinement says how Payments implements this.                   *)
(***************************************************************************)
CONSTANT Keys

VARIABLES
    purchase,  \* what the customer is told, by idempotency key
    charge     \* the charge the purchase stands for

Purchases == [Keys -> {"none", "waiting", "paid", "unpaid"}]
Charges == [Keys -> {"no", "asked", "taken", "refused"}]

Init == purchase = [k \in Keys |-> "none"] /\ charge = [k \in Keys |-> "no"]

\* The purchase appears, decided or waiting for an answer; the answer may
\* have been given by then.
Decide(k, told, charged) ==
    /\ purchase[k] = "none"
    /\ \/ told = "paid" /\ charged = "taken"
       \/ told = "unpaid" /\ charged = "no"
       \/ told = "waiting" /\ charged \in {"asked", "taken", "refused"}
    /\ purchase' = [purchase EXCEPT ![k] = told]
    /\ charge' = [charge EXCEPT ![k] = charged]

\* The customer confirms the charge on the phone, or refuses it.
Answer(k, charged) ==
    /\ charge[k] = "asked"
    /\ charged \in {"taken", "refused"}
    /\ charge' = [charge EXCEPT ![k] = charged]
    /\ UNCHANGED purchase

\* The answer reaches the purchase.
Settle(k) ==
    /\ purchase[k] = "waiting"
    /\ \/ charge[k] = "taken" /\ purchase' = [purchase EXCEPT ![k] = "paid"]
       \/ charge[k] = "refused" /\ purchase' = [purchase EXCEPT ![k] = "unpaid"]
    /\ UNCHANGED charge

Next ==
    \E k \in Keys :
        \/ \E told \in {"paid", "unpaid", "waiting"}, charged \in {"no", "asked", "taken", "refused"} :
              Decide(k, told, charged)
        \/ \E charged \in {"taken", "refused"} : Answer(k, charged)
        \/ Settle(k)

Spec == Init /\ [][Next]_<<purchase, charge>>
=============================================================================
