------------------------- MODULE PaymentsRefinement -------------------------
(***************************************************************************)
(* Payments implements Purchase.  A key a customer opened is a purchase:   *)
(* its row says what the customer is told, and its recorded call that was  *)
(* not refused at once is its charge.  Merchant requests are no purchases: *)
(* ClaimIsFinal and ResolvedIsFinal say what they lack.                    *)
(***************************************************************************)
EXTENDS Payments

Told == [NONE |-> "none", AUTHORIZATION_PENDING |-> "waiting", COMPLETED |-> "paid",
         DECLINED |-> "unpaid", PROVIDER_UNAVAILABLE |-> "unpaid",
         CANCELLED |-> "unpaid", AUTHENTICATION_PENDING |-> "unpaid"]

Charged == [prompted |-> "asked", charged |-> "taken", refused |-> "refused"]

\* The calls of k on record that moved, or may still move, money.
LiveCalls(k) == {r \in Refs : /\ ledger[r].key = k
                              /\ attempt[r] # "NONE"
                              /\ ledger[r].outcome \in DOMAIN Charged}

LiveCall(k) == CHOOSE r \in LiveCalls(k) : TRUE

ToldOf == [k \in Keys |-> IF openedBy[k] = "customer" THEN Told[row[k].status] ELSE "none"]
ChargeOf == [k \in Keys |-> IF openedBy[k] = "customer" /\ LiveCalls(k) # {}
                            THEN Charged[ledger[LiveCall(k)].outcome]
                            ELSE "no"]

Promise == INSTANCE Purchase WITH Keys <- Keys, purchase <- ToldOf, charge <- ChargeOf

\* However the requests of a customer's payment interleave, abort and are
\* retried, what the table shows is a purchase decided once and atomically.
ImplementsPurchase == Promise!Spec
=============================================================================
