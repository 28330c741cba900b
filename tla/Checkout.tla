------------------------------ MODULE Checkout ------------------------------
(***************************************************************************)
(* What one tap on "Authenticate & Pay" promises the customer: money moves *)
(* at most once for it, never before the tap, and no charge is begun any   *)
(* more once the phone showed how the tap ended; "successful" is shown for *)
(* money that moved, "declined" never for money a provider took at once.   *)
(* Nothing is posted, lost or retried here: WalletRefinement says how the  *)
(* phone and the backend of Wallet implement this together.                *)
(***************************************************************************)
CONSTANT Keys

VARIABLES
    shown,   \* what the phone shows of a tap
    money    \* what became of the customer's money for it

Init == shown = [k \in Keys |-> "unused"] /\ money = [k \in Keys |-> "no"]

Shows(k, s) == shown' = [shown EXCEPT ![k] = s] /\ UNCHANGED money
Moves(k, outcomes) ==
    /\ UNCHANGED shown
    /\ money'[k] \in outcomes
    /\ money' = [money EXCEPT ![k] = money'[k]]

Tap(k) == shown[k] = "unused" /\ Shows(k, "sent")

\* A provider takes the money, or asks the customer for it on the phone.  A
\* phone that gave up does not stop the server.
Charge(k) ==
    /\ shown[k] \in {"sent", "error"}
    /\ money[k] = "no"
    /\ Moves(k, {"asked", "taken"})

\* The customer answers the prompt, whatever the phone shows by then.
Answer(k) ==
    /\ money[k] = "asked"
    /\ Moves(k, {"confirmed", "refused"})

Show(k) ==
    /\ shown[k] = "sent"
    /\ \/ Shows(k, "error")
       \/ Shows(k, "paid") /\ money[k] \in {"taken", "confirmed"}
       \/ Shows(k, "declined") /\ money[k] # "taken"

Next == \E k \in Keys : Tap(k) \/ Charge(k) \/ Answer(k) \/ Show(k)

Spec == Init /\ [][Next]_<<shown, money>>
=============================================================================
