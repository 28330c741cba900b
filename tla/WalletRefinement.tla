-------------------------- MODULE WalletRefinement --------------------------
(***************************************************************************)
(* Wallet implements Checkout.  The pay screen is what the phone shows of  *)
(* a key; the money is read off the providers' ledger, not off what the    *)
(* backend recorded of it: a charge counts although its request aborted.   *)
(***************************************************************************)
EXTENDS Wallet

\* The calls of k that moved, or may still move, money: recorded or not.
MoneyCalls(k) == {r \in Refs : ledger[r].key = k /\ ledger[r].outcome # "failed"}

Moved(call) ==
    IF call.outcome = "prompted" THEN "asked"
    ELSE IF call.outcome = "refused" THEN "refused"
    ELSE IF call.provider \in AsyncProviders THEN "confirmed" ELSE "taken"

MoneyBy(calls) == IF calls = {} THEN "no" ELSE Moved(ledger[CHOOSE r \in calls : TRUE])
MoneyOf == [k \in Keys |-> MoneyBy(MoneyCalls(k))]

Till == INSTANCE Checkout WITH Keys <- Keys, shown <- tap, money <- MoneyOf

\* Whatever requests abort, answers get lost and taps overlap, one tap is one
\* charge at most, begun before the phone shows how the tap ended.
ImplementsCheckout == Till!Spec
=============================================================================
