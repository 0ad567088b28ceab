----------------------------- MODULE MoneyLedger -----------------------------
(* What a wallet promises: it holds the sum of its entries, each entry is      *)
(* posted once, a debit is covered when it is posted, and a refund takes back  *)
(* exactly what a top-up brought.                                              *)
EXTENDS Integers

CONSTANT Entries       \* records with type, of and amount

VARIABLES balance, entries

Same(e, f) == e.type = f.type /\ e.of = f.of

Init == balance = 0 /\ entries = {}

Post(e) ==
    /\ \A f \in entries : ~Same(e, f)
    /\ e.type = "SUBSCRIPTION_DEBIT" => balance + e.amount >= 0
    /\ e.type = "TOP_UP_REFUND" =>
         \E f \in entries : f.type = "TOP_UP" /\ f.of = e.of /\ f.amount = -e.amount
    /\ entries' = entries \cup {e}
    /\ balance' = balance + e.amount

Next == \E e \in Entries : Post(e)

Spec == Init /\ [][Next]_<<balance, entries>>
=============================================================================
