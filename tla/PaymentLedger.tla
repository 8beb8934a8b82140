--------------------------- MODULE PaymentLedger ---------------------------
(***************************************************************************)
(* What payments between friends promise, whatever happens in between:     *)
(* the payee books a payment once; the payer books it at most once, only   *)
(* after the payee did and with the same amount.  So a friend is never     *)
(* charged for something the other one does not know of.                   *)
(***************************************************************************)
EXTENDS Integers

CONSTANTS Nodes, TxIds, Amounts

VARIABLES
    balance,  \* balance[n][p]: what n believes p owes it (negative: it owes)
    booked    \* booked[n]: the payments n has written in its books

vars == <<balance, booked>>

Row(p, id, amount) == [peer |-> p, tx |-> id, amount |-> amount]

Knows(n, id) == \E row \in booked[n] : row.tx = id

Init ==
    /\ balance = [n \in Nodes |-> [p \in Nodes |-> 0]]
    /\ booked = [n \in Nodes |-> {}]

\* Payee n books the amount that p pays it.
Receive(n, p, id, amount) ==
    /\ ~Knows(n, id)
    /\ balance' = [balance EXCEPT ![n][p] = @ + amount]
    /\ booked' = [booked EXCEPT ![n] = @ \cup {Row(p, id, amount)}]

\* Payer n books the amount that p has booked already.
Spend(n, p, id, amount) ==
    /\ ~Knows(n, id)
    /\ Row(n, id, amount) \in booked[p]
    /\ balance' = [balance EXCEPT ![n][p] = @ - amount]
    /\ booked' = [booked EXCEPT ![n] = @ \cup {Row(p, id, -amount)}]

Next ==
    \E n, p \in Nodes, id \in TxIds, amount \in Amounts :
        n # p /\ (Receive(n, p, id, amount) \/ Spend(n, p, id, amount))

Spec == Init /\ [][Next]_vars
=============================================================================
