--------------------------- MODULE MCLocalPayment ---------------------------
(***************************************************************************)
(* Instances of LocalPayment for TLC, and what SameBalanceWhenQuiet says.  *)
(***************************************************************************)
EXTENDS LocalPaymentInv

Symmetry == Permutations(Nodes)

\* The dialog takes a minus sign as well.
EitherSign == {-1, 1}

\* Nothing is on its way between any two friends and no payment is open.
Quiet ==
    /\ \A f, t \in Nodes : net[f][t] = <<>>
    /\ \A n \in Nodes, id \in TxIds : currentTX[n][id] = NoTM

\* handleCredit's check, whenever the two friends have nothing going on.
SameBalanceWhenQuiet ==
    Quiet => \A n, p \in Nodes :
                n # p => -peers[n][p].balance = peers[p][n].balance
=============================================================================
