-------------------------- MODULE LocalPaymentInv --------------------------
(***************************************************************************)
(* Why a debit is always matched: the facts about ids, items, managers and *)
(* rows that together every step preserves, as long as no node is started  *)
(* again (the ids start over then), whatever else fails.                   *)
(***************************************************************************)
EXTENDS LocalPayment

\* A node that runs counted every id of its own that is anywhere in use.
Counted(id) == up[id[1]] => id[2] <= sequence[id[1]]

IdsAreCounted ==
    /\ \A n \in Nodes, id \in TxIds : currentTX[n][id] # NoTM => Counted(id)
    /\ \A f, t \in Nodes : \A item \in Range(net[f][t]) : Counted(item.tx)
    /\ \A n \in Nodes : \A row \in Rows(n) : Counted(row.tx)

\* The payer coordinates its own payments, a friend of it is the cohorte.
RolesFollowIds ==
    \A n \in Nodes, id \in TxIds :
        LET tm == currentTX[n][id]
        IN /\ tm.role = "coordinator" =>
                 id[1] = n /\ tm.peer # n /\ tm.amount \in Amounts
           /\ tm.role = "cohorte" =>
                 id[1] = tm.peer /\ tm.peer # n /\ tm.amount \in Amounts

\* Orders come from the payer of the payment, answers go to it.
RightDirection(f, t, item) ==
    /\ f # t
    /\ item.phase \in {"QUERY", "COMMIT"} => item.tx[1] = f
    /\ item.phase \in {"VOTE_YES", "VOTE_NO", "ACK_COMMIT"} => item.tx[1] = t
    /\ item.phase = "QUERY" => item.amount \in Amounts
ItemsGoTheRightWay ==
    \A f, t \in Nodes : \A item \in Range(net[f][t]) : RightDirection(f, t, item)

\* The payer's manager for a payment, if it still exists, queried p to pay
\* this amount.
PayerTm(id) == currentTX[id[1]][id]
Agrees(tm, p, amount) ==
    tm.role = "coordinator" => tm.queried /\ tm.peer = p /\ tm.amount = amount

CoordinatorAgrees ==
    /\ \A f, t \in Nodes : \A item \in Range(net[f][t]) :
          item.phase = "QUERY" => Agrees(PayerTm(item.tx), t, item.amount)
    /\ \A n \in Nodes, id \in TxIds :
          currentTX[n][id].role = "cohorte" =>
              Agrees(PayerTm(id), n, currentTX[n][id].amount)

\* What a payee booked, and what a payer booked and has forgotten since.
CreditRow(n, row) ==
    row.tx[1] # n =>
        /\ row.amount \in Amounts
        /\ row.peer = row.tx[1]
        /\ Agrees(PayerTm(row.tx), n, row.amount)
DebitRow(n, row) ==
    row.tx[1] = n =>
        /\ -row.amount \in Amounts
        /\ row.peer # n
        /\ \/ LogRow(n, row.tx, -row.amount) \in Rows(row.peer)
           \/ <<row.peer, n>> \in torn
        /\ currentTX[n][row.tx].role # "coordinator"
RowsAreTrue ==
    \A n \in Nodes : \A row \in Rows(n) : CreditRow(n, row) /\ DebitRow(n, row)

\* An acknowledgement means the payee booked what the payer ordered, unless
\* its commit was torn.
AckMeansBooked ==
    \A f, t \in Nodes : \A item \in Range(net[f][t]) :
        LET tm == currentTX[t][item.tx]
        IN item.phase = "ACK_COMMIT" /\ tm.role = "coordinator" =>
              /\ tm.peer = f
              /\ LogRow(t, item.tx, tm.amount) \in Rows(f) \/ <<f, t>> \in torn

\* A payment is queried once, answered once and booked once.
Unbooked(n, id) == \A row \in Rows(n) : row.tx # id
OneQuery ==
    \A f, t \in Nodes : \A i, j \in DOMAIN net[f][t] :
        /\ net[f][t][i].phase = "QUERY" /\ net[f][t][j].phase = "QUERY"
        /\ net[f][t][i].tx = net[f][t][j].tx
        => i = j
QueryIsFirst ==
    \A f, t \in Nodes : \A item \in Range(net[f][t]) :
        item.phase = "QUERY" =>
            currentTX[t][item.tx] = NoTM /\ Unbooked(t, item.tx)
CohorteBooksOnce ==
    \A n \in Nodes, id \in TxIds :
        currentTX[n][id].role = "cohorte" => Unbooked(n, id)

Safe ==
    /\ TypeOK
    /\ IdsAreCounted
    /\ RolesFollowIds
    /\ ItemsGoTheRightWay
    /\ CoordinatorAgrees
    /\ RowsAreTrue
    /\ AckMeansBooked
    /\ OneQuery
    /\ QueryIsFirst
    /\ CohorteBooksOnce
    /\ BookedOnce

-----------------------------------------------------------------------------
(* Why nobody owes more than was granted when amounts are not negative,    *)
(* every node has one payment open at a time and none is started again,    *)
(* whatever else fails: the only cohorte of a friend that a COMMIT can     *)
(* still reach was the last one to check the funds.                        *)

\* Managers die with their process, and every id was counted once.
ManagersAreCounted ==
    \A n \in Nodes, id \in TxIds :
        currentTX[n][id] # NoTM => up[n] /\ Counted(id)
ItemsAreCounted ==
    \A f, t \in Nodes : \A item \in Range(net[f][t]) :
        /\ Counted(item.tx)
        /\ item.phase \in {"QUERY", "COMMIT"} => item.tx[1] = f
        /\ item.phase = "QUERY" => f # t /\ item.amount \in Amounts

\* The payment that is open is the newest one of its node, and the funds are
\* what they were when it began, or more.  Nobody heard of it yet if it was
\* not queried.
NewestIsFunded ==
    \A n \in Nodes, id \in TxIds :
        LET tm == currentTX[n][id]
        IN tm.role = "coordinator" =>
              /\ id = <<n, sequence[n]>>
              /\ tm.peer # n /\ tm.amount \in Amounts
              /\ tm.queried => tm.amount <= MyAvailable(peers[n][tm.peer])
              /\ ~tm.queried => tm.avail <= MyAvailable(peers[n][tm.peer])
UnqueriedIsUnheard ==
    \A n \in Nodes, id \in TxIds :
        currentTX[n][id].role = "coordinator" /\ ~currentTX[n][id].queried =>
            /\ \A f, t \in Nodes : \A item \in Range(net[f][t]) : item.tx # id
            /\ \A m \in Nodes : currentTX[m][id].role # "cohorte"

\* The orders of a payer are on their way in the order of its payments.
InOrder(queue) ==
    \A i, j \in DOMAIN queue :
        /\ i < j
        /\ queue[i].phase \in {"QUERY", "COMMIT"}
        /\ queue[j].phase \in {"QUERY", "COMMIT"}
        => queue[i].tx[2] <= queue[j].tx[2]
OrdersInOrder == \A f, t \in Nodes : InOrder(net[f][t])

\* Whoever voted yes is only ordered what is as new as what it voted on.
CohortesAreNewest ==
    \A n \in Nodes, id \in TxIds :
        LET tm == currentTX[n][id]
        IN tm.role = "cohorte" =>
              /\ id[1] = tm.peer /\ tm.peer # n /\ tm.amount \in Amounts
              /\ \A item \in Range(net[tm.peer][n]) :
                    item.phase \in {"QUERY", "COMMIT"} => id[2] <= item.tx[2]

\* What may still be committed is covered by what the payer has left.
MayCommit(n, id) ==
    \/ currentTX[id[1]][id].role = "coordinator"
    \/ \E item \in Range(net[id[1]][n]) : item.phase = "COMMIT" /\ item.tx = id
VotesAreCovered ==
    \A n \in Nodes, id \in TxIds :
        LET tm == currentTX[n][id]
        IN tm.role = "cohorte" /\ MayCommit(n, id) =>
              tm.amount <= PeerAvailable(peers[n][tm.peer])

Funded ==
    /\ TypeOK
    /\ ManagersAreCounted
    /\ ItemsAreCounted
    /\ NewestIsFunded
    /\ UnqueriedIsUnheard
    /\ OrdersInOrder
    /\ CohortesAreNewest
    /\ VotesAreCovered
    /\ WithinCreditLines

-----------------------------------------------------------------------------
(* Why nobody books a payment that no friend collected, restarts or not:   *)
(* what a node paid and may yet pay for an acknowledgement was collected.  *)

\* The acknowledgements on their way to n over the links of network.
AcksTo(network, n) ==
    UNION {{f} \X {i \in DOMAIN network[f][n] :
                      network[f][n][i].phase = "ACK_COMMIT"} : f \in Nodes}

\* A node's own payments are those it pays, restarts or not.
PayersOwnIds ==
    /\ \A n \in Nodes, id \in TxIds :
          /\ currentTX[n][id].role = "coordinator" =>
                 id[1] = n /\ currentTX[n][id].peer # n
          /\ currentTX[n][id].role = "cohorte" => id[1] # n
    /\ \A f, t \in Nodes : \A item \in Range(net[f][t]) :
          item.phase = "QUERY" => item.tx[1] # t
AcksAreCollected ==
    \A n \in Nodes :
        Trusted(n) =>
        Cardinality(Paid(n)) + Cardinality(AcksTo(net, n)) <= Cardinality(Collected(n))

Collectible ==
    /\ TypeOK
    /\ PayersOwnIds
    /\ AcksAreCollected
=============================================================================
