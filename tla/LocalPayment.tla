---------------------------- MODULE LocalPayment ----------------------------
(***************************************************************************)
(* A payment between two friends: the coordinator (payer) and the cohorte  *)
(* (payee) run a two phase commit over the friend link, and each side      *)
(* books the amount in its own database.  Every node is a process with a   *)
(* transaction map that dies with it and a database that does not.         *)
(*                                                                         *)
(* The GUI thread starts payments (PayTo, StartPayment); the RetroShare    *)
(* thread handles one item at a time and times transactions out.  The link *)
(* is FIFO; it loses a suffix of what is in flight when it drops.          *)
(***************************************************************************)
EXTENDS Credit, SequencesExt

CONSTANTS
    Nodes,        \* the friends
    Amounts,      \* amounts a user may type: nobody looks at their sign
    CreditLine,   \* the line every pair of friends granted each other
    MaxSeq,       \* bound: last value of TmLocalCoordinator::sequence
    MaxOpen,      \* bound: payments of one node that are open at a time
    Faults,       \* which of "timeout", "crash", "tear", "dberror" may happen
    MaxDrops,     \* bound: how often a link drops
    MaxRestarts   \* bound: how often a node is started again

ASSUME ConstantsAssumption ==
    /\ Amounts \subseteq Int
    /\ CreditLine \in Nat
    /\ MaxSeq \in Nat \ {0}
    /\ MaxDrops \in Nat
    /\ MaxRestarts \in Nat

VARIABLES
    peers,        \* peers[n][p]: n's database row for friend p
    txlog,        \* txlog[n]: the rows of n's transaction log, in order
    currentTX,    \* currentTX[n][id]: n's transaction manager for id
    sequence,     \* sequence[n]: n's counter of payments since it started
    net,          \* net[f][t]: items f sent to t and t did not handle yet
    up,           \* up[n]: process n runs
    torn,         \* <<n, p>>: a commit of n with p ended before its last write
    drops, restarts

vars == <<peers, txlog, currentTX, sequence, net, up, torn, drops, restarts>>

\* The ids of payments: the payer's id and its counter.
TxIds == Nodes \X (2..MaxSeq)

\* TmLocalCoordinator::mkId, before the counter is stored.
MkIdReused(n) == <<n, 2>>
MkId(n) == <<n, sequence[n] + 1>>

\* The counter starts here whenever the process starts.
CountFromZero == 0
FirstSequence == 1

NoTM == [role |-> "none"]

\* The manager of the payer: what it pays to whom, the available funds it
\* loaded when it was constructed, and whether init() sent the QUERY.
Coordinator(p, amount, avail, queried) ==
    [role |-> "coordinator", peer |-> p, amount |-> amount,
     avail |-> avail, queried |-> queried]

\* The manager of the payee after it voted yes (m_Phase = QUERY).
Cohorte(p, amount) == [role |-> "cohorte", peer |-> p, amount |-> amount]

TxPhases == {"QUERY", "VOTE_YES", "VOTE_NO", "COMMIT", "ACK_COMMIT", "ABORT"}

\* The payment travels with the QUERY only.
Item(phase, id, amount) == [phase |-> phase, tx |-> id, amount |-> amount]
Reply(phase, id) == Item(phase, id, 0)

Managers ==
    {NoTM}
        \cup [role : {"coordinator"}, peer : Nodes, amount : Int,
              avail : Int, queried : BOOLEAN]
        \cup [role : {"cohorte"}, peer : Nodes, amount : Int]

Items == [phase : TxPhases, tx : TxIds, amount : Int]

\* Rows of table txlog; the transaction's id is not stored by the program.
LogRows == [peer : Nodes, tx : TxIds, amount : Int]

\* Every variable keeps its type.
TypeOK ==
    /\ peers \in [Nodes -> [Nodes -> CreditRecord]]
    /\ txlog \in [Nodes -> Seq(LogRows)]
    /\ currentTX \in [Nodes -> [TxIds -> Managers]]
    /\ sequence \in [Nodes -> 1..MaxSeq]
    /\ net \in [Nodes -> [Nodes -> Seq(Items)]]
    /\ up \in [Nodes -> BOOLEAN]
    /\ torn \subseteq Nodes \X Nodes
    /\ drops \in 0..MaxDrops
    /\ restarts \in 0..MaxRestarts

Init ==
    /\ peers = [n \in Nodes |-> [p \in Nodes |-> OpenLine(CreditLine)]]
    /\ txlog = [n \in Nodes |-> <<>>]
    /\ currentTX = [n \in Nodes |-> [id \in TxIds |-> NoTM]]
    /\ sequence = [n \in Nodes |-> FirstSequence]
    /\ net = [f \in Nodes |-> [t \in Nodes |-> <<>>]]
    /\ up = [n \in Nodes |-> TRUE]
    /\ torn = {}
    /\ drops = 0
    /\ restarts = 0

-----------------------------------------------------------------------------
(* Links and processes.                                                    *)

\* An item for a friend that is offline is dropped.
Post(t, queue, item) == IF up[t] THEN Append(queue, item) ELSE queue

\* n takes the first item of p, without or with one item sent to t.
Consume(n, p) == net' = [net EXCEPT ![p][n] = Tail(@)]
ConsumeAndSend(n, p, t, item) ==
    LET taken == [net EXCEPT ![p][n] = Tail(@)]
    IN net' = [taken EXCEPT ![n][t] = Post(t, @, item)]

\* The friend keeps what it already received when the link drops.
DropLink(n, p) ==
    /\ n # p
    /\ drops < MaxDrops
    /\ \E there \in Prefixes(net[n][p]), back \in Prefixes(net[p][n]) :
          net' = [net EXCEPT ![n][p] = there, ![p][n] = back]
    /\ net' # net
    /\ drops' = drops + 1
    /\ UNCHANGED <<peers, txlog, currentTX, sequence, up, torn, restarts>>

\* The process of n ends: its managers, its counter and what it received
\* are gone, and each friend keeps a prefix of what it was sent.
Ends(n, sent) ==
    /\ up' = [up EXCEPT ![n] = FALSE]
    /\ currentTX' = [currentTX EXCEPT ![n] = [id \in TxIds |-> NoTM]]
    /\ sequence' = [sequence EXCEPT ![n] = FirstSequence]
    /\ \E kept \in [Nodes -> UNION {Prefixes(sent[t]) : t \in Nodes}] :
          /\ \A t \in Nodes : kept[t] \in Prefixes(sent[t])
          /\ net' = [f \in Nodes |-> [t \in Nodes |->
                        IF t = n THEN <<>>
                        ELSE IF f = n THEN kept[t] ELSE net[f][t]]]
    /\ UNCHANGED <<drops, restarts>>

\* It ends with no write half done.
Die(n) == Ends(n, net[n]) /\ UNCHANGED <<peers, txlog, torn>>

Crash(n) == "crash" \in Faults /\ up[n] /\ Die(n)

Restart(n) ==
    /\ ~up[n]
    /\ restarts < MaxRestarts
    /\ up' = [up EXCEPT ![n] = TRUE]
    /\ restarts' = restarts + 1
    /\ UNCHANGED <<peers, txlog, currentTX, sequence, net, torn, drops>>

-----------------------------------------------------------------------------
(* The payer's GUI thread.                                                 *)

Coordinators(n) ==
    {id \in TxIds : currentTX[n][id].role = "coordinator"}

Forget(n, id) == currentTX' = [currentTX EXCEPT ![n][id] = NoTM]

\* PaymentSpender loads the credit line, TmLocalCoordinator takes an id and
\* enters itself in the map.  The thread sends a QUERY before its next payment.
PayTo(n, p, amount) ==
    LET id == MkId(n)
    IN /\ up[n] /\ n # p
       /\ sequence[n] < MaxSeq
       /\ \A other \in Coordinators(n) : currentTX[n][other].queried
       /\ Cardinality(Coordinators(n)) < MaxOpen
       /\ sequence' = [sequence EXCEPT ![n] = @ + 1]
       /\ currentTX' = [currentTX EXCEPT ![n][id] =
              Coordinator(p, amount, MyAvailable(peers[n][p]), FALSE)]
       /\ UNCHANGED <<peers, txlog, net, up, torn, drops, restarts>>

\* init(): the funds are compared as they were loaded; nothing is reserved.
StartPayment(n, id) ==
    LET tm == currentTX[n][id]
    IN /\ tm.role = "coordinator" /\ ~tm.queried
       /\ IF tm.avail < tm.amount
          THEN Forget(n, id) /\ UNCHANGED net
          ELSE /\ currentTX' = [currentTX EXCEPT ![n][id].queried = TRUE]
               /\ net' = [net EXCEPT ![n][tm.peer] =
                             Post(tm.peer, @, Item("QUERY", id, tm.amount))]
       /\ UNCHANGED <<peers, txlog, sequence, up, torn, drops, restarts>>

-----------------------------------------------------------------------------
(* The RetroShare thread: TransactionManager::handleTxItem on the first    *)
(* item of friend p.                                                       *)

Receives(n, p, phases) ==
    /\ up[n]
    /\ net[p][n] # <<>>
    /\ Head(net[p][n]).phase \in phases

\* The manager the item belongs to.  Without one the program makes a new
\* TmLocalCohorte, whose m_payment is not initialised.
Tm(n, p) == currentTX[n][Head(net[p][n]).tx]

\* Payment::commit: reload the row and store the new balance, then append
\* the amount to the log, which is a database of its own ("TODO: make
\* atomic").  An exception ends it after 0 or 1 of the writes, and nobody
\* looks at the result.
WritesDone == IF "dberror" \in Faults THEN 0..2 ELSE {2}
Book(done, n, p, record, row) ==
    /\ peers' = IF done = 0 THEN peers ELSE [peers EXCEPT ![n][p] = record]
    /\ txlog' = IF done < 2 THEN txlog ELSE [txlog EXCEPT ![n] = Append(@, row)]
    /\ torn' = IF done < 2 THEN torn \cup {<<n, p>>} ELSE torn

LogRow(p, id, amount) == [peer |-> p, tx |-> id, amount |-> amount]
CommitReceiverUnbooked(done, n, p, id, amount) == UNCHANGED <<peers, txlog, torn>>
CommitReceiver(done, n, p, id, amount) ==
    Book(done, n, p, Received(peers[n][p], amount), LogRow(p, id, amount))
CommitSpenderUnsigned(done, n, p, id, amount) ==
    Book(done, n, p, Spent(peers[n][p], amount), LogRow(p, id, amount))
CommitSpender(done, n, p, id, amount) ==
    Book(done, n, p, Spent(peers[n][p], amount), LogRow(p, id, -amount))

\* PaymentReceiver::init: has the payer this much left with us?
PayerHasLine(n, p, amount) == amount <= peers[n][p].credit
PayerHasFunds(n, p, amount) == amount <= PeerAvailable(peers[n][p])

\* A first QUERY: vote by the funds the payer has left with us.
CohorteQuery(n, p) ==
    LET item == Head(net[p][n])
    IN /\ Receives(n, p, {"QUERY"})
       /\ Tm(n, p) = NoTM
       /\ \/ /\ PayerHasFunds(n, p, item.amount)
             /\ ConsumeAndSend(n, p, p, Reply("VOTE_YES", item.tx))
             /\ currentTX' = [currentTX EXCEPT ![n][item.tx] =
                                  Cohorte(p, item.amount)]
          \/ /\ ~PayerHasFunds(n, p, item.amount)
             /\ ConsumeAndSend(n, p, p, Reply("VOTE_NO", item.tx))
             /\ UNCHANGED currentTX
       /\ UNCHANGED <<peers, txlog, sequence, up, torn, drops, restarts>>

\* A QUERY for a transaction that is past INIT: abort it.
CohorteRequery(n, p) ==
    LET item == Head(net[p][n])
        tm == Tm(n, p)
    IN /\ Receives(n, p, {"QUERY"})
       /\ tm.role = "cohorte"
       /\ ConsumeAndSend(n, p, tm.peer, Reply("ABORT", item.tx))
       /\ Forget(n, item.tx)
       /\ UNCHANGED <<peers, txlog, sequence, up, torn, drops, restarts>>

\* COMMIT after a yes vote: acknowledge, book the amount, finish.
CohorteCommit(n, p) ==
    LET item == Head(net[p][n])
        tm == Tm(n, p)
    IN /\ Receives(n, p, {"COMMIT"})
       /\ tm.role = "cohorte"
       /\ ConsumeAndSend(n, p, tm.peer, Reply("ACK_COMMIT", item.tx))
       /\ \E done \in WritesDone : CommitReceiver(done, n, tm.peer, item.tx, tm.amount)
       /\ Forget(n, item.tx)
       /\ UNCHANGED <<sequence, up, drops, restarts>>

\* The process ends after the acknowledgement, before a write of commit().
CohorteTorn(n, p) ==
    LET item == Head(net[p][n])
        tm == Tm(n, p)
    IN /\ "tear" \in Faults
       /\ Receives(n, p, {"COMMIT"})
       /\ tm.role = "cohorte"
       /\ Ends(n, [net[n] EXCEPT ![tm.peer] =
                      Post(tm.peer, @, Reply("ACK_COMMIT", item.tx))])
       /\ \E done \in 0..1 : CommitReceiver(done, n, tm.peer, item.tx, tm.amount)

\* COMMIT or ABORT for a transaction that is not (or no longer) known: the
\* new cohorte reads and deletes m_payment, which was never assigned.  The
\* build either survives, with or without an ABORT to a friend, or dies.
CohorteUninitialised(n, p) ==
    LET item == Head(net[p][n])
    IN /\ Receives(n, p, {"COMMIT", "ABORT"})
       /\ Tm(n, p) = NoTM
       /\ \/ Die(n)
          \/ /\ \/ Consume(n, p)
                \/ /\ item.phase = "COMMIT"
                   /\ \E t \in Nodes \ {n} :
                         ConsumeAndSend(n, p, t, Reply("ABORT", item.tx))
             /\ UNCHANGED <<peers, txlog, currentTX, sequence, up, torn,
                            drops, restarts>>

\* VOTE_YES: order the commit.  The coordinator keeps no phase.
CoordinatorVoteYes(n, p) ==
    LET item == Head(net[p][n])
        tm == Tm(n, p)
    IN /\ Receives(n, p, {"VOTE_YES"})
       /\ tm.role = "coordinator"
       /\ ConsumeAndSend(n, p, tm.peer, Reply("COMMIT", item.tx))
       /\ UNCHANGED <<peers, txlog, currentTX, sequence, up, torn, drops, restarts>>

\* ABORT, and for a coordinator VOTE_NO: forget the payment.
EndsWithoutCommit(role) ==
    CASE role = "coordinator" -> {"ABORT", "VOTE_NO"}
      [] role = "cohorte" -> {"ABORT"}
      [] role = "none" -> {}
AbortPayment(n, p) ==
    LET item == Head(net[p][n])
    IN /\ Receives(n, p, EndsWithoutCommit(Tm(n, p).role))
       /\ Consume(n, p)
       /\ Forget(n, item.tx)
       /\ UNCHANGED <<peers, txlog, sequence, up, torn, drops, restarts>>

\* ACK_COMMIT: book the amount, finish.
CoordinatorAck(n, p) ==
    LET item == Head(net[p][n])
        tm == Tm(n, p)
    IN /\ Receives(n, p, {"ACK_COMMIT"})
       /\ tm.role = "coordinator"
       /\ Consume(n, p)
       /\ \E done \in WritesDone : CommitSpender(done, n, tm.peer, item.tx, tm.amount)
       /\ Forget(n, item.tx)
       /\ UNCHANGED <<sequence, up, drops, restarts>>

\* The process ends between the two writes of commit().
CoordinatorTorn(n, p) ==
    LET item == Head(net[p][n])
        tm == Tm(n, p)
    IN /\ "tear" \in Faults
       /\ Receives(n, p, {"ACK_COMMIT"})
       /\ tm.role = "coordinator"
       /\ Ends(n, net[n])
       /\ CommitSpender(1, n, tm.peer, item.tx, tm.amount)

\* An answer for a payment that is gone goes to a new cohorte, an order for
\* a coordinator to the coordinator: "Unknown Transaction Phase" is thrown,
\* nobody on the path of local items catches it, and the process ends.
Handled(role) ==
    IF role = "coordinator" THEN {"VOTE_YES", "VOTE_NO", "ACK_COMMIT", "ABORT"}
    ELSE {"QUERY", "COMMIT", "ABORT"}
UnknownPhase(n, p) ==
    /\ Receives(n, p, TxPhases \ Handled(Tm(n, p).role))
    /\ Die(n)

\* Managers the janitor finds: all but one init() still works on.
CohortesOf(n) == {id \in TxIds : currentTX[n][id].role = "cohorte"}
ManagersOf(n) ==
    {id \in TxIds :
        \/ currentTX[n][id].role = "cohorte"
        \/ currentTX[n][id].role = "coordinator" /\ currentTX[n][id].queried}

\* TransactionManager::timeout: a manager older than a minute is deleted,
\* which also erases it from the map that is being iterated: after the first
\* one the loop goes on, stops early, or kills the process.
Timeout(n) ==
    /\ "timeout" \in Faults
    /\ up[n]
    /\ ManagersOf(n) # {}
    /\ \/ Die(n)
       \/ \E expired \in SUBSET ManagersOf(n) \ {{}} :
             /\ currentTX' = [currentTX EXCEPT ![n] =
                   [id \in TxIds |-> IF id \in expired THEN NoTM ELSE @[id]]]
             /\ UNCHANGED <<peers, txlog, sequence, net, up, torn, drops, restarts>>

-----------------------------------------------------------------------------
HandleTxItem(n, p) ==
    \/ CohorteQuery(n, p)
    \/ CohorteRequery(n, p)
    \/ CohorteCommit(n, p)
    \/ CohorteUninitialised(n, p)
    \/ CoordinatorVoteYes(n, p)
    \/ AbortPayment(n, p)
    \/ CoordinatorAck(n, p)
    \/ UnknownPhase(n, p)

Next ==
    \E n \in Nodes :
        \/ \E p \in Nodes, amount \in Amounts : PayTo(n, p, amount)
        \/ \E id \in TxIds : StartPayment(n, id)
        \/ \E p \in Nodes : HandleTxItem(n, p)
        \/ \E p \in Nodes : CohorteTorn(n, p) \/ CoordinatorTorn(n, p)
        \/ Timeout(n)
        \/ \E p \in Nodes : DropLink(n, p)
        \/ Crash(n)
        \/ Restart(n)

Spec == Init /\ [][Next]_vars

\* Both threads go on: the GUI thread finishes what it began, the RetroShare
\* thread handles what arrived, and its janitor runs every ten seconds.
Fairness ==
    \A n \in Nodes :
        /\ WF_vars(\E id \in TxIds : StartPayment(n, id))
        /\ \A p \in Nodes : WF_vars(HandleTxItem(n, p))
        /\ WF_vars(Timeout(n))

FairSpec == Spec /\ Fairness

-----------------------------------------------------------------------------
(* Properties.                                                             *)

Rows(n) == Range(txlog[n])

\* Whoever books that it paid a friend does so after the friend booked the
\* same payment with the same amount.  The friend sends its acknowledgement
\* before it books; only if it never comes to that is the debit unmatched.
DebitsAreMatched ==
    \A n \in Nodes : \A row \in Rows(n) :
        row.tx[1] = n => \/ LogRow(n, row.tx, -row.amount) \in Rows(row.peer)
                         \/ <<row.peer, n>> \in torn

\* No payment is booked twice by one node, in spite of late, lost and
\* repeated items: a commit removes the manager and ids are not used again.
BookedOnce ==
    \A n \in Nodes : \A i, j \in DOMAIN txlog[n] :
        txlog[n][i].tx = txlog[n][j].tx => i = j

\* Together with the balances: the two phase commit implements the ledger.
Balances == [n \in Nodes |-> [p \in Nodes |-> peers[n][p].balance]]
Books == [n \in Nodes |-> Rows(n)]
Ledger == INSTANCE PaymentLedger WITH balance <- Balances, booked <- Books
ImplementsLedger == Ledger!Spec

\* With one payment at a time, nobody owes more than the friend granted it,
\* in the books of either: the funds are checked before the vote and nothing
\* is reserved, but no other payment comes in between.  This is about amounts
\* that are not negative.  The dialog takes others as well, and both checks
\* let them pass: such a payment overdraws the payee.
WithinCreditLines ==
    \A n, p \in Nodes :
        PeerAvailable(peers[n][p]) >= 0 /\ MyAvailable(peers[n][p]) >= 0

\* The balance of every friend is what the transaction log adds up to, but
\* for friends with whom a commit was torn: nothing else comes between the
\* two databases, not the order of payments nor ids that are used again.
Logged(n, p) ==
    SumFunctionOnSet([i \in DOMAIN txlog[n] |-> txlog[n][i].amount],
                     {i \in DOMAIN txlog[n] : txlog[n][i].peer = p})
BooksBalance ==
    \A n, p \in Nodes : <<n, p>> \in torn \/ peers[n][p].balance = Logged(n, p)

\* Even after restarts, when ids are used again and an old acknowledgement
\* may book another payment than the one it was sent for, perhaps to another
\* friend: nobody books more payments than were booked as received from it,
\* each acknowledgement counts once.  Only a friend whose commit was torn may
\* have acknowledged what it did not book.
Paid(n) == {i \in DOMAIN txlog[n] : txlog[n][i].tx[1] = n}
Collected(n) ==
    UNION {{p} \X {i \in DOMAIN txlog[p] :
                      txlog[p][i].peer = n /\ txlog[p][i].tx[1] # p} : p \in Nodes}
Trusted(n) == \A p \in Nodes : <<p, n>> \notin torn
NoPhantomPayments ==
    \A n \in Nodes : Trusted(n) => Cardinality(Paid(n)) <= Cardinality(Collected(n))

\* Every payment that was begun ends: no manager stays in the map forever.
PaymentsEnd ==
    \A n \in Nodes, id \in TxIds :
        currentTX[n][id] # NoTM ~> currentTX[n][id] = NoTM
=============================================================================
