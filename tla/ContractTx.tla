----------------------------- MODULE ContractTx -----------------------------
(***************************************************************************)
(* Buying Bitcoins over friends: the exchange transaction of TmContract.   *)
(* The buyer coordinates, the friends in between (hops) pass its items on, *)
(* the seller is the payee.  A COMMIT leaves a chain of contracts behind,  *)
(* one between each two friends, and at its end the seller broadcasts the  *)
(* Bitcoin transaction that the contracts wait for.                        *)
(*                                                                         *)
(* All steps are the RetroShare thread's: it handles one item at a time,   *)
(* times transactions out and matches the user's bids with known asks.     *)
(* Every ask is no dearer than any bid, so asks differ by rank only.       *)
(* Where the code uses memory it freed, the process may die or see the old *)
(* contents.                                                               *)
(***************************************************************************)
EXTENDS BtcContract

CONSTANTS
    Nodes,
    NoHop,        \* the empty peer address
    Asks, Bids,   \* the orders to sell and to buy
    AskRank,      \* the asks from the best price on, a sequence
    Owner,        \* whose order it is
    Volume,       \* the Bitcoins it is about
    NextHop,      \* NextHop[n][ask]: the friend n learned of the ask from
    CreditLine,   \* the line all friends granted each other
    Faults,       \* which happen: "timeout"; "crash"; "drop", a link
                  \* that drops; "cancel", a user who takes an order back;
                  \* "bitcoin", a failing call of the Bitcoin node; "dberror",
                  \* a database that refuses a contract or the new amount of
                  \* an order
    MaxMishaps    \* bound: how often a link drops or an order is cancelled

ASSUME OrdersAssumption ==
    /\ NoHop \notin Nodes
    /\ Asks \cap Bids = {}
    /\ AskRank \in Seq(Asks) /\ Range(AskRank) = Asks /\ IsInjective(AskRank)
    /\ Owner \in [Asks \cup Bids -> Nodes]
    /\ Volume \in [Asks \cup Bids -> Nat \ {0}]
    /\ NextHop \in [Nodes -> [Asks -> Nodes \cup {NoHop}]]
    /\ \A n \in Nodes, a \in Asks : NextHop[n][a] = NoHop <=> Owner[a] = n
    /\ CreditLine \in Nat
    /\ MaxMishaps \in Nat

\* Routes do not lead in circles (RoutesLeadToOwner of OrderGossip).
ASSUME RoutesAssumption ==
    \A a \in Asks, S \in SUBSET Nodes :
        S # {} => \E n \in S : NextHop[n][a] \notin S

VARIABLES
    ask,        \* ask[a]: the seller's object of ask a
    bid,        \* bid[b]: the buyer's object of bid b
    market,     \* market[n][a]: n's object of the ask a of another node
    currentTX,  \* currentTX[n][id]: n's transaction manager for id
    books,      \* books[n]: the contracts of n, see BtcContract
    tunnels,    \* tunnels[n][a]: the friends before and behind n towards a
    net,        \* net[f][t]: items f sent to t and t did not handle yet
    chain,      \* the Bitcoin transactions that were broadcast
    up,         \* up[n]: process n runs
    mishaps     \* bound: links that dropped and orders that were cancelled

vars == <<ask, bid, market, currentTX, books, tunnels, net, chain, up, mishaps>>
orders == <<ask, bid, market>>
outside == <<up, mishaps>>

\* A transaction is named by the ask and the bid it matches.
TxIds == Asks \X Bids
NoTx == <<>>

Refs == [tx : TxIds, party : Parties]
Payer(id) == Ref(id, "sender")
Payee(id) == Ref(id, "receiver")

Phases == {"QUERY", "VOTE_YES", "VOTE_NO", "COMMIT", "ABORT", "ABORT_REQUEST"}

\* The payload: the Bitcoin amount and, in votes, the Bitcoin transaction.
Item(phase, id, amount, btcTx) ==
    [phase |-> phase, tx |-> id, amount |-> amount, btcTx |-> btcTx]
Order(phase, id) == Item(phase, id, 0, NoBtcTx)

NoTM == [role |-> "none"]

\* An order is open until it is cancelled or deleted.  A cancelled ask of which
\* a part is sold all the same is revived: friends hear of a part sale and put
\* it back into their books, though its owner does not sell it any more.
OrderStates == {"open", "cancelled", "revived", "deleted"}

\* m_otherOrder points to an object that is in the order book, is no longer
\* in it, or was deleted.
Coordinator(other) == [role |-> "coordinator", other |-> other]

\* A cohorte and whether it has made its contracts.
Cohorte(role, phase, contract) ==
    [role |-> role, phase |-> phase, contract |-> contract]

BtcTxs == TxIds \cup {NoBtcTx, VoteNoTx}
NoTunnel == <<>>

Managers ==
    {NoTM} \cup [role : {"coordinator"}, other : {"book", "old", "freed"}]
      \cup [role : {"payee"}, contract : BOOLEAN,
            phase : {"INIT", "QUERY", "ABORT_REQUEST"}]
      \cup [role : {"hop"}, contract : BOOLEAN,
            phase : {"INIT", "QUERY", "VOTE_YES", "VOTE_NO", "ABORT_REQUEST"}]

AskObjects == [amount : Nat, commitment : Nat, state : OrderStates,
               coins : [from : TxIds \cup {NoBtcTx}, worth : Nat]]
BidObjects == [amount : Nat, locked : BOOLEAN, state : OrderStates, matched : SUBSET Asks]
AsksOfOthers == [amount : Nat, ignored : BOOLEAN, listed : BOOLEAN]
Contracts == [peer : Nodes \cup {NoHop}, amount : Nat, btcTx : BtcTxs, active : BOOLEAN]
Rows == [tx : TxIds, party : Parties, amount : Nat, peer : Nodes, btcTx : TxIds]
Items == [phase : Phases, tx : TxIds, amount : Nat, btcTx : BtcTxs]

OrdersTyped ==
    /\ ask \in [Asks -> AskObjects]
    /\ bid \in [Bids -> BidObjects]
    /\ market \in [Nodes -> [Asks -> AsksOfOthers]]
\* A contract object is in the list once, or was deleted.
IsOrderly(b) ==
    /\ DOMAIN b.contract \subseteq Refs
    /\ \A ref \in DOMAIN b.contract : b.contract[ref] \in Contracts
    /\ b.list \in Seq(DOMAIN b.contract) /\ IsInjective(b.list)
    /\ b.stored \subseteq Rows
    /\ b.credit \in [Nodes -> CreditRecord]
TypeOK ==
    /\ OrdersTyped
    /\ currentTX \in [Nodes -> [TxIds -> Managers]]
    /\ \A n \in Nodes : IsOrderly(books[n])
    /\ tunnels \in [Nodes -> [Asks ->
                        {NoTunnel} \cup Nodes \X (Nodes \cup {NoHop})]]
    /\ net \in [Nodes -> [Nodes -> Seq(Items)]]
    /\ chain \subseteq TxIds
    /\ up \in [Nodes -> BOOLEAN]
    /\ mishaps \in 0..MaxMishaps

Init ==
    /\ ask = [a \in Asks |-> [amount |-> Volume[a], commitment |-> 0,
                              state |-> "open",
                              coins |-> [from |-> NoBtcTx,
                                         worth |-> Volume[a]]]]
    /\ bid = [b \in Bids |-> [amount |-> Volume[b], locked |-> FALSE,
                              state |-> "open", matched |-> {}]]
    /\ market = [n \in Nodes |-> [a \in Asks |->
                    [amount |-> Volume[a], ignored |-> FALSE,
                     listed |-> Owner[a] # n]]]
    /\ currentTX = [n \in Nodes |-> [id \in TxIds |-> NoTM]]
    /\ books = [n \in Nodes |->
                   [contract |-> <<>>, list |-> <<>>, stored |-> {},
                    credit |-> [p \in Nodes |-> OpenLine(CreditLine)]]]
    /\ tunnels = [n \in Nodes |-> [a \in Asks |-> NoTunnel]]
    /\ net = [f \in Nodes |-> [t \in Nodes |-> <<>>]]
    /\ chain = {}
    /\ up = [n \in Nodes |-> TRUE]
    /\ mishaps = 0

-----------------------------------------------------------------------------
(* Links and processes.                                                    *)

\* The links with an item of f for t added; without a friend t that is
\* online it is dropped.
Sent(links, f, t, item) ==
    IF t \in Nodes /\ up[t] THEN [links EXCEPT ![f][t] = Append(@, item)]
    ELSE links

\* The friend keeps what it already received when the link drops.
DropLink(n, p) ==
    /\ "drop" \in Faults /\ mishaps < MaxMishaps
    /\ \E there \in Prefixes(net[n][p]), back \in Prefixes(net[p][n]) :
          net' = [net EXCEPT ![n][p] = there, ![p][n] = back]
    /\ net' # net
    /\ mishaps' = mishaps + 1
    /\ UNCHANGED <<orders, currentTX, books, tunnels, chain, up>>

\* The process of n ends with its managers, contract objects and tunnels;
\* each friend keeps a prefix of what it was sent.
Die(n) ==
    /\ up' = [up EXCEPT ![n] = FALSE]
    /\ currentTX' = [currentTX EXCEPT ![n] = [id \in TxIds |-> NoTM]]
    /\ books' = [books EXCEPT ![n].list = <<>>, ![n].contract = <<>>]
    /\ tunnels' = [tunnels EXCEPT ![n] = [a \in Asks |-> NoTunnel]]
    /\ \E kept \in [Nodes -> UNION {Prefixes(net[n][t]) : t \in Nodes}] :
          /\ \A t \in Nodes : kept[t] \in Prefixes(net[n][t])
          /\ net' = [f \in Nodes |-> [t \in Nodes |->
                        IF t = n THEN <<>>
                        ELSE IF f = n THEN kept[t] ELSE net[f][t]]]
    /\ UNCHANGED <<orders, chain, mishaps>>

Crash(n) == "crash" \in Faults /\ up[n] /\ Die(n)

SetTM(n, id, tm) == currentTX' = [currentTX EXCEPT ![n][id] = tm]
Forget(n, id) == SetTM(n, id, NoTM)

-----------------------------------------------------------------------------
(* The buyer: MyOrders::match and TmContractCoordinator.                   *)

\* The members of S as AskRank orders them.  (Written as a function because
\* the theorems need what it computes.)
Ranked(S) ==
    LET first[i \in 0..Len(AskRank)] ==
            IF i = 0 THEN <<>>
            ELSE IF AskRank[i] \in S THEN Append(first[i - 1], AskRank[i])
            ELSE first[i - 1]
    IN first[Len(AskRank)]
IsBetter(a, c) ==
    \E i, j \in DOMAIN AskRank : i < j /\ AskRank[i] = a /\ AskRank[j] = c

\* Asks that match(bid) goes through, the best first.
CandidatesAgain(n, b) ==
    {a \in Asks : market[n][a].listed /\ ~market[n][a].ignored /\ Owner[a] # n}
Candidates(n, b) ==
    {a \in Asks : /\ market[n][a].listed /\ ~market[n][a].ignored
                  /\ Owner[a] # n
                  /\ a \notin bid[b].matched}

\* What is left of the bid when match() comes to a candidate, and the
\* candidates it comes to.
Before(n, b, a) == {c \in Candidates(n, b) : IsBetter(c, a)}
Wanted(n, b, a) ==
    bid[b].amount - SumFunctionOnSet([c \in Asks |-> market[n][c].amount],
                                     Before(n, b, a))
Tried(n, b) ==
    {a \in Candidates(n, b) : Before(n, b, a) = {} \/ Wanted(n, b, a) > 0}

\* One run of match() on a bid: a contract for every ask it tries, and for
\* those that get a Bitcoin address a coordinator and a QUERY.  A contract
\* without an address stays in the list.
IsFree(b) == ~bid[b].locked
Buy(n, b, a) == Min({Wanted(n, b, a), market[n][a].amount})
Query(n, b, a) == Item("QUERY", <<a, b>>, Buy(n, b, a), NoBtcTx)
Queries(n, b, t, asks) ==
    LET those == Ranked({a \in asks : NextHop[n][a] = t /\ up[t]})
    IN [i \in DOMAIN those |-> Query(n, b, those[i])]
Match(n, b) ==
    LET tried == Tried(n, b)
    IN /\ up[n] /\ Owner[b] = n
       /\ bid[b].state = "open" /\ IsFree(b)
       /\ tried # {}
       /\ \E addressed \in SUBSET tried :
             /\ "bitcoin" \in Faults \/ addressed = tried
             /\ currentTX' = [currentTX EXCEPT ![n] = [id \in TxIds |->
                    IF id[1] \in addressed /\ id[2] = b
                    THEN Coordinator("book") ELSE @[id]]]
             /\ net' = [net EXCEPT ![n] = [t \in Nodes |->
                    @[t] \o Queries(n, b, t, addressed)]]
       /\ books' = [books EXCEPT ![n] = NewSenders(@,
              [i \in DOMAIN Ranked(tried) |-> Payer(<<Ranked(tried)[i], b>>)],
              [ref \in {Payer(<<a, b>>) : a \in tried} |->
                  Contract(NextHop[n][ref.tx[1]], Buy(n, b, ref.tx[1]))])]
       /\ bid' = [bid EXCEPT ![b].locked = TRUE, ![b].matched = @ \cup tried]
       /\ UNCHANGED <<ask, market, tunnels, chain, outside>>

\* The managers of n when its object of ask a is no longer in the book, or
\* deleted; the manager of id goes.
WithoutOrder(n, a, becomes, id) ==
    [x \in TxIds |->
        IF x = id THEN NoTM
        ELSE IF x[1] = a /\ currentTX[n][x] = Coordinator("book")
        THEN Coordinator(becomes) ELSE currentTX[n][x]]

\* TmContractCoordinator::rollback and the end of the manager.  The bid
\* stays locked.
RollBackCoordinator(n, id) ==
    /\ books' = [books EXCEPT ![n] = RmContract(@, Payer(id))]
    /\ market' = [market EXCEPT ![n][id[1]].listed = FALSE]
    /\ currentTX' = [currentTX EXCEPT ![n] = WithoutOrder(n, id[1], "old", id)]
    /\ UNCHANGED <<ask, bid>>

Receives(n, p, phases) ==
    /\ up[n]
    /\ net[p][n] # <<>>
    /\ Head(net[p][n]).phase \in phases

Tm(n, p) == currentTX[n][Head(net[p][n]).tx]
Taken(n, p) == [net EXCEPT ![p][n] = Tail(@)]

\* No vote or a request to abort: roll back and command ABORT.
CoordinatorNo(n, p) ==
    LET id == Head(net[p][n]).tx
    IN /\ Receives(n, p, {"VOTE_NO", "ABORT_REQUEST"})
       /\ Tm(n, p).role = "coordinator"
       /\ RollBackCoordinator(n, id)
       /\ net' = Sent(Taken(n, p), n, NextHop[n][id[1]], Order("ABORT", id))
       /\ UNCHANGED <<tunnels, chain, outside>>

\* The coordinator's contract as the seller's vote changed it, in force.
AcceptVoteUnreduced(b, id, item) ==
    Activate(SetBtcTxId(b, Payer(id), item.btcTx), Payer(id))
AcceptVoteUntraced(b, id, item) ==
    Activate(SetBtcAmount(b, Payer(id), item.amount), Payer(id))
AcceptVote(b, id, item) ==
    Activate(SetBtcTxId(SetBtcAmount(b, Payer(id), item.amount),
                        Payer(id), item.btcTx), Payer(id))

\* What the buyer still wants after the seller's vote; a bid that got all it
\* wants is taken off the book and deleted.
FillBid(b, amount) ==
    IF bid[b].amount > amount
    THEN bid' = [bid EXCEPT ![b].amount = @ - amount, ![b].locked = FALSE]
    ELSE bid' = [bid EXCEPT ![b].state = "deleted"]

\* doTx: the seller's amount and Bitcoin transaction go into the contract,
\* which is stored before the COMMIT goes out; then the bid is updated.  When
\* the contract cannot be stored the transaction is aborted, without a
\* rollback; when the bid cannot be stored the ABORT follows the COMMIT.
CoordinatorYes(n, p) ==
    LET item == Head(net[p][n])
        id == item.tx
        a == id[1]
        book == AcceptVote(books[n], id, item)
        next == books[n].contract[Payer(id)].peer
        committed == Sent(Taken(n, p), n, next, Order("COMMIT", id))
    IN /\ Receives(n, p, {"VOTE_YES"})
       /\ Tm(n, p).role = "coordinator"
       /\ market' = [market EXCEPT ![n][a].ignored =
              @ \/ /\ item.amount < books[n].contract[Payer(id)].amount
                   /\ Tm(n, p).other = "book"]
       /\ Forget(n, id)
       /\ \/ /\ books' = [books EXCEPT ![n] = Persist(book, Payer(id))]
             /\ FillBid(id[2], item.amount)
             /\ \/ net' = committed
                \/ /\ "dberror" \in Faults
                   /\ bid[id[2]].amount > item.amount
                   /\ net' = Sent(committed, n, NextHop[n][a],
                                  Order("ABORT", id))
          \/ /\ "dberror" \in Faults
             /\ books' = [books EXCEPT ![n] = book]
             /\ net' = Sent(Taken(n, p), n, NextHop[n][a], Order("ABORT", id))
             /\ UNCHANGED bid
       /\ UNCHANGED <<ask, tunnels, chain, outside>>

\* The user takes an order back.  Its object stays for the transactions that
\* are under way.
Cancelled(order) == [order EXCEPT !.state = "cancelled"]
CancelOrder(n, o) ==
    /\ "cancel" \in Faults /\ mishaps < MaxMishaps
    /\ up[n] /\ Owner[o] = n
    /\ \/ /\ o \in Asks /\ ask[o].state = "open"
          /\ ask' = [ask EXCEPT ![o] = Cancelled(@)]
          /\ UNCHANGED bid
       \/ /\ o \in Bids /\ bid[o].state = "open"
          /\ bid' = [bid EXCEPT ![o] = Cancelled(@)]
          /\ UNCHANGED ask
    /\ mishaps' = mishaps + 1
    /\ UNCHANGED <<market, currentTX, books, tunnels, net, chain, up>>

\* What became of an ask reaches a friend's order book: one that is filled or
\* cancelled is deleted there, one that is partly filled is a new object
\* (publishOrder, OrderBook::processOrder; the gossip in between is not
\* modelled here).
Offered(a) == ask[a].state \in {"open", "revived"}
LearnOrder(n, a) ==
    LET known == market[n][a]
    IN /\ up[n] /\ Owner[a] # n
       /\ \/ /\ ~Offered(a) /\ known.listed
             /\ market' = [market EXCEPT ![n][a].listed = FALSE]
             /\ currentTX' = [currentTX EXCEPT ![n] =
                                  WithoutOrder(n, a, "freed", NoTx)]
          \/ /\ Offered(a)
             /\ ask[a].amount < Volume[a]
             /\ ask[a].amount # known.amount
             /\ market' = [market EXCEPT ![n][a] =
                    [amount |-> ask[a].amount, listed |-> TRUE,
                     ignored |-> known.ignored /\ known.listed]]
             /\ currentTX' = [currentTX EXCEPT ![n] =
                                  WithoutOrder(n, a, "old", NoTx)]
       /\ UNCHANGED <<ask, bid, books, tunnels, net, chain, outside>>

-----------------------------------------------------------------------------
(* The seller: TmContractCohortePayee.                                     *)

Sells(n, a) == Owner[a] = n /\ ask[a].state = "open"

\* What of an ask no other transaction has taken yet.
LeftoverUncommitted(a) == ask[a].amount
Leftover(a) == ask[a].amount - ask[a].commitment

\* mkRawTx spends what is on the order's address and, if that is more than
\* it pays, names a new address for the rest.  An address has coins once the
\* transaction that pays to it was broadcast.
Funded(a) == ask[a].coins.from \in chain \cup {NoBtcTx}
Moved(a, id, amount) == [from |-> id, worth |-> ask[a].coins.worth - amount]
CoinsAfter(a, id, amount) ==
    IF ask[a].coins.worth > amount THEN Moved(a, id, amount) ELSE ask[a].coins

\* The possible results of mkRawTx: whether it made a transaction, and the
\* coins the order points to then.
RawTxs(a, id, amount) ==
    IF ~Funded(a) THEN {[made |-> FALSE, coins |-> ask[a].coins]}
    ELSE {[made |-> TRUE, coins |-> CoinsAfter(a, id, amount)]}
         \cup IF "bitcoin" \notin Faults THEN {}
              ELSE {[made |-> FALSE, coins |-> ask[a].coins],
                    [made |-> FALSE, coins |-> CoinsAfter(a, id, amount)]}

\* doQuery: without credit left or with nothing left in the order the vote
\* is NO, and a contract that was made stays.  Else the order commits what
\* it can, and the vote is YES once the raw Bitcoin transaction is made.
PayeeQuery(n, p) ==
    LET item == Head(net[p][n])
        id == item.tx
        a == id[1]
        made == NewReceiver(books[n], Payee(id), p, item.amount)
        amount == Min({made.contract[Payee(id)].amount, Leftover(a)})
        cut == SetBtcAmount(made, Payee(id), amount)
        Reply(reply) == net' = Sent(Taken(n, p), n, p, reply)
    IN /\ Receives(n, p, {"QUERY"})
       /\ Tm(n, p) = NoTM
       /\ Sells(n, a)
       /\ \/ /\ ~CanReceive(books[n], p)
             /\ Reply(Item("VOTE_NO", id, 0, VoteNoTx))
             /\ UNCHANGED <<books, currentTX, ask>>
          \/ /\ CanReceive(books[n], p) /\ Leftover(a) = 0
             /\ Reply(Item("VOTE_NO", id, 0, VoteNoTx))
             /\ books' = [books EXCEPT ![n] = made]
             /\ UNCHANGED <<currentTX, ask>>
          \/ /\ CanReceive(books[n], p) /\ Leftover(a) # 0
             /\ \E raw \in RawTxs(a, id, amount) :
                   /\ ask' = [ask EXCEPT ![a].commitment = @ + amount,
                                         ![a].coins = raw.coins]
                   /\ \/ /\ raw.made
                         /\ books' = [books EXCEPT ![n] =
                                SetBtcTxId(cut, Payee(id), id)]
                         /\ SetTM(n, id, Cohorte("payee", "QUERY", TRUE))
                         /\ Reply(Item("VOTE_YES", id, amount, id))
                      \/ /\ ~raw.made
                         /\ books' = [books EXCEPT ![n] = cut]
                         /\ SetTM(n, id,
                                  Cohorte("payee", "ABORT_REQUEST", TRUE))
                         /\ Reply(Order("ABORT_REQUEST", id))
       /\ UNCHANGED <<bid, market, tunnels, chain, outside>>

\* The order after a sale, which is published even if the order was cancelled;
\* one that is sold completely is deleted.
Uncommit(order, amount) == [order EXCEPT !.commitment = @ - amount]
PartlySold(order, amount) == [Uncommit(order, amount) EXCEPT !.amount = @ - amount]
Published(order) == [order EXCEPT !.state = IF @ = "cancelled" THEN "revived" ELSE @]
FillAsk(a, amount, published) ==
    IF ask[a].amount > amount
    THEN LET left == PartlySold(ask[a], amount)
         IN ask' = [ask EXCEPT ![a] = IF published THEN Published(left) ELSE left]
    ELSE ask' = [ask EXCEPT ![a].state = "deleted"]

\* doCommit: the contract is stored and the order updated before the Bitcoin
\* transaction goes out.  It does not go out when the order cannot be stored
\* or when Bitcoin refuses it, and nobody is told.  A contract that cannot
\* be stored stays, with a request to abort.
PayeeCommit(n, p) ==
    LET id == Head(net[p][n]).tx
        a == id[1]
        active == Activate(books[n], Payee(id))
        amount == books[n].contract[Payee(id)].amount
    IN /\ Receives(n, p, {"COMMIT"})
       /\ Tm(n, p).role = "payee" /\ Tm(n, p).phase = "QUERY"
       /\ \/ /\ books' = [books EXCEPT ![n] = Persist(active, Payee(id))]
             /\ \/ FillAsk(a, amount, TRUE) /\ chain' = chain \cup {id}
                \/ /\ "bitcoin" \in Faults
                   /\ FillAsk(a, amount, TRUE) /\ UNCHANGED chain
                \/ /\ "dberror" \in Faults /\ ask[a].amount > amount
                   /\ FillAsk(a, amount, FALSE) /\ UNCHANGED chain
             /\ Forget(n, id)
             /\ net' = Taken(n, p)
          \/ /\ "dberror" \in Faults
             /\ books' = [books EXCEPT ![n] = active]
             /\ SetTM(n, id, Cohorte("payee", "ABORT_REQUEST", TRUE))
             /\ net' = Sent(Taken(n, p), n, p, Order("ABORT_REQUEST", id))
             /\ UNCHANGED <<ask, chain>>
       /\ UNCHANGED <<bid, market, tunnels, outside>>

\* TmContractCohortePayee::rollback and the end of the manager.
StillCommitted(a, amount) == ask[a].commitment
UncommittedTwice(a, amount) == ask[a].commitment - 2 * amount
Uncommitted(a, amount) == ask[a].commitment - amount
RollBackPayee(n, id) ==
    /\ IF currentTX[n][id].contract
       THEN /\ ask' = [ask EXCEPT ![id[1]].commitment =
                  Uncommitted(id[1], books[n].contract[Payee(id)].amount)]
            /\ books' = [books EXCEPT ![n] = RmContract(@, Payee(id))]
       ELSE UNCHANGED <<ask, books>>
    /\ Forget(n, id)
    /\ UNCHANGED <<bid, market>>

PayeeAbort(n, p) ==
    LET id == Head(net[p][n]).tx
    IN /\ Receives(n, p, {"ABORT"})
       /\ Tm(n, p).role = "payee"
       /\ RollBackPayee(n, id)
       /\ net' = Taken(n, p)
       /\ UNCHANGED <<tunnels, chain, outside>>

\* COMMIT for a transaction that timed out, while the ask is still there: a
\* new payee wants to request an abort for m_myOrder, which was not assigned.
PayeeUninitialised(n, p) ==
    LET id == Head(net[p][n]).tx
    IN /\ Receives(n, p, {"COMMIT"})
       /\ Tm(n, p) = NoTM
       /\ Sells(n, id[1])
       /\ \/ Die(n)
          \/ /\ SetTM(n, id, Cohorte("payee", "ABORT_REQUEST", FALSE))
             /\ \/ net' = Sent(Taken(n, p), n, p, Order("ABORT_REQUEST", id))
                \/ net' = Taken(n, p)
             /\ UNCHANGED <<orders, books, tunnels, chain, outside>>

\* ABORT for a transaction that timed out, while the ask is still there: the
\* new payee has no contract to roll back and goes at once.
PayeeGone(n, p) ==
    /\ Receives(n, p, {"ABORT"})
    /\ Tm(n, p) = NoTM
    /\ Sells(n, Head(net[p][n]).tx[1])
    /\ net' = Taken(n, p)
    /\ UNCHANGED <<orders, currentTX, books, tunnels, chain, outside>>

\* An item that a payee does not know, as a hop's request to abort because the
\* vote came too late: the exception is caught and the item is gone.  A payee
\* that was made for it stays until it times out.
PayeeUnknownPhase(n, p) ==
    LET id == Head(net[p][n]).tx
    IN /\ Receives(n, p, {"VOTE_YES", "VOTE_NO", "ABORT_REQUEST"})
       /\ \/ Tm(n, p).role = "payee" /\ UNCHANGED currentTX
          \/ /\ Tm(n, p) = NoTM
             /\ Sells(n, id[1])
             /\ SetTM(n, id, Cohorte("payee", "INIT", FALSE))
       /\ net' = Taken(n, p)
       /\ UNCHANGED <<orders, books, tunnels, chain, outside>>

-----------------------------------------------------------------------------
(* The friends in between: TmContractCohorteHop.  A node that has neither  *)
(* the transaction nor the ask makes a new hop for whatever arrives.       *)

ActsAsHop(n, p) ==
    \/ Tm(n, p).role = "hop"
    \/ Tm(n, p) = NoTM /\ ~Sells(n, Head(net[p][n]).tx[1])

Busy(n, p, phase) == Tm(n, p).role = "hop" /\ Tm(n, p).phase = phase
HasContracts(n, p) == Tm(n, p).role = "hop" /\ Tm(n, p).contract

\* Where forwardItem sends an item of a friend: the tunnel is that of the ask.
ToSeller(n, a) == IF tunnels[n][a] = NoTunnel THEN NoHop ELSE tunnels[n][a][2]
ToBuyer(n, a) == IF tunnels[n][a] = NoTunnel THEN NoHop ELSE tunnels[n][a][1]

\* doQuery: dig the tunnel, make the two contracts, pass on what the friend
\* behind can pay for.
HopQuery(n, p) ==
    LET item == Head(net[p][n])
        id == item.tx
        next == NextHop[n][id[1]]
        received == NewReceiver(books[n], Payee(id), p, item.amount)
        both == NewSender(received, Payer(id), next, item.amount)
        amount == received.contract[Payee(id)].amount
    IN /\ Receives(n, p, {"QUERY"})
       /\ Tm(n, p) = NoTM /\ ActsAsHop(n, p)
       /\ tunnels' = [tunnels EXCEPT ![n][id[1]] = <<p, next>>]
       /\ \/ /\ ~CanReceive(books[n], p)
             /\ net' = Sent(Taken(n, p), n, p, Item("VOTE_NO", id, 0, VoteNoTx))
             /\ UNCHANGED <<books, currentTX>>
          \/ /\ CanReceive(books[n], p)
             /\ books' = [books EXCEPT ![n] = both]
             /\ SetTM(n, id, Cohorte("hop", "QUERY", TRUE))
             /\ net' = Sent(Taken(n, p), n, next,
                            Item("QUERY", id, amount, NoBtcTx))
       /\ UNCHANGED <<orders, chain, outside>>

\* doVote: both contracts take the seller's amount and Bitcoin transaction.
HopVote(n, p) ==
    LET item == Head(net[p][n])
        id == item.tx
        Vote(b, ref) == SetBtcAmount(SetBtcTxId(b, ref, item.btcTx), ref,
                                     item.amount)
    IN /\ Receives(n, p, {"VOTE_YES", "VOTE_NO"})
       /\ Busy(n, p, "QUERY")
       /\ books' = [books EXCEPT ![n] = Vote(Vote(@, Payer(id)), Payee(id))]
       /\ SetTM(n, id, Cohorte("hop", item.phase, TRUE))
       /\ net' = Sent(Taken(n, p), n, ToBuyer(n, id[1]), item)
       /\ UNCHANGED <<orders, tunnels, chain, outside>>

\* doCommit: both contracts are in force and stored, one after the other,
\* before the COMMIT is passed on.  If that fails an abort is requested.
HopCommit(n, p) ==
    LET item == Head(net[p][n])
        id == item.tx
        active == Activate(Activate(books[n], Payer(id)), Payee(id))
        paying == Persist(active, Payer(id))
    IN /\ Receives(n, p, {"COMMIT"})
       /\ Busy(n, p, "VOTE_YES")
       /\ \/ /\ books' = [books EXCEPT ![n] = Persist(paying, Payee(id))]
             /\ Forget(n, id)
             /\ net' = Sent(Taken(n, p), n, ToSeller(n, id[1]), item)
          \/ /\ "dberror" \in Faults
             /\ \E b \in {active, paying} : books' = [books EXCEPT ![n] = b]
             /\ SetTM(n, id, Cohorte("hop", "ABORT_REQUEST", TRUE))
             /\ net' = Sent(Taken(n, p), n, p, Order("ABORT_REQUEST", id))
       /\ UNCHANGED <<orders, tunnels, chain, outside>>

\* A vote or a COMMIT that the hop is not waiting for, or that belongs to a
\* transaction that is gone: request an abort from the friend it came from.
HopOutOfPhase(n, p) ==
    LET id == Head(net[p][n]).tx
    IN /\ Receives(n, p, {"VOTE_YES", "VOTE_NO", "COMMIT"})
       /\ ActsAsHop(n, p)
       /\ ~Busy(n, p, IF Head(net[p][n]).phase = "COMMIT"
                      THEN "VOTE_YES" ELSE "QUERY")
       /\ SetTM(n, id, Cohorte("hop", "ABORT_REQUEST", HasContracts(n, p)))
       /\ net' = Sent(Taken(n, p), n, p, Order("ABORT_REQUEST", id))
       /\ UNCHANGED <<orders, books, tunnels, chain, outside>>

\* TmContractCohorteHop::rollback and the end of the manager.
RollBackHop(n, id) ==
    /\ books' = IF ~currentTX[n][id].contract THEN books
                ELSE [books EXCEPT ![n] =
                         RmContract(RmContract(@, Payer(id)), Payee(id))]
    /\ Forget(n, id)
    /\ UNCHANGED orders

\* ABORT: pass it on, roll back.
HopAbort(n, p) ==
    LET item == Head(net[p][n])
        id == item.tx
    IN /\ Receives(n, p, {"ABORT"})
       /\ \/ Tm(n, p).role = "hop" /\ RollBackHop(n, id)
          \/ /\ Tm(n, p) = NoTM /\ ActsAsHop(n, p)
             /\ UNCHANGED <<orders, currentTX, books>>
       /\ net' = Sent(Taken(n, p), n, ToSeller(n, id[1]), item)
       /\ UNCHANGED <<tunnels, chain, outside>>

\* ABORT_REQUEST: pass it on; without a tunnel the manager goes, and leaves
\* what it has.
HopAbortRequest(n, p) ==
    LET item == Head(net[p][n])
        id == item.tx
    IN /\ Receives(n, p, {"ABORT_REQUEST"})
       /\ ActsAsHop(n, p)
       /\ net' = Sent(Taken(n, p), n, ToBuyer(n, id[1]), item)
       /\ \/ tunnels[n][id[1]] = NoTunnel /\ Forget(n, id)
          \/ /\ tunnels[n][id[1]] # NoTunnel
             /\ SetTM(n, id, IF Tm(n, p) = NoTM
                             THEN Cohorte("hop", "INIT", FALSE) ELSE Tm(n, p))
       /\ UNCHANGED <<orders, books, tunnels, chain, outside>>

-----------------------------------------------------------------------------
\* A manager that keeps a pointer to an order or contract that was deleted.
Dangling(n, id) ==
    LET tm == currentTX[n][id]
        Deleted(ref) == ~Listed(books[n], ref)
    IN \/ /\ tm.role = "coordinator"
          /\ tm.other = "freed" \/ bid[id[2]].state = "deleted" \/ Deleted(Payer(id))
       \/ tm.role = "payee" /\ tm.contract /\ Deleted(Payee(id))
       \/ /\ tm.role = "hop" /\ tm.contract
          /\ Deleted(Payer(id)) \/ Deleted(Payee(id))

\* The handler of an item uses what was deleted, and the process dies of it.
UseAfterFree(n, p) ==
    /\ Receives(n, p, Phases)
    /\ Dangling(n, Head(net[p][n]).tx)
    /\ Die(n)

\* Every manager, in whatever phase, expires a minute after it was made.
EndExpires(n, id) == currentTX[n][id].role \in {"coordinator", "payee"}
Expires(n, id) == currentTX[n][id] # NoTM

\* TransactionManager::timeout on one manager: it is rolled back and goes,
\* and the other nodes are not told.  (That the loop goes on with an erased
\* iterator, and what it deletes, may end the process.)
RollBackOnTimeout(n, id) ==
    \/ currentTX[n][id].role = "coordinator" /\ RollBackCoordinator(n, id)
    \/ currentTX[n][id].role = "payee" /\ RollBackPayee(n, id)
    \/ currentTX[n][id].role = "hop" /\ RollBackHop(n, id)
Timeout(n, id) ==
    /\ "timeout" \in Faults
    /\ up[n]
    /\ Expires(n, id)
    /\ \/ /\ RollBackOnTimeout(n, id)
          /\ UNCHANGED <<tunnels, net, chain, outside>>
       \/ Die(n)

HandleTxItem(n, p) ==
    \/ CoordinatorNo(n, p)
    \/ CoordinatorYes(n, p)
    \/ PayeeQuery(n, p)
    \/ PayeeCommit(n, p)
    \/ PayeeAbort(n, p)
    \/ PayeeUninitialised(n, p)
    \/ PayeeGone(n, p)
    \/ PayeeUnknownPhase(n, p)
    \/ HopQuery(n, p)
    \/ HopVote(n, p)
    \/ HopCommit(n, p)
    \/ HopOutOfPhase(n, p)
    \/ HopAbort(n, p)
    \/ HopAbortRequest(n, p)
    \/ UseAfterFree(n, p)

Next ==
    \E n \in Nodes :
        \/ \E b \in Bids : Match(n, b)
        \/ \E p \in Nodes : HandleTxItem(n, p)
        \/ \E a \in Asks : LearnOrder(n, a)
        \/ \E o \in Asks \cup Bids : CancelOrder(n, o)
        \/ \E id \in TxIds : Timeout(n, id)
        \/ \E p \in Nodes : DropLink(n, p)
        \/ Crash(n)

Spec == Init /\ [][Next]_vars

\* The RetroShare thread handles what arrived, and its janitor runs every
\* ten seconds.
Fairness ==
    \A n \in Nodes :
        /\ \A p \in Nodes : WF_vars(HandleTxItem(n, p))
        /\ WF_vars(\E id \in TxIds : Timeout(n, id))

FairSpec == Spec /\ Fairness

-----------------------------------------------------------------------------
(* Properties.                                                             *)

Promise(n, id, party, peer, amount) ==
    [tx |-> id, party |-> party, peer |-> peer, amount |-> amount,
     btcTx |-> id] \in books[n].stored

Receipts(n) == {row \in books[n].stored : row.party = "receiver"}

\* Bitcoins leave the seller only when his database says which friend pays
\* for them.  Whoever has it in his database that a friend will pay him is in
\* that friend's database as the one to be paid the same amount; and the
\* friend, unless he is the buyer, is to receive the same from the friend
\* before him.  So no one in the chain ends up paying alone, whichever of them
\* times out or dies: contracts are stored from the buyer on.
OwedAlongTheRoute ==
    /\ \A id \in chain : \E row \in Receipts(Owner[id[1]]) : row.tx = id
    /\ \A n \in Nodes : \A row \in Receipts(n) :
          /\ Promise(row.peer, row.tx, "sender", n, row.amount)
          /\ \/ Owner[row.tx[2]] = row.peer
             \/ \E before \in Nodes :
                   Promise(row.peer, row.tx, "receiver", before, row.amount)

\* What the sales that n processes will take from an ask.
IsSale(n, id) == currentTX[n][id].role = "payee" /\ currentTX[n][id].contract
InFlight(n, a) == {id \in TxIds : id[1] = a /\ IsSale(n, id)}
AmountOf(n, id) == books[n].contract[Payee(id)].amount
Promised(n, a) ==
    SumFunctionOnSet([id \in InFlight(n, a) |-> AmountOf(n, id)], InFlight(n, a))

\* m_commitment is what the transactions that are being processed will take
\* from the order, and never more than is left of it: no coin is sold twice.
CommitmentIsInFlight ==
    \A a \in Asks :
        up[Owner[a]] /\ ask[a].state # "deleted" =>
            /\ ask[a].commitment = Promised(Owner[a], a)
            /\ ask[a].commitment <= ask[a].amount

\* What was sold of an ask and what is left of it is what was offered.
Sales(a) == {row \in Receipts(Owner[a]) : row.tx[1] = a}
SoldOf(a) == SumFunctionOnSet([row \in Sales(a) |-> row.amount], Sales(a))
Unsold(a) == IF ask[a].state = "deleted" THEN 0 ELSE ask[a].amount
SoldWithinVolume == \A a \in Asks : SoldOf(a) = Volume[a] - Unsold(a)

\* Every transaction that was begun ends: again and again nobody has a manager.
TransactionsEnd ==
    []<>(\A n \in Nodes, id \in TxIds : currentTX[n][id] = NoTM)
=============================================================================
