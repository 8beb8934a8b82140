---------------------------- MODULE OrderGossip ----------------------------
(***************************************************************************)
(* How friends learn of an order to sell and of what becomes of it.  The   *)
(* owner publishes it to its friends; whoever is told something new keeps  *)
(* it in its order book and tells its other friends.  Who told a node      *)
(* first is the node's route to the owner, whom it does not know.          *)
(*                                                                         *)
(* All steps are the RetroShare thread's, except the owner's own.  Links   *)
(* are FIFO; when friends connect again they ask for each other's orders.  *)
(* (The answer SENT_ORDERBOOK names no peer and goes nowhere, so no node   *)
(* ever stops asking.)                                                     *)
(***************************************************************************)
EXTENDS Integers, SequencesExt

CONSTANTS
    Nodes,
    Friends,      \* Friends[n]: the friends of n
    Owner,        \* whose order it is
    Nobody,       \* the empty peer address
    Volume,       \* what the order is about when it is placed
    Faults,       \* which happen: "restart", "reconnect", "timeout" (the order's
                  \* day is over), "spend" (credit is used up)
    MaxBreaks     \* bound: how often something restarts, reconnects or is spent

ASSUME GossipAssumption ==
    /\ Owner \in Nodes
    /\ Nobody \notin Nodes
    /\ Friends \in [Nodes -> SUBSET Nodes]
    /\ \A n \in Nodes : n \notin Friends[n]
    /\ \A n, p \in Nodes : p \in Friends[n] <=> n \in Friends[p]
    /\ Volume \in Nat \ {0}
    /\ MaxBreaks \in Nat

VARIABLES
    mine,      \* the owner's object of the order, in MyOrders and in its book
    book,      \* book[n]: what n has in its order book, not being mine
    route,     \* route[n]: n's entry for the order in the routing table
    net,       \* net[f][t]: items f sent to t and t did not handle yet
    insolvent, \* pairs <<n, p>>: n has no credit for a tenth of the order with p
    aged,      \* nodes by whose clock the order is older than a day
    breaks

vars == <<mine, book, route, net, insolvent, aged, breaks>>

NoOrder == [purpose |-> "none", amount |-> 0]
Order(purpose, amount) == [purpose |-> purpose, amount |-> amount]
Request == Order("REQUEST_ORDERBOOK", 0)

Gone == {"FILLED", "CANCEL"}
Kept == {"NEW", "PARTLY_FILLED"}
Orders == [purpose : Kept, amount : 1..Volume]
Items == Orders \cup [purpose : Gone, amount : 0..Volume] \cup {Request}

TypeOK ==
    /\ mine \in Orders \cup {NoOrder}
    /\ book \in [Nodes -> Orders \cup {NoOrder}]
    /\ route \in [Nodes -> Nodes \cup {Nobody}]
    /\ net \in [Nodes -> [Nodes -> Seq(Items)]]
    /\ insolvent \subseteq Nodes \X Nodes
    /\ aged \subseteq Nodes
    /\ breaks \in 0..MaxBreaks

\* processMyOrder has put the order into the owner's book and told friends.
Init ==
    /\ mine = Order("NEW", Volume)
    /\ book = [n \in Nodes |-> NoOrder]
    /\ route = [n \in Nodes |-> Nobody]
    /\ net = [f \in Nodes |-> [t \in Nodes |->
                 IF f = Owner /\ t \in Friends[f] THEN <<Order("NEW", Volume)>>
                 ELSE <<>>]]
    /\ insolvent = {}
    /\ aged = {}
    /\ breaks = 0

-----------------------------------------------------------------------------
(* Sending.                                                                *)

\* publishOrder: to every friend but the one it came from, unless n has no
\* credit with him for a tenth of it.  (The exception that the code makes for
\* orders that are gone is a condition that is always true.)
AudienceWithSender(n, from) == {p \in Friends[n] : <<n, p>> \notin insolvent}
Audience(n, from) == {p \in Friends[n] \ {from} : <<n, p>> \notin insolvent}
Published(links, n, from, order) ==
    [links EXCEPT ![n] = [t \in Nodes |->
        IF t \in Audience(n, from) THEN Append(@[t], order) ELSE @[t]]]

Taken(n, p) == [net EXCEPT ![p][n] = Tail(@)]

-----------------------------------------------------------------------------
(* The owner.                                                              *)

\* A transaction sells a part of the order.
SellPart ==
    /\ mine # NoOrder /\ mine.amount > 1
    /\ \E left \in 1..(mine.amount - 1) :
          /\ mine' = Order("PARTLY_FILLED", left)
          /\ net' = Published(net, Owner, Nobody, mine')
    /\ UNCHANGED <<book, route, insolvent, aged, breaks>>

\* A transaction sells the rest, or the user cancels the order.
Withdraw(purpose) ==
    /\ mine # NoOrder
    /\ mine' = NoOrder
    /\ net' = Published(net, Owner, Nobody, Order(purpose, mine.amount))
    /\ UNCHANGED <<book, route, insolvent, aged, breaks>>

-----------------------------------------------------------------------------
(* p3ZeroReserveRS::handleOrder with OrderBook::processOrder.              *)

Receives(n, p, purposes) ==
    /\ net[p][n] # <<>>
    /\ Head(net[p][n]).purpose \in purposes

\* The route is learned from whatever item comes first.
LearnAlways(n, p) == route' = [route EXCEPT ![n] = p]
LearnRoute(n, p) ==
    route' = [route EXCEPT ![n] = IF @ = Nobody THEN p ELSE @]

IsMine(n) == n = Owner /\ mine # NoOrder

\* One's own order, an order that is too old, a removal of what is not there
\* and news that are none are not passed on.
NeverOld(n) == FALSE
IsOld(n) == n \in aged
IsKnownByName(n, order) ==
    IF book[n] = NoOrder THEN order.purpose \in Gone ELSE order.purpose \in Kept
IsKnown(n, order) ==
    \/ order.purpose \in Gone /\ book[n] = NoOrder
    \/ order.purpose = "NEW" /\ book[n] # NoOrder
    \/ order.purpose = "PARTLY_FILLED" /\ book[n].amount = order.amount
IgnoreOrder(n, p) ==
    /\ Receives(n, p, Kept \cup Gone)
    /\ IsMine(n) \/ IsOld(n) \/ IsKnown(n, Head(net[p][n]))
    /\ LearnRoute(n, p)
    /\ net' = Taken(n, p)
    /\ UNCHANGED <<mine, book, insolvent, aged, breaks>>

\* News: keep them in the book, or take the order out of it, and pass on.
UpdatedAlways(order) == order
Updated(order) == IF order.purpose \in Gone THEN NoOrder ELSE order
AcceptOrder(n, p) ==
    LET order == Head(net[p][n])
    IN /\ Receives(n, p, Kept \cup Gone)
       /\ ~(IsMine(n) \/ IsOld(n) \/ IsKnown(n, order))
       /\ LearnRoute(n, p)
       /\ book' = [book EXCEPT ![n] = Updated(order)]
       /\ net' = Published(Taken(n, p), n, p, order)
       /\ UNCHANGED <<mine, insolvent, aged, breaks>>

\* sendOrderBook: the book, to this friend alone, with the purposes that are
\* kept in it.  The owner's own object is in its book, and no other is then.
Listed(n) == IF IsMine(n) THEN mine ELSE book[n]
SendOrderBook(n, p) ==
    /\ Receives(n, p, {"REQUEST_ORDERBOOK"})
    /\ net' = [Taken(n, p) EXCEPT ![n][p] =
                  IF Listed(n) = NoOrder THEN @ ELSE Append(@, Listed(n))]
    /\ UNCHANGED <<mine, book, route, insolvent, aged, breaks>>

\* OrderBook::timeoutOrders, after a day by the clock of n (when no transaction
\* works on the order).
TimeoutOrders(n) ==
    /\ "timeout" \in Faults
    /\ n \notin aged
    /\ aged' = aged \cup {n}
    /\ book' = [book EXCEPT ![n] = NoOrder]
    /\ mine' = IF n = Owner THEN NoOrder ELSE mine
    /\ UNCHANGED <<route, net, insolvent, breaks>>

-----------------------------------------------------------------------------
(* Friends that connect again (statusChange), and credit that is used up.  *)

\* n and the friends ps connect.  Of what they sent each other the ends keep
\* there[t] and back[f], what arrived, and ask for the other's orders.
Reconnected(n, ps, there, back) ==
    [f \in Nodes |-> [t \in Nodes |->
        IF f = n /\ t \in ps THEN Append(there[t], Request)
        ELSE IF t = n /\ f \in ps THEN Append(back[f], Request)
        ELSE net[f][t]]]
Cut(f, t) == {SubSeq(net[f][t], 1, k) : k \in 0..Len(net[f][t])}

Reconnect(n, p) ==
    /\ "reconnect" \in Faults /\ breaks < MaxBreaks
    /\ p \in Friends[n]
    /\ \E there \in Cut(n, p), back \in Cut(p, n) :
          net' = Reconnected(n, {p}, [t \in {p} |-> there], [f \in {p} |-> back])
    /\ breaks' = breaks + 1
    /\ UNCHANGED <<mine, book, route, insolvent, aged>>

\* The orders of others and the routes are in memory only; what n did not
\* handle yet is lost.  The own order is loaded again (MyOrders::init): the
\* database has the amount that is left, and the purpose it was placed with.
Restart(n) ==
    /\ "restart" \in Faults /\ breaks < MaxBreaks
    /\ book' = [book EXCEPT ![n] = NoOrder]
    /\ route' = [route EXCEPT ![n] = Nobody]
    /\ mine' = IF IsMine(n) THEN Order("NEW", mine.amount) ELSE mine
    /\ \E there \in [Friends[n] -> UNION {Cut(n, t) : t \in Friends[n]}] :
          /\ \A t \in Friends[n] : there[t] \in Cut(n, t)
          /\ net' = Reconnected(n, Friends[n], there, [f \in Friends[n] |-> <<>>])
    /\ breaks' = breaks + 1
    /\ UNCHANGED <<insolvent, aged>>

\* n's credit with p is used up.
Spend(n, p) ==
    /\ "spend" \in Faults /\ breaks < MaxBreaks
    /\ p \in Friends[n] /\ <<n, p>> \notin insolvent
    /\ insolvent' = insolvent \cup {<<n, p>>}
    /\ breaks' = breaks + 1
    /\ UNCHANGED <<mine, book, route, net, aged>>

-----------------------------------------------------------------------------
HandleItem(n, p) == IgnoreOrder(n, p) \/ AcceptOrder(n, p) \/ SendOrderBook(n, p)

Next ==
    \/ SellPart
    \/ \E purpose \in Gone : Withdraw(purpose)
    \/ \E n, p \in Nodes : HandleItem(n, p) \/ Reconnect(n, p) \/ Spend(n, p)
    \/ \E n \in Nodes : TimeoutOrders(n) \/ Restart(n)

Spec == Init /\ [][Next]_vars

\* tick handles all that arrived, and the janitor looks at all orders every ten
\* seconds; nobody has to sell, restart or connect.
Fairness ==
    /\ \A n, p \in Nodes : WF_vars(HandleItem(n, p))
    /\ \A n \in Nodes : WF_vars(TimeoutOrders(n))
FairSpec == Spec /\ Fairness

-----------------------------------------------------------------------------
(* Properties.                                                             *)

\* Whoever has the order in its book has a way to the owner, though it knows no
\* more of it than the friend that told it first: every route goes on, and no
\* nodes have routes among themselves only.  (What a transaction sends to the
\* seller would go round and round, or get lost.)
HasWay(n) == n = Owner \/ route[n] # Nobody
BookHasRoute == \A n \in Nodes : book[n] # NoOrder => HasWay(n)
RoutesGoOn == \A n \in Nodes : route[n] # Nobody => HasWay(route[n])
NoCircle ==
    \A S \in SUBSET (Nodes \ {Owner}) :
        S # {} /\ (\A n \in S : route[n] # Nobody) => \E n \in S : route[n] \notin S
RoutesLeadToOwner == BookHasRoute /\ RoutesGoOn /\ NoCircle

\* As long as nothing is lost and no clock is past the order's day, the books
\* say of the order what its owner said last once no news are under way, and the
\* owner has no copy of it.
Quiet == \A f, t \in Nodes : net[f][t] = <<>>
Agreed == \A n \in Nodes : book[n].amount = IF n = Owner THEN 0 ELSE mine.amount
BooksAgree == Quiet /\ aged = {} /\ breaks = 0 => Agreed

\* Why they do, where the friends are a tree and Parent[n] is the one that n has
\* the news from.  Nothing goes another way.  A link brings NEW first, if at all,
\* and a removal last, when the friend has no order any more; after a removal n
\* is told nothing; and once n has handled the last item it has the amount that
\* the friend has now.
Tree(Parent) ==
    /\ Parent \in [Nodes \ {Owner} -> Nodes]
    /\ \A n, p \in Nodes : p \in Friends[n] <=>
          \/ n # Owner /\ p = Parent[n]
          \/ p # Owner /\ n = Parent[p]
    /\ \A S \in SUBSET (Nodes \ {Owner}) : S # {} => \E n \in S : Parent[n] \notin S
Withdrawn(n) ==
    IF n = Owner THEN mine = NoOrder ELSE route[n] # Nobody /\ book[n] = NoOrder
WillHave(p, n) ==
    IF net[p][n] = <<>> THEN book[n] ELSE Updated(net[p][n][Len(net[p][n])])
Follows(n, p) ==
    /\ \A i \in 1..Len(net[p][n]) :
          /\ net[p][n][i].purpose \in Kept \cup Gone
          /\ net[p][n][i].purpose = "NEW" => i = 1 /\ route[n] = Nobody
          /\ net[p][n][i].purpose \in Gone => i = Len(net[p][n]) /\ Withdrawn(p)
    /\ route[n] = Nobody => book[n] = NoOrder
    /\ route[n] # Nobody \/ net[p][n] # <<>> => HasWay(p)
    /\ Withdrawn(n) => net[p][n] = <<>> /\ Withdrawn(p)
    /\ WillHave(p, n).amount = Listed(p).amount
DownTheTree(Parent) ==
    /\ insolvent = {} /\ book[Owner] = NoOrder
    /\ \A f, t \in Nodes : net[f][t] # <<>> => t # Owner /\ f = Parent[t]
    /\ \A n \in Nodes \ {Owner} : Follows(n, Parent[n])
NewsComeDown(Parent) == aged = {} /\ breaks = 0 => DownTheTree(Parent)

\* However the news were lost or went round, one day ends them: nobody has the
\* order for good and nobody talks about it any more.
OrderExpires == <>[](Quiet /\ \A n \in Nodes : book[n] = NoOrder)
=============================================================================
