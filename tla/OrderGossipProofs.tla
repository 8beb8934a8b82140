------------------------- MODULE OrderGossipProofs -------------------------
(***************************************************************************)
(* Proofs about OrderGossip, for any network of friends, any volume and    *)
(* any bound: variables keep their types whatever fails, and as long as no *)
(* node restarts the routes lead to the owner of the order.  Where the     *)
(* friends are a tree, and as long as nothing fails, each node follows the *)
(* one it has the news from, so that all order books agree in the end.     *)
(***************************************************************************)
EXTENDS OrderGossip, SequenceTheorems, TLAPS

-----------------------------------------------------------------------------
(* Items and links.                                                        *)

\* Which items are orders, and which purposes a friend keeps.
LEMMA OrderTypes ==
    /\ Orders \subseteq Items
    /\ Request \in Items
    /\ \A purpose \in Gone, amount \in 0..Volume : Order(purpose, amount) \in Items
    /\ \A purpose \in Kept, amount \in 1..Volume : Order(purpose, amount) \in Orders
    /\ \A o \in Orders : o.purpose \in Kept /\ o.amount \in 1..Volume /\ o # NoOrder
    /\ \A item \in Items :
          /\ item.purpose \in Kept => item \in Orders
          /\ item.purpose \in Kept \cup Gone => item # Request
  BY GossipAssumption DEF Orders, Items, Request, Order, Gone, Kept, NoOrder

Links == [Nodes -> [Nodes -> Seq(Items)]]

\* All that f said and that was not handled is in S.
Says(links, f, S) == \A t \in Nodes : links[f][t] \in Seq(S)

\* Handling an item leaves the rest of the link.
LEMMA TakenKeeps ==
    ASSUME net \in Links, NEW n \in Nodes, NEW p \in Nodes, net[p][n] # <<>>
    PROVE  /\ Taken(n, p) \in Links
           /\ Head(net[p][n]) \in Items
           /\ \A f \in Nodes : \A S : Says(net, f, S) => Says(Taken(n, p), f, S)
<1>1. ASSUME NEW S, net[p][n] \in Seq(S)
      PROVE  Head(net[p][n]) \in S /\ Tail(net[p][n]) \in Seq(S)
  BY <1>1, HeadTailProperties
<1>2. net[p][n] \in Seq(Items)
  BY DEF Links
<1>3. Head(net[p][n]) \in Items /\ Tail(net[p][n]) \in Seq(Items)
  BY <1>1, <1>2
<1>4. Taken(n, p) \in Links
  BY <1>3 DEF Taken, Links
<1>5. ASSUME NEW f \in Nodes, NEW S, Says(net, f, S)
      PROVE  Says(Taken(n, p), f, S)
  <2>1. CASE f = p
    <3>1. net[p][n] \in Seq(S)
      BY <1>5, <2>1 DEF Says
    <3>2. Tail(net[p][n]) \in Seq(S)
      BY <1>1, <3>1
    <3> QED
      BY <1>5, <2>1, <3>2 DEF Says, Taken, Links
  <2>2. CASE f # p
    BY <1>5, <2>2 DEF Says, Taken, Links
  <2> QED
    BY <2>1, <2>2
<1> QED
  BY <1>3, <1>4, <1>5

\* What n publishes, only n says.
LEMMA PublishedKeeps ==
    ASSUME NEW links \in Links, NEW n \in Nodes, NEW from, NEW order \in Items
    PROVE  /\ Published(links, n, from, order) \in Links
           /\ \A f \in Nodes \ {n} : Published(links, n, from, order)[f] = links[f]
<1>1. \A t \in Nodes : Append(links[n][t], order) \in Seq(Items)
  BY DEF Links
<1> QED
  BY <1>1 DEF Published, Links

\* Friends that connect again keep a part of what they said, and ask.
LEMMA ReconnectedKeeps ==
    ASSUME net \in Links, NEW n \in Nodes, NEW ps \in SUBSET Nodes,
           NEW there, NEW back,
           \A t \in ps : there[t] \in Cut(n, t) /\ back[t] \in Cut(t, n) \cup {<<>>}
    PROVE  /\ Reconnected(n, ps, there, back) \in Links
           /\ \A f \in Nodes : \A S : Request \in S /\ Says(net, f, S)
                 => Says(Reconnected(n, ps, there, back), f, S)
<1>1. ASSUME NEW S, NEW f \in Nodes, NEW t \in Nodes, NEW part \in Cut(f, t),
             net[f][t] \in Seq(S)
      PROVE  part \in Seq(S)
  <2>1. PICK k \in 0..Len(net[f][t]) : part = SubSeq(net[f][t], 1, k)
    BY DEF Cut
  <2>2. \A i \in 1..k : net[f][t][i] \in S
    BY <1>1, <2>1, LenProperties, ElementOfSeq
  <2> QED
    BY <2>1, <2>2, SubSeqProperties
<1>2. ASSUME NEW S, Request \in S, NEW f \in Nodes, NEW t \in Nodes,
             net[f][t] \in Seq(S)
      PROVE  Reconnected(n, ps, there, back)[f][t] \in Seq(S)
  <2>1. CASE f = n /\ t \in ps
    <3>1. there[t] \in Seq(S)
      BY <1>1, <1>2, <2>1
    <3> QED
      BY <1>2, <2>1, <3>1, AppendProperties DEF Reconnected
  <2>2. CASE ~(f = n /\ t \in ps) /\ t = n /\ f \in ps
    <3>1. back[f] \in Seq(S)
      BY <1>1, <1>2, <2>2, EmptySeq
    <3> QED
      BY <1>2, <2>2, <3>1, AppendProperties DEF Reconnected
  <2>3. CASE ~(f = n /\ t \in ps) /\ ~(t = n /\ f \in ps)
    BY <1>2, <2>3 DEF Reconnected
  <2> QED
    BY <2>1, <2>2, <2>3
<1>3. \A f, t \in Nodes : Reconnected(n, ps, there, back)[f][t] \in Seq(Items)
  BY <1>2, OrderTypes DEF Links
<1>4. Reconnected(n, ps, there, back) \in Links
  BY <1>3 DEF Reconnected, Links
<1>5. ASSUME NEW f \in Nodes, NEW S, Request \in S, Says(net, f, S)
      PROVE  Says(Reconnected(n, ps, there, back), f, S)
  BY <1>2, <1>5 DEF Says
<1> QED
  BY <1>4, <1>5

-----------------------------------------------------------------------------
(* Type correctness.                                                       *)

\* The program starts with values of the right kinds.
LEMMA InitTypeOK == Init => TypeOK
<1> SUFFICES ASSUME Init PROVE TypeOK
  OBVIOUS
<1>1. Order("NEW", Volume) \in Orders /\ Order("NEW", Volume) \in Items
  BY OrderTypes, GossipAssumption DEF Kept
<1>2. <<>> \in Seq(Items) /\ <<Order("NEW", Volume)>> \in Seq(Items)
  BY <1>1, EmptySeq
<1>3. net \in [Nodes -> [Nodes -> Seq(Items)]]
  BY <1>2 DEF Init
<1> QED
  BY <1>1, <1>3, GossipAssumption DEF Init, TypeOK

\* What n takes of p's link.
LEMMA ReceiveTypes ==
    ASSUME TypeOK, NEW n \in Nodes, NEW p \in Nodes, NEW purposes,
           Receives(n, p, purposes)
    PROVE  /\ net \in Links
           /\ net[p][n] # <<>>
           /\ Taken(n, p) \in Links
           /\ Head(net[p][n]) \in Items
           /\ Head(net[p][n]).purpose \in purposes
  BY TakenKeeps DEF TypeOK, Receives, Links

\* What is kept of the news.
LEMMA UpdatedTypes ==
    ASSUME NEW order \in Items, order.purpose \in Kept \cup Gone
    PROVE  Updated(order) \in Orders \cup {NoOrder}
  BY OrderTypes DEF Updated

\* What a node has in its book is an order, its own or a learned one.
LEMMA ListedTypes ==
    ASSUME TypeOK, NEW n \in Nodes
    PROVE  /\ Listed(n) \in Orders \cup {NoOrder}
           /\ Listed(n) # NoOrder => IsMine(n) \/ book[n] # NoOrder
  BY DEF TypeOK, Listed, IsMine

\* A learned route leads to a node.
LEMMA LearnTypes ==
    ASSUME TypeOK, NEW n \in Nodes, NEW p \in Nodes, LearnRoute(n, p)
    PROVE  route' \in [Nodes -> Nodes \cup {Nobody}]
  BY DEF TypeOK, LearnRoute

\* What the owner does with its order keeps all in its kind.
LEMMA OwnerTypes ==
    ASSUME TypeOK
    PROVE  /\ SellPart => TypeOK'
           /\ \A purpose \in Gone : Withdraw(purpose) => TypeOK'
<1>1. net \in Links /\ Owner \in Nodes
  BY GossipAssumption DEF TypeOK, Links
<1>2. ASSUME SellPart PROVE TypeOK'
  <2>1. PICK left \in 1..(mine.amount - 1) :
             /\ mine' = Order("PARTLY_FILLED", left)
             /\ net' = Published(net, Owner, Nobody, mine')
    BY <1>2 DEF SellPart
  <2>2. mine \in Orders
    BY <1>2 DEF SellPart, TypeOK
  <2>3. left \in 1..Volume
    BY <2>2, OrderTypes, GossipAssumption
  <2>4. mine' \in Orders /\ mine' \in Items
    BY <2>1, <2>3, OrderTypes DEF Kept
  <2>5. net' \in Links
    BY <1>1, <2>1, <2>4, PublishedKeeps
  <2> QED
    BY <1>2, <2>4, <2>5 DEF SellPart, TypeOK, Links
<1>3. ASSUME NEW purpose \in Gone, Withdraw(purpose) PROVE TypeOK'
  <2>1. mine \in Orders
    BY <1>3 DEF Withdraw, TypeOK
  <2>2. mine.amount \in 0..Volume
    BY <2>1, OrderTypes, GossipAssumption
  <2>3. Order(purpose, mine.amount) \in Items
    BY <2>2, OrderTypes
  <2>4. net' \in Links
    BY <1>1, <1>3, <2>3, PublishedKeeps DEF Withdraw
  <2> QED
    BY <1>3, <2>4 DEF Withdraw, TypeOK, Links
<1> QED
  BY <1>2, <1>3

\* What a node does with an item keeps all in its kind.
LEMMA HandlingTypes ==
    ASSUME TypeOK, NEW n \in Nodes, NEW p \in Nodes, HandleItem(n, p)
    PROVE  TypeOK'
<1>1. CASE IgnoreOrder(n, p)
  <2>1. Taken(n, p) \in Links
    BY <1>1, ReceiveTypes DEF IgnoreOrder
  <2>2. route' \in [Nodes -> Nodes \cup {Nobody}]
    BY <1>1, LearnTypes DEF IgnoreOrder
  <2> QED
    BY <1>1, <2>1, <2>2 DEF IgnoreOrder, TypeOK, Links
<1>2. CASE AcceptOrder(n, p)
  <2> DEFINE order == Head(net[p][n])
  <2>1. /\ Taken(n, p) \in Links
        /\ order \in Items
        /\ order.purpose \in Kept \cup Gone
    BY <1>2, ReceiveTypes DEF AcceptOrder
  <2>2. route' \in [Nodes -> Nodes \cup {Nobody}]
    BY <1>2, LearnTypes DEF AcceptOrder
  <2>3. book' \in [Nodes -> Orders \cup {NoOrder}]
    BY <1>2, <2>1, UpdatedTypes DEF AcceptOrder, TypeOK
  <2>4. Published(Taken(n, p), n, p, order) \in Links
    BY <2>1, PublishedKeeps
  <2> QED
    BY <1>2, <2>2, <2>3, <2>4 DEF AcceptOrder, TypeOK, Links
<1>3. CASE SendOrderBook(n, p)
  <2>1. Taken(n, p) \in Links
    BY <1>3, ReceiveTypes DEF SendOrderBook
  <2>2. Listed(n) # NoOrder => Listed(n) \in Items
    BY ListedTypes, OrderTypes
  <2>3. (IF Listed(n) = NoOrder THEN Taken(n, p)[n][p]
         ELSE Append(Taken(n, p)[n][p], Listed(n))) \in Seq(Items)
    BY <2>1, <2>2, AppendProperties DEF Links
  <2>4. net' \in Links
    BY <1>3, <2>1, <2>3 DEF SendOrderBook, Links
  <2> QED
    BY <1>3, <2>4 DEF SendOrderBook, TypeOK, Links
<1> QED
  BY <1>1, <1>2, <1>3 DEF HandleItem

\* What a node that connects again keeps of its links.
LEMMA ReconnectLinks ==
    ASSUME TypeOK, NEW n \in Nodes, NEW p \in Nodes, Reconnect(n, p)
    PROVE  /\ net' \in Links
           /\ \A f \in Nodes : \A S : Request \in S /\ Says(net, f, S) => Says(net', f, S)
<1>1. PICK there \in Cut(n, p), back \in Cut(p, n) :
           net' = Reconnected(n, {p}, [t \in {p} |-> there], [f \in {p} |-> back])
  BY DEF Reconnect
<1>2. net \in Links
  BY DEF TypeOK, Links
<1> QED
  BY <1>1, <1>2, ReconnectedKeeps

\* A restart empties links or fills them with items.
LEMMA RestartLinks ==
    ASSUME TypeOK, NEW n \in Nodes, Restart(n)
    PROVE  net' \in Links
<1>1. PICK there \in [Friends[n] -> UNION {Cut(n, t) : t \in Friends[n]}] :
           /\ \A t \in Friends[n] : there[t] \in Cut(n, t)
           /\ net' = Reconnected(n, Friends[n], there, [f \in Friends[n] |-> <<>>])
  BY DEF Restart
<1>2. net \in Links /\ Friends[n] \in SUBSET Nodes
  BY GossipAssumption DEF TypeOK, Links
<1> QED
  BY <1>1, <1>2, ReconnectedKeeps

\* Every step keeps all in its kind.
LEMMA StepTypes == TypeOK /\ [Next]_vars => TypeOK'
<1> SUFFICES ASSUME TypeOK, [Next]_vars PROVE TypeOK'
  OBVIOUS
<1>1. CASE SellPart
  BY <1>1, OwnerTypes
<1>2. ASSUME NEW purpose \in Gone, Withdraw(purpose) PROVE TypeOK'
  BY <1>2, OwnerTypes
<1>3. ASSUME NEW n \in Nodes, NEW p \in Nodes, HandleItem(n, p) PROVE TypeOK'
  BY <1>3, HandlingTypes
<1>4. ASSUME NEW n \in Nodes, NEW p \in Nodes, Reconnect(n, p) PROVE TypeOK'
  <2>1. net' \in Links
    BY <1>4, ReconnectLinks
  <2>2. breaks' \in 0..MaxBreaks
    BY <1>4, GossipAssumption DEF Reconnect, TypeOK
  <2> QED
    BY <1>4, <2>1, <2>2 DEF Reconnect, TypeOK, Links
<1>5. ASSUME NEW n \in Nodes, NEW p \in Nodes, Spend(n, p) PROVE TypeOK'
  <2>1. insolvent' \subseteq Nodes \X Nodes
    BY <1>5 DEF Spend, TypeOK
  <2>2. breaks' \in 0..MaxBreaks
    BY <1>5, GossipAssumption DEF Spend, TypeOK
  <2> QED
    BY <1>5, <2>1, <2>2 DEF Spend, TypeOK
<1>6. ASSUME NEW n \in Nodes, TimeoutOrders(n) PROVE TypeOK'
  BY <1>6 DEF TimeoutOrders, TypeOK
<1>7. ASSUME NEW n \in Nodes, Restart(n) PROVE TypeOK'
  <2>1. net' \in Links
    BY <1>7, RestartLinks
  <2>2. mine' \in Orders \cup {NoOrder}
    <3>1. mine # NoOrder => Order("NEW", mine.amount) \in Orders
      BY OrderTypes DEF TypeOK, Kept
    <3> QED
      BY <1>7, <3>1 DEF Restart, TypeOK, IsMine
  <2>3. breaks' \in 0..MaxBreaks
    BY <1>7, GossipAssumption DEF Restart, TypeOK
  <2>4. /\ book' \in [Nodes -> Orders \cup {NoOrder}]
        /\ route' \in [Nodes -> Nodes \cup {Nobody}]
        /\ insolvent' = insolvent /\ aged' = aged
    BY <1>7 DEF Restart, TypeOK
  <2> QED
    BY <2>1, <2>2, <2>3, <2>4 DEF TypeOK, Links
<1>8. CASE UNCHANGED vars
  BY <1>8 DEF vars, TypeOK
<1> QED
  BY <1>1, <1>2, <1>3, <1>4, <1>5, <1>6, <1>7, <1>8 DEF Next

\* Every variable keeps its type, whatever restarts, connects again, times out
\* or is spent: nothing that p3ZeroReserveRS handles puts a removal, or an
\* amount that the order never had, into an order book.
THEOREM GossipTypes == Spec => []TypeOK
<1> QED
  BY InitTypeOK, StepTypes, PTL DEF Spec

-----------------------------------------------------------------------------
(* Routes.                                                                 *)

\* Who has no way to the owner does not talk about the order.
NewsHaveRoute == \A f \in Nodes : ~HasWay(f) => Says(net, f, {Request})
RouteInv == TypeOK /\ RoutesLeadToOwner /\ NewsHaveRoute

\* In the beginning nobody has an order of somebody else.
LEMMA InitRoutes == Init => RouteInv
<1> SUFFICES ASSUME Init PROVE RouteInv
  OBVIOUS
<1>1. TypeOK
  BY InitTypeOK
<1>2. \A f \in Nodes \ {Owner} : Says(net, f, {Request})
  BY EmptySeq DEF Init, Says
<1>3. NewsHaveRoute
  BY <1>2 DEF NewsHaveRoute, HasWay
<1>4. RoutesLeadToOwner
  BY DEF Init, RoutesLeadToOwner, BookHasRoute, RoutesGoOn, NoCircle
<1> QED
  BY <1>1, <1>3, <1>4 DEF RouteInv

\* News come from somebody who has a way.
LEMMA NewsFromWay ==
    ASSUME RouteInv, NEW n \in Nodes, NEW p \in Nodes, Receives(n, p, Kept \cup Gone)
    PROVE  HasWay(p)
<1> SUFFICES ASSUME ~HasWay(p) PROVE FALSE
  OBVIOUS
<1>1. net[p][n] \in Seq({Request}) /\ net[p][n] # <<>>
  BY DEF RouteInv, NewsHaveRoute, Says, Receives
<1>2. Head(net[p][n]) = Request
  BY <1>1, HeadTailProperties
<1> QED
  BY <1>2, OrderTypes DEF Receives

\* A route to somebody who has a way closes no circle: no route led to a node
\* that had none.
LEMMA LearnKeepsRoutes ==
    ASSUME RouteInv, NEW n \in Nodes, NEW p \in Nodes, HasWay(p), LearnRoute(n, p)
    PROVE  /\ RoutesGoOn' /\ NoCircle'
           /\ HasWay(n)'
           /\ \A f \in Nodes : HasWay(f) => HasWay(f)'
<1>1. Nobody \notin Nodes /\ route \in [Nodes -> Nodes \cup {Nobody}]
  BY GossipAssumption DEF RouteInv, TypeOK
<1>2. CASE route[n] # Nobody
  <2>1. route' = route
    BY <1>1, <1>2 DEF LearnRoute
  <2> QED
    BY <1>2, <2>1 DEF RouteInv, RoutesLeadToOwner, RoutesGoOn, NoCircle, HasWay
<1>3. CASE route[n] = Nobody
  <2>1. route' = [route EXCEPT ![n] = p]
    BY <1>3 DEF LearnRoute
  <2>2. \A f \in Nodes : HasWay(f) => HasWay(f)'
    BY <1>1, <2>1 DEF HasWay
  <2>3. HasWay(n)'
    BY <1>1, <2>1 DEF HasWay
  <2>4. RoutesGoOn'
    BY <1>1, <2>1, <2>2 DEF RouteInv, RoutesLeadToOwner, RoutesGoOn
  <2>5. ASSUME NEW S \in SUBSET (Nodes \ {Owner}), S # {},
               \A m \in S : route'[m] # Nobody
        PROVE  \E m \in S : route'[m] \notin S
    <3>1. CASE n \notin S
      <4>1. \A m \in S : route'[m] = route[m]
        BY <1>1, <2>1, <3>1
      <4> QED
        BY <2>5, <4>1 DEF RouteInv, RoutesLeadToOwner, NoCircle
    <3>2. CASE S = {n}
      <4>1. ~HasWay(n)
        BY <1>3, <3>2 DEF HasWay
      <4> QED
        BY <1>1, <2>1, <3>2, <4>1
    <3>3. CASE n \in S /\ S # {n}
      <4> DEFINE others == S \ {n}
      <4>1. others # {} /\ others \in SUBSET (Nodes \ {Owner})
        BY <3>3
      <4>2. \A m \in others : route'[m] = route[m] /\ route[m] # Nobody
        BY <1>1, <2>1, <2>5
      <4>3. PICK m \in others : route[m] \notin others
        BY <4>1, <4>2 DEF RouteInv, RoutesLeadToOwner, NoCircle
      <4>4. HasWay(route[m])
        BY <4>2 DEF RouteInv, RoutesLeadToOwner, RoutesGoOn
      <4>5. ~HasWay(n)
        BY <1>3, <3>3 DEF HasWay
      <4> QED
        BY <4>2, <4>3, <4>4, <4>5
    <3> QED
      BY <3>1, <3>2, <3>3
  <2>6. NoCircle'
    BY <2>5 DEF NoCircle
  <2> QED
    BY <2>2, <2>3, <2>4, <2>6
<1> QED
  BY <1>2, <1>3

\* A node that reads an item has its route from the friend who sent it.
LEMMA HandlingKeepsRoutes ==
    ASSUME RouteInv, NEW n \in Nodes, NEW p \in Nodes, HandleItem(n, p)
    PROVE  RoutesLeadToOwner' /\ NewsHaveRoute'
<1>1. TypeOK /\ net \in Links /\ Request \in {Request}
  BY DEF RouteInv, TypeOK, Links
<1>2. ASSUME net[p][n] # <<>>, NEW f \in Nodes, ~HasWay(f)
      PROVE  Says(Taken(n, p), f, {Request})
  BY <1>1, <1>2, TakenKeeps DEF RouteInv, NewsHaveRoute
<1>3. CASE IgnoreOrder(n, p)
  <2>1. HasWay(p) /\ net[p][n] # <<>>
    BY <1>3, NewsFromWay DEF IgnoreOrder, Receives
  <2>2. /\ RoutesGoOn' /\ NoCircle'
        /\ \A f \in Nodes : HasWay(f) => HasWay(f)'
    BY <1>3, <2>1, LearnKeepsRoutes DEF IgnoreOrder
  <2>3. NewsHaveRoute'
    BY <1>2, <1>3, <2>1, <2>2 DEF IgnoreOrder, NewsHaveRoute
  <2>4. BookHasRoute'
    BY <1>3, <2>2 DEF IgnoreOrder, RouteInv, RoutesLeadToOwner, BookHasRoute
  <2> QED
    BY <2>2, <2>3, <2>4 DEF RoutesLeadToOwner
<1>4. CASE AcceptOrder(n, p)
  <2> DEFINE order == Head(net[p][n])
  <2>1. /\ HasWay(p) /\ net[p][n] # <<>>
        /\ Taken(n, p) \in Links /\ order \in Items
    BY <1>1, <1>4, NewsFromWay, ReceiveTypes DEF AcceptOrder, Receives
  <2>2. /\ RoutesGoOn' /\ NoCircle' /\ HasWay(n)'
        /\ \A f \in Nodes : HasWay(f) => HasWay(f)'
    BY <1>4, <2>1, LearnKeepsRoutes DEF AcceptOrder
  <2>3. ASSUME NEW f \in Nodes, ~HasWay(f)' PROVE Says(net', f, {Request})
    <3>1. ~HasWay(f) /\ f # n
      BY <2>2, <2>3
    <3>2. net'[f] = Taken(n, p)[f]
      BY <1>4, <2>1, <3>1, PublishedKeeps DEF AcceptOrder
    <3> QED
      BY <1>2, <2>1, <3>1, <3>2 DEF Says
  <2>4. \A f \in Nodes \ {n} : book'[f] = book[f]
    BY <1>1, <1>4 DEF AcceptOrder, TypeOK
  <2>5. BookHasRoute'
    BY <2>2, <2>4 DEF RouteInv, RoutesLeadToOwner, BookHasRoute
  <2> QED
    BY <2>2, <2>3, <2>5 DEF RoutesLeadToOwner, NewsHaveRoute
<1>5. CASE SendOrderBook(n, p)
  <2>1. /\ net[p][n] # <<>> /\ Taken(n, p) \in Links
        /\ route' = route /\ book' = book
    BY <1>1, <1>5, ReceiveTypes DEF SendOrderBook
  <2>2. RoutesLeadToOwner'
    BY <2>1 DEF RouteInv, RoutesLeadToOwner, BookHasRoute, RoutesGoOn, NoCircle, HasWay
  <2>3. Listed(n) # NoOrder => HasWay(n)
    BY <1>1, ListedTypes
       DEF RouteInv, RoutesLeadToOwner, BookHasRoute, IsMine, HasWay
  <2>4. ASSUME NEW f \in Nodes, ~HasWay(f) PROVE Says(net', f, {Request})
    <3>1. Says(Taken(n, p), f, {Request})
      BY <1>2, <2>1, <2>4
    <3>2. CASE f = n
      <4>1. net' = [Taken(n, p) EXCEPT ![n][p] = @]
        BY <1>5, <2>3, <2>4, <3>2 DEF SendOrderBook
      <4> QED
        BY <2>1, <3>1, <4>1 DEF Says, Links
    <3>3. CASE f # n
      BY <1>5, <2>1, <3>1, <3>3 DEF SendOrderBook, Says, Links
    <3> QED
      BY <3>2, <3>3
  <2>5. NewsHaveRoute'
    BY <2>1, <2>4 DEF NewsHaveRoute, HasWay
  <2> QED
    BY <2>2, <2>5
<1> QED
  BY <1>3, <1>4, <1>5 DEF HandleItem

\* What the owner publishes, the owner says.
LEMMA OwnerKeepsRoutes ==
    ASSUME RouteInv, SellPart \/ \E purpose \in Gone : Withdraw(purpose)
    PROVE  RoutesLeadToOwner' /\ NewsHaveRoute'
<1>1. net \in Links /\ Owner \in Nodes /\ TypeOK /\ TypeOK'
  BY GossipAssumption, OwnerTypes DEF RouteInv, TypeOK, Links
<1>2. route' = route /\ book' = book
  BY DEF SellPart, Withdraw
<1>3. PICK order \in Items : net' = Published(net, Owner, Nobody, order)
  <2>1. CASE SellPart
    <3>1. mine' \in Items
      BY <1>1, <2>1, OrderTypes DEF SellPart, TypeOK, Order, NoOrder
    <3> QED
      BY <2>1, <3>1 DEF SellPart
  <2>2. ASSUME NEW purpose \in Gone, Withdraw(purpose)
        PROVE  \E order \in Items : net' = Published(net, Owner, Nobody, order)
    <3>1. mine \in Orders
      BY <1>1, <2>2 DEF Withdraw, TypeOK
    <3>2. mine.amount \in 0..Volume
      BY <3>1, OrderTypes, GossipAssumption
    <3> QED
      BY <2>2, <3>2, OrderTypes DEF Withdraw
  <2> QED
    BY <2>1, <2>2
<1>4. \A f \in Nodes \ {Owner} : net'[f] = net[f]
  BY <1>1, <1>3, PublishedKeeps
<1>5. NewsHaveRoute'
  BY <1>2, <1>4 DEF RouteInv, NewsHaveRoute, HasWay, Says
<1>6. RoutesLeadToOwner'
  BY <1>2 DEF RouteInv, RoutesLeadToOwner, BookHasRoute, RoutesGoOn, NoCircle, HasWay
<1> QED
  BY <1>5, <1>6

\* Without restarts every step keeps the routes.
LEMMA StepRoutes ==
    ASSUME "restart" \notin Faults, RouteInv, [Next]_vars
    PROVE  RouteInv'
<1>1. TypeOK'
  BY StepTypes DEF RouteInv
<1>2. CASE SellPart \/ \E purpose \in Gone : Withdraw(purpose)
  BY <1>1, <1>2, OwnerKeepsRoutes DEF RouteInv
<1>3. ASSUME NEW n \in Nodes, NEW p \in Nodes, HandleItem(n, p) PROVE RouteInv'
  BY <1>1, <1>3, HandlingKeepsRoutes DEF RouteInv
<1>4. ASSUME route' = route,
             \A n \in Nodes : book'[n] # NoOrder => book[n] # NoOrder,
             \A f \in Nodes : Says(net, f, {Request}) => Says(net', f, {Request})
      PROVE  RouteInv'
  <2>1. RoutesLeadToOwner'
    BY <1>4 DEF RouteInv, RoutesLeadToOwner, BookHasRoute, RoutesGoOn, NoCircle, HasWay
  <2>2. NewsHaveRoute'
    BY <1>4 DEF RouteInv, NewsHaveRoute, HasWay
  <2> QED
    BY <1>1, <2>1, <2>2 DEF RouteInv
<1>5. ASSUME NEW n \in Nodes, NEW p \in Nodes, Reconnect(n, p) PROVE RouteInv'
  <2>1. \A f \in Nodes : Says(net, f, {Request}) => Says(net', f, {Request})
    BY <1>5, ReconnectLinks DEF RouteInv
  <2> QED
    BY <1>4, <1>5, <2>1 DEF Reconnect
<1>6. ASSUME NEW n \in Nodes, NEW p \in Nodes, Spend(n, p) PROVE RouteInv'
  BY <1>4, <1>6 DEF Spend
<1>7. ASSUME NEW n \in Nodes, TimeoutOrders(n) PROVE RouteInv'
  <2>1. \A m \in Nodes : book'[m] # NoOrder => book[m] # NoOrder
    BY <1>7 DEF TimeoutOrders, RouteInv, TypeOK
  <2> QED
    BY <1>4, <1>7, <2>1 DEF TimeoutOrders
<1>8. CASE UNCHANGED vars
  BY <1>4, <1>8 DEF vars
<1> QED
  BY <1>2, <1>3, <1>5, <1>6, <1>7, <1>8 DEF Next, Restart

\* As long as no node restarts, whoever has the order in its book has a way to
\* the owner, in every network of friends: the routes that TraceRouter gathers
\* from the friends that told a node first run in no circle, whatever is lost,
\* comes twice, late or by another way, and whatever times out.
THEOREM RoutesAlwaysLeadToOwner ==
    ASSUME "restart" \notin Faults
    PROVE  Spec => []RoutesLeadToOwner
<1>1. Init => RouteInv
  BY InitRoutes
<1>2. RouteInv /\ [Next]_vars => RouteInv'
  BY StepRoutes
<1>3. RouteInv => RoutesLeadToOwner
  BY DEF RouteInv
<1> QED
  BY <1>1, <1>2, <1>3, PTL DEF Spec

-----------------------------------------------------------------------------
(* Trees.                                                                  *)

\* n's link and p's state as the lemmas below need them.
Pair(n, p) == TypeOK /\ TypeOK' /\ Follows(n, p)

\* p's step is none that n, which does nothing, has to hear of.
LEMMA FollowsUnchanged ==
    ASSUME NEW n \in Nodes, NEW p \in Nodes, Follows(n, p),
           net'[p][n] = net[p][n], book'[n] = book[n], route'[n] = route[n],
           Withdrawn(n)' => Withdrawn(n), Withdrawn(p) => Withdrawn(p)',
           HasWay(p) => HasWay(p)', Listed(p)' = Listed(p)
    PROVE  Follows(n, p)'
BY DEF Follows, WillHave, HasWay, Updated

\* The last item of a link that is not handled yet is still the last.
LEMMA TailFacts ==
    ASSUME NEW S, NEW q \in Seq(S), q # <<>>
    PROVE  /\ Len(Tail(q)) = Len(q) - 1
           /\ \A i \in 1..Len(Tail(q)) : Tail(q)[i] = q[i + 1]
           /\ Tail(q) = <<>> <=> Len(q) = 1
           /\ Head(q) = q[1]
           /\ Len(q) \in Nat \ {0}
<1>1. /\ Tail(q) \in Seq(S) /\ Len(Tail(q)) = Len(q) - 1
      /\ \A i \in 1..Len(Tail(q)) : Tail(q)[i] = q[i + 1]
      /\ Head(q) = q[1]
  BY HeadTailProperties
<1>2. Len(q) \in Nat \ {0}
  BY EmptySeq, LenProperties
<1>3. Tail(q) = <<>> <=> Len(Tail(q)) = 0
  BY <1>1, EmptySeq
<1> QED
  BY <1>1, <1>2, <1>3

\* n reads what p said first.
Reads(n, p) ==
    /\ net[p][n] # <<>>
    /\ net'[p][n] = Tail(net[p][n])
    /\ book'[n] = IF IsKnown(n, Head(net[p][n])) THEN book[n]
                  ELSE Updated(Head(net[p][n]))
    /\ route'[n] # Nobody

\* News of which n takes no notice are what n has already.
LEMMA ReadsWhatIsSaid ==
    ASSUME TypeOK, NEW n \in Nodes \ {Owner}, NEW p \in Nodes,
           Follows(n, p), Reads(n, p)
    PROVE  book'[n].amount = Updated(Head(net[p][n])).amount
<1> DEFINE order == Head(net[p][n])
<1>1. net[p][n] \in Seq(Items) /\ net[p][n] # <<>>
  BY DEF TypeOK, Reads
<1>2. order = net[p][n][1] /\ 1 \in 1..Len(net[p][n])
  BY <1>1, TailFacts
<1>3. /\ order.purpose \in Kept \cup Gone
      /\ order.purpose = "NEW" => book[n] = NoOrder
  BY <1>2 DEF Follows
<1>4. CASE order.purpose \in Gone /\ book[n] = NoOrder
  BY <1>4 DEF Reads, Updated
<1>5. CASE order.purpose = "PARTLY_FILLED" /\ book[n].amount = order.amount
  BY <1>5 DEF Reads, Updated, Gone
<1>6. CASE ~IsKnown(n, order)
  BY <1>6 DEF Reads
<1>7. CASE IsKnown(n, order)
  <2> HIDE DEF order
  <2>1. \/ order.purpose \in Gone /\ book[n] = NoOrder
        \/ order.purpose = "PARTLY_FILLED" /\ book[n].amount = order.amount
    BY <1>3, <1>7 DEF IsKnown
  <2> QED
    BY <1>4, <1>5, <2>1
<1> QED
  BY <1>6, <1>7

\* When n reads an item, what is left on the link is news after the first, and
\* the last of them, or what n has now, is what p has.
LEMMA ReadsKeep ==
    ASSUME TypeOK, NEW n \in Nodes \ {Owner}, NEW p \in Nodes,
           Follows(n, p), Reads(n, p),
           Withdrawn(p) => Withdrawn(p)', HasWay(p) => HasWay(p)',
           Listed(p)' = Listed(p)
    PROVE  Follows(n, p)'
<1> DEFINE order == Head(net[p][n])
<1>1. net[p][n] \in Seq(Items) /\ net[p][n] # <<>>
  BY DEF TypeOK, Reads
<1>2. PICK q : q = net[p][n]
  OBVIOUS
<1>3. /\ net'[p][n] = Tail(q)
      /\ Len(Tail(q)) = Len(q) - 1
      /\ \A i \in 1..Len(Tail(q)) : Tail(q)[i] = q[i + 1]
      /\ Tail(q) = <<>> <=> Len(q) = 1
      /\ order = q[1]
      /\ Len(q) \in Nat \ {0}
  BY <1>1, <1>2, TailFacts DEF Reads
<1>4. /\ \A i \in 1..Len(q) :
            /\ q[i].purpose \in Kept \cup Gone
            /\ q[i].purpose = "NEW" => i = 1
            /\ q[i].purpose \in Gone => i = Len(q) /\ Withdrawn(p)
      /\ HasWay(p)
  BY <1>1, <1>2 DEF Follows
<1>5. \A i \in 1..Len(Tail(q)) :
          /\ Tail(q)[i].purpose \in Kept \cup Gone
          /\ Tail(q)[i].purpose # "NEW"
          /\ Tail(q)[i].purpose \in Gone => i = Len(Tail(q)) /\ Withdrawn(p)'
  <2> SUFFICES ASSUME NEW i \in 1..Len(Tail(q))
               PROVE  /\ Tail(q)[i].purpose \in Kept \cup Gone
                      /\ Tail(q)[i].purpose # "NEW"
                      /\ Tail(q)[i].purpose \in Gone
                            => i = Len(Tail(q)) /\ Withdrawn(p)'
    OBVIOUS
  <2>1. i + 1 \in 1..Len(q) /\ i + 1 # 1 /\ Tail(q)[i] = q[i + 1]
    BY <1>3
  <2>2. /\ q[i + 1].purpose \in Kept \cup Gone
        /\ q[i + 1].purpose # "NEW"
        /\ q[i + 1].purpose \in Gone => i + 1 = Len(q) /\ Withdrawn(p)
    BY <1>4, <2>1
  <2> QED
    BY <1>3, <2>1, <2>2
<1>6. WillHave(p, n)'.amount = Listed(p)'.amount
  <2>1. WillHave(p, n) = Updated(q[Len(q)])
    BY <1>1, <1>2 DEF WillHave
  <2>2. CASE Len(q) = 1
    <3>1. WillHave(p, n)' = book'[n]
      BY <1>3, <2>2 DEF WillHave
    <3>2. book'[n].amount = Updated(order).amount
      BY ReadsWhatIsSaid
    <3> QED
      BY <1>3, <2>1, <2>2, <3>1, <3>2 DEF Follows
  <2>3. CASE Len(q) # 1
    <3>1. Len(Tail(q)) \in 1..Len(Tail(q)) /\ Len(Tail(q)) + 1 = Len(q)
      BY <1>3, <2>3
    <3>2. Tail(q)[Len(Tail(q))] = q[Len(q)] /\ Tail(q) # <<>>
      BY <1>3, <2>3, <3>1
    <3>3. WillHave(p, n)' = Updated(q[Len(q)])
      BY <1>3, <3>2 DEF WillHave, Updated
    <3> QED
      BY <2>1, <3>3 DEF Follows
  <2> QED
    BY <2>2, <2>3
<1>7. order \in Items /\ order.purpose \in Kept \cup Gone
  <2>1. order \in Items
    BY <1>1, HeadTailProperties
  <2>2. 1 \in 1..Len(q)
    BY <1>3
  <2>3. q[1].purpose \in Kept \cup Gone
    BY <1>4, <2>2
  <2> QED
    BY <1>3, <2>1, <2>3
<1>8. Withdrawn(n)' => net'[p][n] = <<>> /\ Withdrawn(p)'
  <2> SUFFICES ASSUME Withdrawn(n)'
               PROVE  net'[p][n] = <<>> /\ Withdrawn(p)
    OBVIOUS
  <2>1. book'[n] = NoOrder
    BY DEF Withdrawn
  <2>2. ~Withdrawn(n)
    BY <1>1 DEF Follows
  <2>3. ASSUME order.purpose \in Gone
        PROVE  net'[p][n] = <<>> /\ Withdrawn(p)
    <3>1. q[1].purpose \in Gone /\ 1 \in 1..Len(q)
      BY <1>3, <2>3
    <3>2. 1 = Len(q) /\ Withdrawn(p)
      BY <1>4, <3>1
    <3> QED
      BY <1>3, <3>2
  <2>4. CASE book[n] = NoOrder /\ IsKnown(n, order)
    <3>1. order.purpose \in Gone
      <4>1. order \in Items /\ order.purpose \in Kept \cup Gone
        BY <1>7
      <4>2. order.purpose \in Kept => order.amount # 0
        BY <4>1, OrderTypes
      <4> QED
        BY <2>4, <4>1, <4>2 DEF IsKnown, NoOrder, Kept
    <3> QED
      BY <2>3, <3>1
  <2>5. CASE ~IsKnown(n, order)
    <3>1. order \in Items /\ order.purpose \in Kept \cup Gone
      BY <1>7
    <3>2. order.purpose \in Gone
      BY <2>1, <2>5, <3>1, OrderTypes DEF Reads, Updated
    <3> QED
      BY <2>3, <3>2
  <2>6. CASE book[n] # NoOrder /\ IsKnown(n, order)
    BY <2>1, <2>6 DEF Reads
  <2> QED
    BY <2>4, <2>5, <2>6
<1>9. route'[n] # Nobody /\ HasWay(p)'
  BY <1>4 DEF Reads
<1> QED
  BY <1>3, <1>5, <1>6, <1>8, <1>9 DEF Follows

\* p says one thing more, and it is so: n will have what p has now.
Hears(n, p, order) ==
    /\ net'[p][n] = Append(net[p][n], order)
    /\ book'[n] = book[n] /\ route'[n] = route[n]
    /\ Listed(p)'.amount = Updated(order).amount
    /\ HasWay(p)'
    /\ order.purpose \in Kept \cup Gone
    /\ order.purpose \in Gone => Withdrawn(p)'
    /\ order.purpose = "NEW" => ~HasWay(p)

\* What is said goes behind all that n was told and that is no removal.
LEMMA HearsKeep ==
    ASSUME TypeOK, NEW n \in Nodes \ {Owner}, NEW p \in Nodes, NEW order \in Items,
           Follows(n, p), Hears(n, p, order), ~Withdrawn(p)
    PROVE  Follows(n, p)'
<1>1. PICK q : q = net[p][n]
  OBVIOUS
<1>2. q \in Seq(Items)
  BY <1>1 DEF TypeOK
<1>3. PICK longer : longer = Append(q, order)
  OBVIOUS
<1>4. /\ net'[p][n] = longer
      /\ longer # <<>>
      /\ Len(q) \in Nat /\ Len(longer) = Len(q) + 1
      /\ \A i \in 1..Len(q) : longer[i] = q[i]
      /\ longer[Len(longer)] = order
  BY <1>1, <1>2, <1>3, AppendProperties, LenProperties DEF Hears
<1>5. \A i \in 1..Len(q) :
          /\ q[i].purpose \in Kept \cup Gone
          /\ q[i].purpose = "NEW" => i = 1 /\ route[n] = Nobody
          /\ q[i].purpose \notin Gone
  BY <1>1 DEF Follows
<1>6. order.purpose = "NEW" => Len(q) = 0 /\ route[n] = Nobody
  <2>1. ASSUME order.purpose = "NEW" PROVE q = <<>> /\ route[n] = Nobody
    BY <1>1, <2>1 DEF Follows, Hears
  <2> QED
    BY <2>1, EmptySeq
<1>7. ASSUME NEW i \in 1..Len(longer)
      PROVE  /\ longer[i].purpose \in Kept \cup Gone
             /\ longer[i].purpose = "NEW" => i = 1 /\ route'[n] = Nobody
             /\ longer[i].purpose \in Gone => i = Len(longer) /\ Withdrawn(p)'
  <2>1. CASE i = Len(longer)
    BY <1>4, <1>6, <2>1 DEF Hears
  <2>2. CASE i # Len(longer)
    <3>1. i \in 1..Len(q) /\ longer[i] = q[i]
      BY <1>4, <2>2
    <3> QED
      BY <1>5, <3>1 DEF Hears
  <2> QED
    BY <2>1, <2>2
<1>8. WillHave(p, n)'.amount = Listed(p)'.amount
  BY <1>4 DEF WillHave, Hears, Updated
<1>9. ~Withdrawn(n)'
  <2>1. ~Withdrawn(n)
    BY DEF Follows
  <2> QED
    BY <2>1 DEF Withdrawn, Hears
<1>10. /\ route'[n] = Nobody => book'[n] = NoOrder
       /\ HasWay(p)'
  BY DEF Follows, Hears
<1> QED
  BY <1>4, <1>7, <1>8, <1>9, <1>10 DEF Follows

-----------------------------------------------------------------------------
\* In a tree the friends of a node but the one it has the news from are those
\* that have the news from it, and that one is another node.
LEMMA TreeFriends ==
    ASSUME NEW Parent, Tree(Parent), NEW n \in Nodes, NEW from,
           IF n = Owner THEN from = Nobody ELSE from = Parent[n]
    PROVE  /\ \A t \in Nodes :
                 t \in Friends[n] \ {from} <=> t # Owner /\ Parent[t] = n
           /\ n # Owner => from \in Nodes /\ from # n
<1>1. \A t \in Nodes : t \in Friends[n] <=>
          \/ n # Owner /\ t = Parent[n]
          \/ t # Owner /\ n = Parent[t]
  BY DEF Tree
<1>2. CASE n = Owner
  <2>1. \A t \in Nodes : t # from
    BY <1>2, GossipAssumption
  <2> QED
    BY <1>1, <1>2, <2>1
<1>3. CASE n # Owner
  <2>1. from = Parent[n] /\ from \in Nodes
    BY <1>3 DEF Tree
  <2>2. n # from
    <3>1. from \in Friends[n]
      BY <1>1, <1>3, <2>1
    <3> QED
      BY <3>1, GossipAssumption
  <2>3. from # Owner => Parent[from] # n
    <3> SUFFICES ASSUME from # Owner, Parent[from] = n PROVE FALSE
      OBVIOUS
    <3>1. {n, from} \in SUBSET (Nodes \ {Owner}) /\ {n, from} # {}
      BY <1>3, <2>1
    <3>2. PICK m \in {n, from} : Parent[m] \notin {n, from}
      BY <3>1 DEF Tree
    <3> QED
      BY <2>1, <3>2
  <2> QED
    BY <1>1, <1>3, <2>1, <2>2, <2>3
<1> QED
  BY <1>2, <1>3

\* n's friend in the tree, or Nobody for the owner.
Above(Parent, n) == IF n = Owner THEN Nobody ELSE Parent[n]

\* What a node that has credit with all its friends publishes goes down.
LEMMA PublishedDown ==
    ASSUME NEW Parent, Tree(Parent), NEW links \in Links, NEW n \in Nodes,
           NEW order, insolvent = {}
    PROVE  \A f, t \in Nodes :
              Published(links, n, Above(Parent, n), order)[f][t] =
                 IF f = n /\ t # Owner /\ Parent[t] = n
                 THEN Append(links[f][t], order) ELSE links[f][t]
<1>1. PICK from : from = Above(Parent, n)
  OBVIOUS
<1>2. IF n = Owner THEN from = Nobody ELSE from = Parent[n]
  BY <1>1 DEF Above
<1>3. \A t \in Nodes :
          t \in Friends[n] \ {from} <=> t # Owner /\ Parent[t] = n
  BY <1>2, TreeFriends
<1>4. \A t \in Nodes : t \in Audience(n, from) <=> t # Owner /\ Parent[t] = n
  BY <1>3 DEF Audience
<1>5. \A f, t \in Nodes :
          Published(links, n, from, order)[f][t] =
             IF f = n /\ t \in Audience(n, from)
             THEN Append(links[f][t], order) ELSE links[f][t]
  BY DEF Published, Links
<1> QED
  BY <1>1, <1>4, <1>5

\* Down the tree each node has one friend above it, which is another node.
LEMMA ParentOf ==
    ASSUME NEW Parent, Tree(Parent), NEW n \in Nodes \ {Owner}
    PROVE  Parent[n] \in Nodes /\ Parent[n] # n
BY TreeFriends

\* Only the owner has the order without being told.
LEMMA ListedBelow ==
    ASSUME NEW n \in Nodes \ {Owner}
    PROVE  Listed(n) = book[n]
BY DEF Listed, IsMine

\* What the owner does its friends hear of, as long as it has credit with them.
LEMMA OwnerDown ==
    ASSUME NEW Parent, Tree(Parent), TypeOK, DownTheTree(Parent),
           SellPart \/ \E purpose \in Gone : Withdraw(purpose)
    PROVE  DownTheTree(Parent)'
<1>1. /\ insolvent = {} /\ book[Owner] = NoOrder
      /\ \A f, t \in Nodes : net[f][t] # <<>> => t # Owner /\ f = Parent[t]
      /\ \A n \in Nodes \ {Owner} : Follows(n, Parent[n])
  BY DEF DownTheTree
<1>2. mine # NoOrder /\ mine \in Orders /\ mine.amount \in 0..Volume
  <2>1. mine \in Orders
    BY DEF SellPart, Withdraw, TypeOK
  <2> QED
    BY <2>1, OrderTypes, GossipAssumption
<1>3. book' = book /\ route' = route /\ insolvent' = insolvent
  BY DEF SellPart, Withdraw
<1>4. PICK order \in Items :
          /\ net' = Published(net, Owner, Nobody, order)
          /\ Listed(Owner)'.amount = Updated(order).amount
          /\ order.purpose \in Gone \cup {"PARTLY_FILLED"}
          /\ order.purpose \in Gone => mine' = NoOrder
  <2>1. CASE SellPart
    <3>1. PICK left \in 1..(mine.amount - 1) :
               /\ mine' = Order("PARTLY_FILLED", left)
               /\ net' = Published(net, Owner, Nobody, mine')
      BY <2>1 DEF SellPart
    <3>2. left \in 1..Volume
      BY <1>2, GossipAssumption
    <3>3. Order("PARTLY_FILLED", left) \in Orders
      BY <3>2, OrderTypes DEF Kept
    <3>4. mine' \in Items /\ mine' # NoOrder
      BY <3>1, <3>3, OrderTypes
    <3>5. mine'.purpose = "PARTLY_FILLED"
      BY <3>1 DEF Order
    <3>6. Updated(mine') = mine'
      BY <3>5 DEF Updated, Gone
    <3>7. Listed(Owner)' = mine'
      BY <3>4 DEF Listed, IsMine
    <3> QED
      BY <3>1, <3>4, <3>5, <3>6, <3>7 DEF Gone
  <2>2. ASSUME NEW purpose \in Gone, Withdraw(purpose)
        PROVE  \E order \in Items :
                  /\ net' = Published(net, Owner, Nobody, order)
                  /\ Listed(Owner)'.amount = Updated(order).amount
                  /\ order.purpose \in Gone \cup {"PARTLY_FILLED"}
                  /\ order.purpose \in Gone => mine' = NoOrder
    <3>1. /\ mine' = NoOrder
          /\ net' = Published(net, Owner, Nobody, Order(purpose, mine.amount))
      BY <2>2 DEF Withdraw
    <3>2. Order(purpose, mine.amount) \in Items
      BY <1>2, OrderTypes
    <3>3. Order(purpose, mine.amount).purpose = purpose
      BY DEF Order
    <3>4. Listed(Owner)' = NoOrder
      BY <1>1, <1>3, <3>1 DEF Listed, IsMine
    <3>5. Updated(Order(purpose, mine.amount)) = NoOrder
      BY <3>3 DEF Updated
    <3> QED
      BY <3>1, <3>2, <3>3, <3>4, <3>5
  <2> QED
    BY <2>1, <2>2
<1>5. net \in Links /\ Owner \in Nodes /\ Above(Parent, Owner) = Nobody
  BY GossipAssumption DEF TypeOK, Links, Above
<1>6. \A f, t \in Nodes :
          net'[f][t] = IF f = Owner /\ t # Owner /\ Parent[t] = Owner
                       THEN Append(net[f][t], order) ELSE net[f][t]
  BY <1>1, <1>4, <1>5, PublishedDown
<1>7. ASSUME NEW n \in Nodes \ {Owner} PROVE Follows(n, Parent[n])'
  <2>1. PICK p : p = Parent[n]
    OBVIOUS
  <2>2. p \in Nodes /\ p # n /\ Follows(n, p)
    BY <1>1, <2>1, ParentOf
  <2>3. CASE p = Owner
    <3>1. net'[p][n] = Append(net[p][n], order)
      BY <1>6, <2>1, <2>2, <2>3
    <3>2. HasWay(p) /\ HasWay(p)'
      BY <2>3 DEF HasWay
    <3>3. order.purpose \in Gone => Withdrawn(p)'
      BY <1>4, <2>3 DEF Withdrawn
    <3>4. order.purpose \in Kept \cup Gone /\ order.purpose # "NEW"
      BY <1>4 DEF Kept, Gone
    <3>5. Hears(n, p, order)
      BY <1>3, <1>4, <2>3, <3>1, <3>2, <3>3, <3>4 DEF Hears
    <3>6. ~Withdrawn(p)
      BY <1>2, <2>3 DEF Withdrawn
    <3> QED
      BY <2>1, <2>2, <3>5, <3>6, HearsKeep
  <2>4. CASE p # Owner
    <3>1. net'[p][n] = net[p][n]
      BY <1>6, <2>2, <2>4
    <3>2. Withdrawn(n)' = Withdrawn(n) /\ Withdrawn(p)' = Withdrawn(p)
      BY <1>3, <2>4 DEF Withdrawn
    <3>3. HasWay(p)' = HasWay(p) /\ Listed(p)' = Listed(p)
      BY <1>3, <2>4 DEF HasWay, Listed, IsMine
    <3> QED
      BY <1>3, <2>1, <2>2, <3>1, <3>2, <3>3, FollowsUnchanged
  <2> QED
    BY <2>3, <2>4
<1>8. \A f, t \in Nodes : net'[f][t] # <<>> => t # Owner /\ f = Parent[t]
  BY <1>1, <1>6
<1> QED
  BY <1>1, <1>3, <1>7, <1>8 DEF DownTheTree

\* A node only hears from above, and of the order alone.
LEMMA HandlesFromAbove ==
    ASSUME NEW Parent, Tree(Parent), TypeOK, DownTheTree(Parent),
           NEW n \in Nodes, NEW p \in Nodes, HandleItem(n, p)
    PROVE  /\ n # Owner /\ p = Parent[n] /\ Follows(n, p)
           /\ p # n
           /\ IgnoreOrder(n, p) \/ AcceptOrder(n, p)
<1>1. net[p][n] # <<>>
  BY DEF HandleItem, IgnoreOrder, AcceptOrder, SendOrderBook, Receives
<1>2. n # Owner /\ p = Parent[n] /\ Follows(n, p)
  BY <1>1 DEF DownTheTree
<1>3. Head(net[p][n]) = net[p][n][1] /\ 1 \in 1..Len(net[p][n])
  BY <1>1, TailFacts DEF TypeOK
<1>4. Head(net[p][n]).purpose # "REQUEST_ORDERBOOK"
  BY <1>2, <1>3 DEF Follows, Kept, Gone
<1>5. IgnoreOrder(n, p) \/ AcceptOrder(n, p)
  BY <1>4 DEF HandleItem, SendOrderBook, Receives
<1>6. p # n
  BY <1>2, ParentOf
<1> QED
  BY <1>2, <1>5, <1>6

\* What n handles, and whether it takes notice.
LEMMA HandlingReads ==
    ASSUME NEW Parent, Tree(Parent), TypeOK, DownTheTree(Parent), aged = {},
           NEW n \in Nodes, NEW p \in Nodes, HandleItem(n, p)
    PROVE  /\ Reads(n, p)
           /\ \A m \in Nodes \ {n} : book'[m] = book[m] /\ route'[m] = route[m]
           /\ \A m \in Nodes : HasWay(m) => HasWay(m)'
           /\ mine' = mine /\ insolvent' = insolvent
           /\ IgnoreOrder(n, p) => IsKnown(n, Head(net[p][n]))
           /\ AcceptOrder(n, p) => ~IsKnown(n, Head(net[p][n]))
<1>1. /\ n # Owner /\ p = Parent[n] /\ Follows(n, p) /\ p # n
      /\ IgnoreOrder(n, p) \/ AcceptOrder(n, p)
  BY HandlesFromAbove
<1>2. net[p][n] # <<>> /\ LearnRoute(n, p) /\ mine' = mine /\ insolvent' = insolvent
  BY <1>1 DEF IgnoreOrder, AcceptOrder, Receives
<1>3. /\ route'[n] # Nobody
      /\ \A m \in Nodes \ {n} : route'[m] = route[m]
      /\ \A m \in Nodes : HasWay(m) => HasWay(m)'
  BY <1>2, GossipAssumption DEF LearnRoute, TypeOK, HasWay
<1>4. ~IsMine(n) /\ ~IsOld(n)
  BY <1>1 DEF IsMine, IsOld
<1>5. net \in Links /\ Taken(n, p)[p][n] = Tail(net[p][n])
  BY DEF TypeOK, Links, Taken
<1>6. CASE IgnoreOrder(n, p)
  <2>1. net'[p][n] = Tail(net[p][n]) /\ book' = book /\ IsKnown(n, Head(net[p][n]))
    BY <1>4, <1>5, <1>6 DEF IgnoreOrder
  <2>2. ~AcceptOrder(n, p)
    BY <2>1 DEF AcceptOrder
  <2> QED
    BY <1>2, <1>3, <2>1, <2>2 DEF Reads
<1>7. CASE AcceptOrder(n, p)
  <2>1. /\ ~IsKnown(n, Head(net[p][n]))
        /\ book' = [book EXCEPT ![n] = Updated(Head(net[p][n]))]
        /\ net' = Published(Taken(n, p), n, p, Head(net[p][n]))
    BY <1>7 DEF AcceptOrder
  <2>2. ~IgnoreOrder(n, p)
    BY <1>4, <2>1 DEF IgnoreOrder
  <2>3. Taken(n, p) \in Links /\ Head(net[p][n]) \in Items
    BY <1>2, <1>5, TakenKeeps
  <2>4. net'[p] = Taken(n, p)[p]
    BY <1>1, <2>1, <2>3, PublishedKeeps
  <2> QED
    BY <1>2, <1>3, <1>5, <2>1, <2>2, <2>4 DEF Reads, TypeOK
<1> QED
  BY <1>1, <1>6, <1>7

\* Where n's items go: out of the link from above, and down if they are news.
LEMMA HandlingLinks ==
    ASSUME NEW Parent, Tree(Parent), TypeOK, DownTheTree(Parent), aged = {},
           NEW n \in Nodes, NEW p \in Nodes, HandleItem(n, p)
    PROVE  \A f, t \in Nodes : f # p \/ t # n =>
              net'[f][t] =
                 IF AcceptOrder(n, p) /\ f = n /\ t # Owner /\ Parent[t] = n
                 THEN Append(net[f][t], Head(net[p][n])) ELSE net[f][t]
<1>1. /\ n # Owner /\ p = Parent[n] /\ p # n
      /\ IgnoreOrder(n, p) \/ AcceptOrder(n, p)
  BY HandlesFromAbove
<1>2. net \in Links
  BY DEF TypeOK, Links
<1>3. \A f, t \in Nodes : f # p \/ t # n => Taken(n, p)[f][t] = net[f][t]
  BY <1>2 DEF Taken, Links
<1>4. CASE AcceptOrder(n, p)
  <2>1. net' = Published(Taken(n, p), n, p, Head(net[p][n])) /\ net[p][n] # <<>>
    BY <1>4 DEF AcceptOrder, Receives
  <2>2. Taken(n, p) \in Links
    BY <1>2, <2>1, TakenKeeps
  <2>3. p = Above(Parent, n) /\ insolvent = {}
    BY <1>1 DEF Above, DownTheTree
  <2>4. \A f, t \in Nodes :
           net'[f][t] = IF f = n /\ t # Owner /\ Parent[t] = n
                        THEN Append(Taken(n, p)[f][t], Head(net[p][n]))
                        ELSE Taken(n, p)[f][t]
    BY <2>1, <2>2, <2>3, PublishedDown
  <2> QED
    BY <1>3, <1>4, <2>4
<1>5. CASE ~AcceptOrder(n, p)
  <2>1. net' = Taken(n, p)
    BY <1>1, <1>5 DEF IgnoreOrder
  <2> QED
    BY <1>3, <1>5, <2>1
<1> QED
  BY <1>4, <1>5

\* Whatever a node hears, it and those below it follow those above them.
LEMMA HandlingDown ==
    ASSUME NEW Parent, Tree(Parent), TypeOK, DownTheTree(Parent), aged = {},
           NEW n \in Nodes, NEW p \in Nodes, HandleItem(n, p)
    PROVE  DownTheTree(Parent)'
<1> DEFINE order == Head(net[p][n])
<1>1. /\ insolvent = {} /\ book[Owner] = NoOrder
      /\ \A f, t \in Nodes : net[f][t] # <<>> => t # Owner /\ f = Parent[t]
      /\ \A m \in Nodes \ {Owner} : Follows(m, Parent[m])
  BY DEF DownTheTree
<1>2. /\ n # Owner /\ p = Parent[n] /\ Follows(n, p) /\ p # n
      /\ IgnoreOrder(n, p) \/ AcceptOrder(n, p)
  BY HandlesFromAbove
<1>3. /\ Reads(n, p)
      /\ \A m \in Nodes \ {n} : book'[m] = book[m] /\ route'[m] = route[m]
      /\ \A m \in Nodes : HasWay(m) => HasWay(m)'
      /\ mine' = mine /\ insolvent' = insolvent
      /\ IgnoreOrder(n, p) => IsKnown(n, order)
      /\ AcceptOrder(n, p) => ~IsKnown(n, order)
  BY HandlingReads
<1>4. \A f, t \in Nodes : f # p \/ t # n =>
         net'[f][t] = IF AcceptOrder(n, p) /\ f = n /\ t # Owner /\ Parent[t] = n
                      THEN Append(net[f][t], order) ELSE net[f][t]
  BY HandlingLinks
<1>5. ASSUME NEW m \in Nodes \ {n}
      PROVE  Withdrawn(m)' = Withdrawn(m) /\ Listed(m)' = Listed(m)
  BY <1>3, <1>5 DEF Withdrawn, Listed, IsMine
<1>6. net[p][n] \in Seq(Items) /\ net[p][n] # <<>>
  BY <1>3 DEF TypeOK, Reads
<1>7. /\ order \in Items /\ order.purpose \in Kept \cup Gone
      /\ order.purpose = "NEW" => route[n] = Nobody
  <2>1. order \in Items
    BY <1>6, HeadTailProperties
  <2>2. order = net[p][n][1] /\ 1 \in 1..Len(net[p][n])
    BY <1>6, TailFacts
  <2> QED
    BY <1>2, <2>1, <2>2 DEF Follows
<1>8. Listed(n) = book[n] /\ Listed(n)' = book'[n]
  BY <1>2 DEF Listed, IsMine
<1>9. ~Withdrawn(n)
  BY <1>2, <1>6 DEF Follows
<1>10. ASSUME NEW m \in Nodes \ {Owner} PROVE Follows(m, Parent[m])'
  <2>1. PICK q : q = Parent[m]
    OBVIOUS
  <2>2. q \in Nodes /\ q # m /\ Follows(m, q)
    BY <1>1, <2>1, ParentOf
  <2>3. CASE m = n
    <3>1. q = p
      BY <1>2, <2>1, <2>3
    <3>2. Withdrawn(p)' = Withdrawn(p) /\ Listed(p)' = Listed(p)
      BY <1>2, <1>5
    <3>3. HasWay(p) => HasWay(p)'
      BY <1>3
    <3> QED
      BY <1>2, <1>3, <2>1, <2>3, <3>1, <3>2, <3>3, ReadsKeep
  <2>4. CASE m # n /\ q = n /\ AcceptOrder(n, p)
    <3>1. net'[n][m] = Append(net[n][m], order)
      BY <1>4, <2>1, <2>4
    <3>2. book'[n] = Updated(order)
      BY <1>3, <2>4 DEF Reads
    <3>3. order.purpose \in Gone => Withdrawn(n)'
      BY <1>2, <1>3, <3>2 DEF Withdrawn, Updated, Reads
    <3>4. HasWay(n)' /\ (order.purpose = "NEW" => ~HasWay(n))
      BY <1>2, <1>3, <1>7 DEF HasWay, Reads
    <3>5. book'[m] = book[m] /\ route'[m] = route[m]
      BY <1>3, <2>4
    <3>6. Hears(m, n, order)
      BY <1>7, <1>8, <3>1, <3>2, <3>3, <3>4, <3>5 DEF Hears
    <3> QED
      BY <1>7, <1>9, <2>1, <2>2, <2>4, <3>6, HearsKeep
  <2>5. CASE m # n /\ q = n /\ ~AcceptOrder(n, p)
    <3>1. net'[n][m] = net[n][m]
      BY <1>4, <2>5
    <3>2. book'[n] = book[n]
      BY <1>2, <1>3, <2>5 DEF Reads
    <3>3. book'[m] = book[m] /\ route'[m] = route[m]
      BY <1>3, <2>5
    <3>4. Withdrawn(m)' => Withdrawn(m)
      BY <1>5, <2>5
    <3>5. Withdrawn(n) => Withdrawn(n)'
      BY <1>9
    <3>6. (HasWay(n) => HasWay(n)') /\ Listed(n)' = Listed(n)
      BY <1>3, <1>8, <3>2
    <3> QED
      BY <2>1, <2>2, <2>5, <3>1, <3>3, <3>4, <3>5, <3>6, FollowsUnchanged
  <2>6. CASE m # n /\ q # n
    <3>1. net'[q][m] = net[q][m]
      BY <1>4, <2>2, <2>6
    <3>2. book'[m] = book[m] /\ route'[m] = route[m]
      BY <1>3, <2>6
    <3>3. (Withdrawn(m)' => Withdrawn(m)) /\ (Withdrawn(q) => Withdrawn(q)')
      BY <1>5, <2>2, <2>6
    <3>4. (HasWay(q) => HasWay(q)') /\ Listed(q)' = Listed(q)
      BY <1>3, <1>5, <2>2, <2>6
    <3> QED
      BY <2>1, <2>2, <3>1, <3>2, <3>3, <3>4, FollowsUnchanged
  <2> QED
    BY <2>3, <2>4, <2>5, <2>6
<1>11. \A f, t \in Nodes : net'[f][t] # <<>> => t # Owner /\ f = Parent[t]
  <2> SUFFICES ASSUME NEW f \in Nodes, NEW t \in Nodes, net'[f][t] # <<>>
               PROVE  t # Owner /\ f = Parent[t]
    OBVIOUS
  <2>1. CASE f = p /\ t = n
    BY <1>2, <2>1
  <2>2. CASE ~(f = p /\ t = n)
    BY <1>1, <1>4, <2>2
  <2> QED
    BY <2>1, <2>2
<1>12. insolvent' = {} /\ book'[Owner] = NoOrder
  BY <1>1, <1>2, <1>3, GossipAssumption
<1> QED
  BY <1>10, <1>11, <1>12 DEF DownTheTree

-----------------------------------------------------------------------------
\* The owner has told its friends in the beginning, and nobody else anything.
LEMMA InitDown ==
    ASSUME NEW Parent, Tree(Parent), Init
    PROVE  DownTheTree(Parent)
<1>1. Owner \in Nodes /\ Volume \in Nat \ {0}
  BY GossipAssumption
<1>2. \A t \in Nodes : t \in Friends[Owner] <=> t # Owner /\ Parent[t] = Owner
  BY <1>1 DEF Tree
<1>3. \A f, t \in Nodes :
          net[f][t] = IF f = Owner /\ t # Owner /\ Parent[t] = Owner
                      THEN <<Order("NEW", Volume)>> ELSE <<>>
  BY <1>2 DEF Init
<1>4. \A n \in Nodes : book[n] = NoOrder /\ route[n] = Nobody
  BY DEF Init
<1>5. /\ mine = Order("NEW", Volume) /\ mine # NoOrder
      /\ mine.purpose = "NEW" /\ mine.amount = Volume
  BY DEF Init, Order, NoOrder
<1>6. ASSUME NEW n \in Nodes \ {Owner} PROVE Follows(n, Parent[n])
  <2>1. PICK p : p = Parent[n]
    OBVIOUS
  <2>2. p \in Nodes /\ p # n
    BY <2>1, ParentOf
  <2>3. ~Withdrawn(n)
    BY <1>4 DEF Withdrawn
  <2>4. CASE p = Owner
    <3>1. net[p][n] = <<mine>>
      BY <1>3, <1>5, <2>1, <2>2, <2>4
    <3>2. /\ Len(net[p][n]) = 1 /\ net[p][n][1] = mine /\ net[p][n] # <<>>
      BY <3>1
    <3>3. Updated(mine) = mine /\ Listed(p) = mine /\ HasWay(p)
      BY <1>5, <2>4 DEF Updated, Gone, Listed, IsMine, HasWay
    <3>4. WillHave(p, n) = mine
      BY <3>2, <3>3 DEF WillHave
    <3>5. \A i \in 1..Len(net[p][n]) :
             i = 1 /\ net[p][n][i].purpose = "NEW"
      BY <1>5, <3>2
    <3>6. "NEW" \in Kept /\ "NEW" \notin Gone
      BY DEF Kept, Gone
    <3> QED
      BY <1>4, <2>1, <2>3, <3>3, <3>4, <3>5, <3>6 DEF Follows
  <2>5. CASE p # Owner
    <3>1. net[p][n] = <<>> /\ Len(net[p][n]) = 0
      BY <1>3, <2>1, <2>2, <2>5
    <3>2. Listed(p) = NoOrder /\ WillHave(p, n) = NoOrder
      BY <1>4, <2>2, <2>5, <3>1 DEF Listed, IsMine, WillHave
    <3> QED
      BY <1>4, <2>1, <2>3, <3>1, <3>2 DEF Follows
  <2> QED
    BY <2>4, <2>5
<1> QED
  BY <1>1, <1>3, <1>4, <1>6 DEF Init, DownTheTree

\* As long as nothing fails every step keeps the tree informed.
LEMMA StepDown ==
    ASSUME NEW Parent, Tree(Parent), TypeOK, NewsComeDown(Parent), [Next]_vars
    PROVE  NewsComeDown(Parent)'
<1> SUFFICES ASSUME aged' = {}, breaks' = 0
             PROVE  DownTheTree(Parent)'
  BY DEF NewsComeDown
<1>1. CASE SellPart \/ \E purpose \in Gone : Withdraw(purpose)
  <2>1. DownTheTree(Parent)
    BY <1>1 DEF SellPart, Withdraw, NewsComeDown
  <2> QED
    BY <1>1, <2>1, OwnerDown
<1>2. ASSUME NEW n \in Nodes, NEW p \in Nodes, HandleItem(n, p)
      PROVE  DownTheTree(Parent)'
  <2>1. aged = {} /\ breaks = 0
    BY <1>2 DEF HandleItem, IgnoreOrder, AcceptOrder, SendOrderBook
  <2>2. DownTheTree(Parent)
    BY <2>1 DEF NewsComeDown
  <2> QED
    BY <1>2, <2>1, <2>2, HandlingDown
<1>3. ASSUME NEW n \in Nodes, NEW p \in Nodes,
             Reconnect(n, p) \/ Spend(n, p) \/ Restart(n)
      PROVE  FALSE
  <2>1. breaks' = breaks + 1 /\ breaks \in Nat
    BY <1>3, GossipAssumption DEF Reconnect, Spend, Restart, TypeOK
  <2> QED
    BY <2>1
<1>4. ASSUME NEW n \in Nodes, TimeoutOrders(n) PROVE FALSE
  BY <1>4 DEF TimeoutOrders
<1>5. CASE UNCHANGED vars
  <2>1. /\ mine' = mine /\ book' = book /\ route' = route /\ net' = net
        /\ insolvent' = insolvent /\ aged' = aged /\ breaks' = breaks
    BY <1>5 DEF vars
  <2>2. DownTheTree(Parent)
    BY <2>1 DEF NewsComeDown
  <2> QED
    BY <2>1, <2>2
       DEF DownTheTree, Follows, WillHave, Withdrawn, HasWay, Listed, IsMine, Updated
<1> QED
  BY <1>1, <1>2, <1>3, <1>4, <1>5 DEF Next

\* Nodes that have handled everything have what those above them have, up to
\* the owner.
LEMMA DownToAgreed ==
    ASSUME NEW Parent, Tree(Parent), NewsComeDown(Parent)
    PROVE  BooksAgree
<1> SUFFICES ASSUME Quiet, aged = {}, breaks = 0
             PROVE  Agreed
  BY DEF BooksAgree
<1>1. /\ book[Owner] = NoOrder
      /\ \A n \in Nodes \ {Owner} : Follows(n, Parent[n])
  BY DEF NewsComeDown, DownTheTree
<1> DEFINE S == {n \in Nodes \ {Owner} : book[n].amount # mine.amount}
<1>2. ASSUME S # {} PROVE FALSE
  <2>1. PICK n \in S : Parent[n] \notin S
    BY <1>2 DEF Tree
  <2>2. PICK p : p = Parent[n]
    OBVIOUS
  <2>3. p \in Nodes /\ n \in Nodes \ {Owner} /\ Follows(n, p)
    BY <1>1, <2>2, ParentOf
  <2>4. book[n].amount = Listed(p).amount
    BY <2>3 DEF Quiet, Follows, WillHave
  <2>5. CASE p = Owner
    <3>1. Listed(p).amount = mine.amount
      BY <1>1, <2>5 DEF Listed, IsMine
    <3> QED
      BY <2>4, <3>1
  <2>6. CASE p # Owner
    <3>1. Listed(p) = book[p]
      BY <2>3, <2>6, ListedBelow
    <3>2. book[p].amount = mine.amount
      BY <2>1, <2>2, <2>3, <2>6
    <3> QED
      BY <2>4, <3>1, <3>2
  <2> QED
    BY <2>5, <2>6
<1> QED
  BY <1>1, <1>2 DEF Agreed, NoOrder

\* The news of an order come down every tree of friends.  As long as nothing is
\* lost and no clock is past the order's day, each node follows the one above
\* it: once it has handled all that is under way between them it has in its book
\* what that one has (publishOrder tells each friend but the one the news came
\* from, processOrder takes no notice only of what it has already).
THEOREM NewsReachEverybody ==
    ASSUME NEW Parent, Tree(Parent)
    PROVE  Spec => []NewsComeDown(Parent)
<1>1. Init => TypeOK /\ NewsComeDown(Parent)
  BY InitTypeOK, InitDown DEF NewsComeDown
<1>2. (TypeOK /\ NewsComeDown(Parent)) /\ [Next]_vars
         => (TypeOK /\ NewsComeDown(Parent))'
  BY StepTypes, StepDown
<1> QED
  BY <1>1, <1>2, PTL DEF Spec

\* So in every tree of friends, as long as nothing fails, all order books say of
\* the order what its owner said last when no news are under way.  (In a ring
\* they need not: an old item can come after a newer one by another way.)
THEOREM BooksAgreeInTrees ==
    ASSUME NEW Parent, Tree(Parent)
    PROVE  Spec => []BooksAgree
<1>1. Spec => []NewsComeDown(Parent)
  BY NewsReachEverybody
<1>2. NewsComeDown(Parent) => BooksAgree
  BY DownToAgreed
<1> QED
  BY <1>1, <1>2, PTL
=============================================================================
