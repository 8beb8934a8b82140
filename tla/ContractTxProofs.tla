------------------------- MODULE ContractTxProofs -------------------------
(***************************************************************************)
(* Proofs about exchange transactions: Owed (ContractTxInv) is inductive   *)
(* for any friends, routes and orders and whatever fails, so that promises *)
(* to pay have no gap.                                                     *)
(***************************************************************************)
EXTENDS ContractTxInv, DataLemmas

-----------------------------------------------------------------------------
(* Routes.                                                                 *)

\* Whoever is reached from n is n or is reached from the node next to n.
LEMMA FromNext ==
    ASSUME NEW n \in Nodes, NEW a \in Asks, NEW m \in From(n, a), m # n
    PROVE  NextHop[n][a] \in Nodes /\ m \in From(NextHop[n][a], a)
<1>1. NextHop[n][a] \in Nodes
  <2>1. CASE NextHop[n][a] = NoHop
    <3>1. Closed({n}, a)
      BY <2>1 DEF Closed
    <3> QED
      BY <3>1 DEF From
  <2> QED
    BY <2>1, OrdersAssumption
<1>2. ASSUME NEW S \in SUBSET Nodes, NextHop[n][a] \in S, Closed(S, a)
      PROVE  m \in S
  <2>1. S \cup {n} \in SUBSET Nodes /\ Closed(S \cup {n}, a)
    BY <1>2 DEF Closed
  <2>2. m \in S \cup {n}
    BY <2>1 DEF From
  <2> QED
    BY <2>2
<1> QED
  BY <1>1, <1>2 DEF From

\* What is reached is closed, and so is what is reached from it.
LEMMA FromFacts ==
    ASSUME NEW n \in Nodes, NEW a \in Asks
    PROVE  /\ n \in From(n, a) /\ From(n, a) \in SUBSET Nodes
           /\ \A m \in From(n, a) : NextHop[m][a] \in Nodes => NextHop[m][a] \in From(n, a)
<1>1. n \in From(n, a) /\ From(n, a) \in SUBSET Nodes
  BY DEF From
<1>2. ASSUME NEW m \in From(n, a), NextHop[m][a] \in Nodes
      PROVE  NextHop[m][a] \in From(n, a)
  <2>1. NextHop[m][a] # NoHop
    BY <1>2, OrdersAssumption
  <2>2. ASSUME NEW S \in SUBSET Nodes, n \in S, Closed(S, a)
        PROVE  NextHop[m][a] \in S
    BY <2>1, <2>2 DEF From, Closed
  <2> QED
    BY <1>2, <2>2 DEF From
<1> QED
  BY <1>1, <1>2

\* A node is not reached from the node next to it.
LEMMA NoCircle ==
    ASSUME NEW a \in Asks, NEW m \in Nodes, NEW x \in Nodes, NextHop[m][a] = x
    PROVE  m \notin From(x, a)
<1> SUFFICES ASSUME m \in From(x, a)
             PROVE  FALSE
  OBVIOUS
<1> DEFINE S == {k \in From(x, a) : m \in From(k, a)}
<1>1. x \in S /\ S \in SUBSET Nodes
  BY FromFacts
<1>2. ASSUME NEW k \in S
      PROVE  NextHop[k][a] \in S
  <2>1. CASE k = m
    BY <1>1, <2>1
  <2>2. CASE k # m
    <3>1. k \in Nodes
      BY <1>1
    <3>2. NextHop[k][a] \in Nodes /\ m \in From(NextHop[k][a], a)
      BY <2>2, <3>1, FromNext
    <3> QED
      BY <3>2, FromFacts
  <2> QED
    BY <2>1, <2>2
<1>3. \E k \in S : NextHop[k][a] \notin S
  <2> HIDE DEF S
  <2> QED
    BY <1>1, RoutesAssumption
<1> QED
  BY <1>2, <1>3

\* On the route of a transaction one node at most leads to another one.
LEMMA OneLeads ==
    ASSUME NEW id \in TxIds, NEW n \in Nodes, NEW p, NEW q, Leads(p, n, id), Leads(q, n, id)
    PROVE  p = q
<1> DEFINE a == id[1]
           o == Owner[id[2]]
           S == {k \in Nodes : k \in From(p, a) \/ p \in From(k, a)}
<1>1. a \in Asks /\ o \in Nodes
  BY OrdersAssumption DEF TxIds
<1>2. /\ p \in From(o, a) /\ q \in From(o, a) /\ p \in Nodes /\ q \in Nodes
      /\ NextHop[p][a] = n /\ NextHop[q][a] = n
  BY DEF Leads, Route, From
<1> HIDE DEF a, o
<1>3. o \in S
  BY <1>1, <1>2
<1>4. Closed(S, a)
  <2> SUFFICES ASSUME NEW k \in S, NextHop[k][a] # NoHop
               PROVE  NextHop[k][a] \in S
    BY DEF Closed
  <2>1. NextHop[k][a] \in Nodes
    BY <1>1, OrdersAssumption
  <2>2. CASE k \in From(p, a)
    BY <1>1, <1>2, <2>1, <2>2, FromFacts
  <2>3. CASE p \in From(k, a) /\ k # p
    BY <1>1, <2>1, <2>3, FromNext
  <2>4. CASE k = p
    BY <1>1, <1>2, <2>1, <2>4, FromFacts
  <2> QED
    BY <2>2, <2>3, <2>4
<1>5. q \in S
  BY <1>2, <1>3, <1>4 DEF From
<1>6. CASE q \in From(p, a) /\ q # p
  <2>1. q \in From(n, a)
    BY <1>1, <1>2, <1>6, FromNext
  <2> QED
    BY <1>1, <1>2, <2>1, NoCircle
<1>7. CASE p \in From(q, a) /\ q # p
  <2>1. p \in From(n, a)
    BY <1>1, <1>2, <1>7, FromNext
  <2> QED
    BY <1>1, <1>2, <2>1, NoCircle
<1> QED
  BY <1>5, <1>6, <1>7

\* The route goes on.
LEMMA RouteGoesOn ==
    ASSUME NEW id \in TxIds, NEW n \in Nodes, NEW p, Leads(p, n, id)
    PROVE  n \in Route(id) /\ p \in Nodes
<1>1. id[1] \in Asks /\ Owner[id[2]] \in Nodes
  BY OrdersAssumption DEF TxIds
<1> QED
  BY <1>1, FromFacts DEF Leads, Route

-----------------------------------------------------------------------------
(* Links.                                                                  *)

\* r is what is left of q when its first item or items at its end are gone.
LeftOf(r, q) ==
    \E k \in {0, 1} : \A i \in DOMAIN r : i + k \in DOMAIN q /\ r[i] = q[i + k]

LEMMA OwnRange ==
    ASSUME NEW S, NEW q \in Seq(S)
    PROVE  /\ q \in Seq(Range(q)) /\ Range(q) \subseteq S
           /\ DOMAIN q = 1..Len(q) /\ Len(q) \in Nat
<1>1. /\ DOMAIN q = 1..Len(q) /\ Len(q) \in Nat
      /\ q \in [1..Len(q) -> S] /\ \A i \in 1..Len(q) : q[i] \in S
  BY LenProperties
<1>2. (\A i \in 1..Len(q) : q[i] \in Range(q)) /\ Range(q) \subseteq S
  BY <1>1 DEF Range
<1>3. q \in [1..Len(q) -> Range(q)]
  BY <1>1, <1>2
<1>4. q \in Seq(Range(q))
  BY <1>1, <1>3, SeqDef
<1> QED
  BY <1>1, <1>2, <1>4

LEMMA LeftFacts ==
    ASSUME NEW S, NEW q \in Seq(S)
    PROVE  /\ \A r \in Prefixes(q) : r \in Seq(S) /\ LeftOf(r, q)
           /\ q # <<>> => /\ Tail(q) \in Seq(S) /\ LeftOf(Tail(q), q)
                          /\ Head(q) \in Range(q) /\ Head(q) = q[1]
                          /\ 1 \in DOMAIN q
                          /\ \A i \in DOMAIN Tail(q) : /\ i + 1 \in DOMAIN q /\ i + 1 # 1
                                                       /\ Tail(q)[i] = q[i + 1]
           /\ <<>> \in Seq(S) /\ LeftOf(<<>>, q) /\ LeftOf(q, q)
<1>1. /\ DOMAIN q = 1..Len(q) /\ Len(q) \in Nat
      /\ \A i \in 1..Len(q) : q[i] \in S
  OBVIOUS
<1>2. ASSUME NEW r \in Prefixes(q)
      PROVE  r \in Seq(S) /\ LeftOf(r, q)
  <2>1. PICK l \in 0..Len(q) : r = SubSeq(q, 1, l)
    BY DEF Prefixes
  <2>2. /\ r \in Seq(S) /\ DOMAIN r = 1..l /\ l <= Len(q)
        /\ \A i \in 1..l : r[i] = q[i]
    BY <1>1, <2>1
  <2>3. \A i \in DOMAIN r : i + 0 \in DOMAIN q /\ r[i] = q[i + 0]
    BY <1>1, <2>2
  <2> QED
    BY <2>2, <2>3 DEF LeftOf
<1>3. ASSUME q # <<>>
      PROVE  /\ Tail(q) \in Seq(S) /\ LeftOf(Tail(q), q)
             /\ Head(q) \in Range(q) /\ Head(q) = q[1]
             /\ 1 \in DOMAIN q
             /\ \A i \in DOMAIN Tail(q) : /\ i + 1 \in DOMAIN q /\ i + 1 # 1
                                          /\ Tail(q)[i] = q[i + 1]
  <2>1. /\ Len(q) >= 1 /\ Tail(q) \in Seq(S) /\ Head(q) = q[1]
        /\ Len(Tail(q)) = Len(q) - 1
        /\ \A i \in 1..(Len(q) - 1) : Tail(q)[i] = q[i + 1]
    BY <1>1, <1>3
  <2>2. DOMAIN Tail(q) = 1..(Len(q) - 1)
    BY <2>1
  <2>3. \A i \in DOMAIN Tail(q) : /\ i + 1 \in DOMAIN q /\ i + 1 # 1
                                  /\ Tail(q)[i] = q[i + 1]
    BY <1>1, <2>1, <2>2
  <2>4. 1 \in DOMAIN q /\ Head(q) \in Range(q)
    BY <1>1, <2>1 DEF Range
  <2> QED
    BY <2>1, <2>3, <2>4 DEF LeftOf
<1>4. <<>> \in Seq(S) /\ LeftOf(<<>>, q) /\ LeftOf(q, q)
  <2>1. <<>> \in Seq(S) /\ DOMAIN <<>> = {}
    OBVIOUS
  <2>2. \A i \in DOMAIN q : i + 0 \in DOMAIN q /\ q[i] = q[i + 0]
    BY <1>1
  <2> QED
    BY <2>1, <2>2 DEF LeftOf
<1> QED
  BY <1>2, <1>3, <1>4

LEMMA TheToken ==
    ASSUME NEW a, NEW id, OneToken(a, id),
           NEW f \in Nodes, NEW t \in Nodes, NEW i \in DOMAIN a[f][t], Token(a[f][t][i], id),
           NEW g \in Nodes, NEW u \in Nodes, NEW j \in DOMAIN a[g][u], Token(a[g][u][j], id)
    PROVE  f = g /\ t = u /\ i = j
BY DEF OneToken

\* Links that lost items.
LEMMA ThinnedLinks ==
    ASSUME NEW a, Known(a), NEW b, DOMAIN b = Nodes,
           \A f \in Nodes : DOMAIN b[f] = Nodes,
           \A f, t \in Nodes : /\ b[f][t] \in Seq(Range(a[f][t]))
                               /\ LeftOf(b[f][t], a[f][t])
    PROVE  /\ Known(b)
           /\ \A f, t \in Nodes : Range(b[f][t]) \subseteq Range(a[f][t])
           /\ \A id \in TxIds : OneToken(a, id) => OneToken(b, id)
<1>1. ASSUME NEW f \in Nodes, NEW t \in Nodes
      PROVE  /\ Range(b[f][t]) \subseteq Range(a[f][t])
             /\ b[f][t] \in Seq(Range(b[f][t]))
             /\ DOMAIN b[f][t] \subseteq Nat
  <2> DEFINE S == Range(a[f][t])
             q == b[f][t]
  <2>1. q \in Seq(S)
    OBVIOUS
  <2> HIDE DEF S, q
  <2>2. /\ q \in Seq(Range(q)) /\ Range(q) \subseteq S
        /\ DOMAIN q = 1..Len(q) /\ Len(q) \in Nat
    BY <2>1, OwnRange
  <2>3. DOMAIN q \subseteq Nat
    BY <2>2
  <2> QED
    BY <2>2, <2>3 DEF S, q
<1>2. Known(b)
  BY <1>1 DEF Known
<1>3. ASSUME NEW id, OneToken(a, id),
             NEW f \in Nodes, NEW t \in Nodes, NEW g \in Nodes, NEW u \in Nodes,
             NEW i \in DOMAIN b[f][t], NEW j \in DOMAIN b[g][u],
             Token(b[f][t][i], id), Token(b[g][u][j], id)
      PROVE  f = g /\ t = u /\ i = j
  <2>1. PICK k \in {0, 1} : \A x \in DOMAIN b[f][t] :
               x + k \in DOMAIN a[f][t] /\ b[f][t][x] = a[f][t][x + k]
    BY DEF LeftOf
  <2>2. PICK l \in {0, 1} : \A x \in DOMAIN b[g][u] :
               x + l \in DOMAIN a[g][u] /\ b[g][u][x] = a[g][u][x + l]
    BY DEF LeftOf
  <2> DEFINE x == i + k
             y == j + l
             z == i + l
  <2>3. /\ x \in DOMAIN a[f][t] /\ Token(a[f][t][x], id)
        /\ y \in DOMAIN a[g][u] /\ Token(a[g][u][y], id)
    BY <1>3, <2>1, <2>2
  <2>4. f = g /\ t = u /\ x = y
    <3> HIDE DEF x, y
    <3> QED
      BY <1>3, <2>3, TheToken
  <2>5. z \in DOMAIN a[f][t] /\ Token(a[f][t][z], id)
    BY <1>3, <2>2, <2>4
  <2>6. x = z
    <3> HIDE DEF x, z
    <3> QED
      <4>1. \A v, w \in DOMAIN a[f][t] :
                Token(a[f][t][v], id) /\ Token(a[f][t][w], id) => v = w
        BY <1>3, TheToken
      <4> QED
        BY <2>3, <2>5, <4>1
  <2>7. i \in Nat /\ j \in Nat
    BY <1>1
  <2> QED
    BY <2>4, <2>6, <2>7
<1>4. ASSUME NEW id \in TxIds, OneToken(a, id)
      PROVE  OneToken(b, id)
  <2> SUFFICES ASSUME NEW f \in Nodes, NEW t \in Nodes, NEW g \in Nodes, NEW u \in Nodes,
                      NEW i \in DOMAIN b[f][t], NEW j \in DOMAIN b[g][u],
                      Token(b[f][t][i], id), Token(b[g][u][j], id)
               PROVE  f = g /\ t = u /\ i = j
    BY DEF OneToken
  <2> QED
    BY <1>3, <1>4
<1> QED
  BY <1>1, <1>2, <1>4

\* b has no item that a has not; b has the items of a and may have one more.
Fewer(a, b) ==
    /\ Known(b)
    /\ \A f, t \in Nodes : Range(b[f][t]) \subseteq Range(a[f][t])
    /\ \A id \in TxIds : OneToken(a, id) => OneToken(b, id)
More(a, b, g, u, new) ==
    /\ Known(b)
    /\ \A f, t \in Nodes : \A item \in Range(b[f][t]) :
          item \in Range(a[f][t]) \/ (f = g /\ t = u /\ item = new)
    /\ \A id \in TxIds :
          OneToken(a, id) /\ (~Token(new, id) \/ NoToken(a, id)) => OneToken(b, id)

\* The first item of a link is taken.
LEMMA TakenFacts ==
    ASSUME Known(net), NEW n \in Nodes, NEW p \in Nodes, net[p][n] # <<>>
    PROVE  /\ Fewer(net, Taken(n, p))
           /\ Head(net[p][n]) \in Range(net[p][n])
           /\ \A id \in TxIds : OneToken(net, id) /\ Token(Head(net[p][n]), id) =>
                 NoToken(Taken(n, p), id)
<1> DEFINE q == net[p][n]
           S == Range(q)
<1>1. q \in Seq(S)
  BY DEF Known
<1>2. /\ Tail(q) \in Seq(S) /\ LeftOf(Tail(q), q)
      /\ Head(q) \in Range(q) /\ Head(q) = q[1] /\ 1 \in DOMAIN q
      /\ \A i \in DOMAIN Tail(q) : /\ i + 1 \in DOMAIN q /\ i + 1 # 1
                                   /\ Tail(q)[i] = q[i + 1]
  <2> HIDE DEF q, S
  <2>1. q # <<>>
    BY DEF q
  <2> QED
    BY <1>1, <2>1, LeftFacts
<1>3. DOMAIN Taken(n, p) = Nodes /\ \A f \in Nodes : DOMAIN Taken(n, p)[f] = Nodes
  BY DEF Taken, Known
<1>4. ASSUME NEW f \in Nodes, NEW t \in Nodes
      PROVE  Taken(n, p)[f][t] = IF f = p /\ t = n THEN Tail(q) ELSE net[f][t]
  BY DEF Taken, Known
<1>5. ASSUME NEW f \in Nodes, NEW t \in Nodes
      PROVE  /\ Taken(n, p)[f][t] \in Seq(Range(net[f][t]))
             /\ LeftOf(Taken(n, p)[f][t], net[f][t])
  <2>1. CASE f = p /\ t = n
    BY <1>2, <1>4, <2>1
  <2>2. CASE ~(f = p /\ t = n)
    <3>1. net[f][t] \in Seq(Range(net[f][t])) /\ Taken(n, p)[f][t] = net[f][t]
      BY <1>4, <2>2 DEF Known
    <3> DEFINE r == net[f][t]
               T == Range(r)
    <3>2. LeftOf(r, r)
      <4>1. r \in Seq(T)
        BY <3>1
      <4> HIDE DEF r, T
      <4> QED
        BY <4>1, LeftFacts
    <3> QED
      BY <3>1, <3>2
  <2> QED
    BY <2>1, <2>2
<1>6. Fewer(net, Taken(n, p))
  <2> DEFINE b == Taken(n, p)
  <2>1. /\ DOMAIN b = Nodes /\ \A f \in Nodes : DOMAIN b[f] = Nodes
        /\ \A f, t \in Nodes : /\ b[f][t] \in Seq(Range(net[f][t]))
                               /\ LeftOf(b[f][t], net[f][t])
    BY <1>3, <1>5
  <2> HIDE DEF b
  <2>2. /\ Known(b)
        /\ \A f, t \in Nodes : Range(b[f][t]) \subseteq Range(net[f][t])
        /\ \A id \in TxIds : OneToken(net, id) => OneToken(b, id)
    BY <2>1, ThinnedLinks
  <2>3. Fewer(net, b)
    BY <2>2 DEF Fewer
  <2> QED
    BY <2>3 DEF b
<1>7. ASSUME NEW id \in TxIds, OneToken(net, id), Token(Head(q), id),
             NEW f \in Nodes, NEW t \in Nodes, NEW item \in Range(Taken(n, p)[f][t]),
             Token(item, id)
      PROVE  FALSE
  <2>1. PICK i \in DOMAIN Taken(n, p)[f][t] : item = Taken(n, p)[f][t][i]
    BY DEF Range
  <2>2. CASE f = p /\ t = n
    <3> DEFINE x == i + 1
    <3>1. x \in DOMAIN q /\ x # 1 /\ item = q[x]
      BY <1>2, <1>4, <2>1, <2>2
    <3> HIDE DEF x
    <3> QED
      BY <1>2, <1>7, <3>1, TheToken
  <2>3. CASE ~(f = p /\ t = n)
    <3>1. i \in DOMAIN net[f][t] /\ item = net[f][t][i]
      BY <1>4, <2>1, <2>3
    <3>2. 1 \in DOMAIN net[p][n] /\ Token(net[p][n][1], id)
      BY <1>2, <1>7
    <3> QED
      BY <1>7, <2>3, <3>1, <3>2, TheToken
  <2> QED
    BY <2>2, <2>3
<1>8. \A id \in TxIds : OneToken(net, id) /\ Token(Head(q), id) => NoToken(Taken(n, p), id)
  BY <1>7 DEF NoToken
<1> QED
  BY <1>2, <1>6, <1>8

\* An item is added to a link, or is not.
LEMMA SentFacts ==
    ASSUME NEW a, Known(a), NEW g \in Nodes, NEW u, NEW new,
           new.tx \in TxIds, new.phase \in Phases
    PROVE  More(a, Sent(a, g, u, new), g, u, new)
<1> DEFINE b == Sent(a, g, u, new)
<1>1. CASE b = a
  <2>1. More(a, a, g, u, new)
    BY DEF More
  <2> QED
    BY <1>1, <2>1
<1>2. CASE u \in Nodes /\ b = [a EXCEPT ![g][u] = Append(@, new)]
  <2> DEFINE q == a[g][u]
             S == Range(q)
             T == S \cup {new}
             r == Append(q, new)
  <2>1. /\ DOMAIN b = Nodes /\ \A f \in Nodes : DOMAIN b[f] = Nodes
        /\ \A f, t \in Nodes : b[f][t] = IF f = g /\ t = u THEN r ELSE a[f][t]
    <3>1. DOMAIN a = Nodes /\ \A f \in Nodes : DOMAIN a[f] = Nodes
      BY DEF Known
    <3>2. b = [a EXCEPT ![g][u] = r]
      BY <1>2
    <3> HIDE DEF b, r
    <3> QED
      BY <3>1, <3>2
  <2>2. q \in Seq(S)
    BY <1>2 DEF Known
  <2>3. /\ Len(q) \in Nat /\ DOMAIN q = 1..Len(q)
        /\ r \in Seq(Range(r)) /\ DOMAIN r = 1..(Len(q) + 1)
        /\ r[Len(q) + 1] = new /\ \A i \in 1..Len(q) : r[i] = q[i]
    <3> HIDE DEF q, S
    <3>1. q \in Seq(T)
      BY <2>2, SeqMonotonic
    <3>2. /\ Len(q) \in Nat /\ DOMAIN q = 1..Len(q)
          /\ r \in Seq(T) /\ DOMAIN r = 1..(Len(q) + 1)
          /\ r[Len(q) + 1] = new /\ \A i \in 1..Len(q) : r[i] = q[i]
      <4> HIDE DEF T
      <4>1. new \in T
        BY DEF T
      <4> QED
        BY <3>1, <4>1
    <3>3. r \in Seq(Range(r))
      <4> HIDE DEF T, r
      <4> QED
        BY <3>2, OwnRange
    <3> QED
      BY <3>2, <3>3
  <2> HIDE DEF r
  <2>4. ASSUME NEW i \in DOMAIN r
        PROVE  (i \in DOMAIN q /\ r[i] = q[i]) \/ (i = Len(q) + 1 /\ r[i] = new)
    BY <2>3
  <2>5. \A item \in Range(r) : item \in S \/ item = new
    BY <2>4 DEF Range
  <2> HIDE DEF b
  <2>6. \A f, t \in Nodes : \A item \in Range(b[f][t]) :
            item \in Range(a[f][t]) \/ (f = g /\ t = u /\ item = new)
    BY <2>1, <2>5
  <2>7. Known(b)
    <3>1. ASSUME NEW f \in Nodes, NEW t \in Nodes
          PROVE  b[f][t] \in Seq(Range(b[f][t]))
      BY <2>1, <2>3 DEF Known
    <3>2. ASSUME NEW f \in Nodes, NEW t \in Nodes, NEW item \in Range(b[f][t])
          PROVE  item.tx \in TxIds /\ item.phase \in Phases
      <4>1. CASE item \in Range(a[f][t])
        BY <4>1 DEF Known
      <4>2. CASE item = new
        BY <4>2
      <4> QED
        BY <2>6, <4>1, <4>2
    <3> QED
      BY <2>1, <3>1, <3>2 DEF Known
  <2>8. ASSUME NEW id \in TxIds, OneToken(a, id), ~Token(new, id) \/ NoToken(a, id)
        PROVE  OneToken(b, id)
    <3>1. ASSUME NEW f \in Nodes, NEW t \in Nodes, NEW i \in DOMAIN b[f][t],
                 Token(b[f][t][i], id)
          PROVE  \/ i \in DOMAIN a[f][t] /\ Token(a[f][t][i], id)
                 \/ f = g /\ t = u /\ i = Len(q) + 1 /\ NoToken(a, id)
      <4>1. CASE f = g /\ t = u
        <5>1. i \in DOMAIN r /\ b[f][t][i] = r[i] /\ q = a[f][t]
          BY <2>1, <4>1
        <5>2. CASE i \in DOMAIN q /\ r[i] = q[i]
          BY <3>1, <5>1, <5>2
        <5>3. CASE i = Len(q) + 1 /\ r[i] = new
          BY <2>8, <3>1, <4>1, <5>1, <5>3
        <5> QED
          BY <2>4, <5>1, <5>2, <5>3
      <4>2. CASE ~(f = g /\ t = u)
        BY <2>1, <3>1, <4>2
      <4> QED
        BY <4>1, <4>2
    <3>2. ASSUME NEW f \in Nodes, NEW t \in Nodes, NEW i \in DOMAIN a[f][t],
                 Token(a[f][t][i], id)
          PROVE  ~NoToken(a, id)
      BY <3>2 DEF NoToken, Range
    <3> SUFFICES ASSUME NEW f \in Nodes, NEW t \in Nodes, NEW h \in Nodes, NEW v \in Nodes,
                        NEW i \in DOMAIN b[f][t], NEW j \in DOMAIN b[h][v],
                        Token(b[f][t][i], id), Token(b[h][v][j], id)
                 PROVE  f = h /\ t = v /\ i = j
      BY DEF OneToken
    <3>3. CASE i \in DOMAIN a[f][t] /\ Token(a[f][t][i], id)
      <4>1. j \in DOMAIN a[h][v] /\ Token(a[h][v][j], id)
        BY <3>1, <3>2, <3>3
      <4> QED
        BY <2>8, <3>3, <4>1, TheToken
    <3>4. CASE f = g /\ t = u /\ i = Len(q) + 1 /\ NoToken(a, id)
      BY <3>1, <3>2, <3>4
    <3> QED
      BY <3>1, <3>3, <3>4
  <2> QED
    BY <2>6, <2>7, <2>8 DEF More, b
<1> QED
  BY <1>1, <1>2 DEF Sent

\* The asks of a match, one after the other.
Listing(f, m, S) ==
    f = [i \in 0..m |-> IF i = 0 THEN <<>>
                        ELSE IF AskRank[i] \in S THEN Append(f[i - 1], AskRank[i])
                        ELSE f[i - 1]]

LEMMA ListingExists ==
    ASSUME NEW m \in Nat, NEW S
    PROVE  \E f : Listing(f, m, S)
<1> DEFINE P(x, i) == IF AskRank[i] \in S THEN Append(x, AskRank[i]) ELSE x
           D == <<>>
           T == {k \in Nat : \E f : Listing(f, k, S)}
<1>1. \A f, k : Listing(f, k, S) <=> f = [i \in 0..k |-> IF i = 0 THEN D ELSE P(f[i - 1], i)]
  BY DEF Listing
<1> HIDE DEF P, D
<1>2. 0 \in T
  <2> DEFINE f == [i \in 0..0 |-> D]
  <2>1. f = [i \in 0..0 |-> IF i = 0 THEN D ELSE P(f[i - 1], i)]
    OBVIOUS
  <2>2. Listing(f, 0, S)
    BY <1>1, <2>1
  <2> QED
    BY <2>2
<1>3. ASSUME NEW k \in 0..(m - 1), k \in T
      PROVE  k + 1 \in T
  <2>1. PICK f : Listing(f, k, S)
    BY <1>3
  <2>2. f = [i \in 0..k |-> IF i = 0 THEN D ELSE P(f[i - 1], i)]
    BY <1>1, <2>1
  <2> DEFINE g == [i \in 0..(k + 1) |-> IF i \in 0..k THEN f[i] ELSE P(f[k], k + 1)]
  <2>3. ASSUME NEW i \in 0..(k + 1)
        PROVE  g[i] = IF i = 0 THEN D ELSE P(g[i - 1], i)
    <3>1. CASE i = 0
      <4>1. f[0] = D
        BY <2>2
      <4> QED
        BY <3>1, <4>1
    <3>2. CASE i \in 1..k
      <4>1. f[i] = P(f[i - 1], i)
        BY <2>2, <3>2
      <4>2. g[i] = f[i] /\ g[i - 1] = f[i - 1]
        BY <3>2
      <4> QED
        BY <3>2, <4>1, <4>2
    <3>3. CASE i = k + 1
      <4>1. g[i] = P(f[k], k + 1) /\ g[i - 1] = f[k]
        BY <3>3
      <4> QED
        BY <3>3, <4>1
    <3> QED
      BY <3>1, <3>2, <3>3
  <2>4. g = [i \in 0..(k + 1) |-> g[i]]
    OBVIOUS
  <2> HIDE DEF g
  <2>5. g = [i \in 0..(k + 1) |-> IF i = 0 THEN D ELSE P(g[i - 1], i)]
    BY <2>3, <2>4
  <2>6. Listing(g, k + 1, S)
    BY <1>1, <2>5
  <2> QED
    BY <2>6
<1> HIDE DEF T
<1>4. m \in T
  BY <1>2, <1>3, InductionUpTo
<1> QED
  BY <1>4 DEF T

\* Ranked names members of the set, each one once.
LEMMA RankedFacts ==
    ASSUME NEW S
    PROVE  Ranked(S) \in Seq(S) /\ IsInjective(Ranked(S))
<1> DEFINE m == Len(AskRank)
           f == CHOOSE g : Listing(g, m, S)
<1>1. Ranked(S) = f[m]
  BY DEF Ranked, Listing
<1>2. m \in Nat
  BY OrdersAssumption
<1>3. \A i, j \in 1..m : AskRank[i] = AskRank[j] => i = j
  BY OrdersAssumption DEF IsInjective
<1>4. Listing(f, m, S)
  <2> HIDE DEF m
  <2> QED
    BY <1>2, ListingExists
<1> HIDE DEF f, m
<1>5. \A i \in 0..m : f[i] = IF i = 0 THEN <<>>
                             ELSE IF AskRank[i] \in S THEN Append(f[i - 1], AskRank[i])
                             ELSE f[i - 1]
  BY <1>4 DEF Listing
<1> DEFINE Fine(q, k) == /\ q \in Seq(S) /\ IsInjective(q)
                         /\ \A e \in Range(q) : \E j \in 1..k : e = AskRank[j]
           T == {k \in 0..m : Fine(f[k], k)}
<1>6. 0 \in T
  <2>1. f[0] = <<>> /\ 0 \in 0..m
    BY <1>2, <1>5
  <2>2. <<>> \in Seq(S) /\ IsInjective(<<>>) /\ Range(<<>>) = {}
    BY DEF IsInjective, Range
  <2> QED
    BY <2>1, <2>2
<1>7. ASSUME NEW k \in 0..(m - 1), k \in T
      PROVE  k + 1 \in T
  <2> DEFINE q == f[k]
             l == k + 1
             e == AskRank[l]
  <2>1. Fine(q, k) /\ l \in 1..m /\ l \in 0..m /\ l # 0 /\ l - 1 = k /\ k \in Nat
    BY <1>2, <1>7
  <2>2. f[l] = IF e \in S THEN Append(q, e) ELSE q
    <3> HIDE DEF l
    <3> QED
      BY <1>5, <2>1
  <2>3. CASE e \notin S
    <3>1. f[l] = q
      BY <2>2, <2>3
    <3>2. \A j \in 1..k : j \in 1..l
      BY <2>1
    <3>3. Fine(q, l)
      BY <2>1, <3>2
    <3> QED
      BY <2>1, <3>1, <3>3
  <2>4. CASE e \in S
    <3>1. e \notin Range(q)
      <4> SUFFICES ASSUME e \in Range(q)
                   PROVE  FALSE
        OBVIOUS
      <4>1. PICK j \in 1..k : e = AskRank[j]
        BY <2>1
      <4>2. j \in 1..m /\ j # l /\ l \in 1..m
        BY <1>2
      <4> QED
        BY <1>3, <4>1, <4>2
    <3> DEFINE r == Append(q, e)
    <3>2. /\ r \in Seq(S) /\ IsInjective(r)
          /\ Range(r) = Range(q) \cup {e}
      <4> HIDE DEF q, e
      <4> QED
        BY <2>1, <2>4, <3>1, AppendFacts
    <3>3. f[l] = r
      BY <2>2, <2>4
    <3> HIDE DEF r
    <3>4. \A x \in Range(r) : \E j \in 1..l : x = AskRank[j]
      <4> SUFFICES ASSUME NEW x \in Range(r)
                   PROVE  \E j \in 1..l : x = AskRank[j]
        OBVIOUS
      <4>1. CASE x = e
        <5>1. l \in 1..l
          BY <2>1
        <5> QED
          BY <4>1, <5>1
      <4>2. CASE x \in Range(q)
        <5>1. PICK j \in 1..k : x = AskRank[j]
          BY <2>1, <4>2
        <5>2. j \in 1..l
          BY <2>1
        <5> QED
          BY <5>1, <5>2
      <4> QED
        BY <3>2, <4>1, <4>2
    <3>5. Fine(r, l)
      BY <3>2, <3>4
    <3> QED
      BY <2>1, <3>3, <3>5
  <2> QED
    BY <2>3, <2>4
<1>8. m \in T
  <2> HIDE DEF T
  <2>1. \A k \in 0..m : k \in T
    BY <1>2, <1>6, <1>7, InductionUpTo
  <2> QED
    BY <1>2, <2>1
<1> QED
  BY <1>1, <1>8

-----------------------------------------------------------------------------
(* What the operations on contracts do to a book.                          *)

\* An operation that leaves the contracts and rows alone.
SameDeals(b, c) ==
    /\ DOMAIN c = DOMAIN b /\ c.contract = b.contract /\ c.stored = b.stored

LEMMA CreditOnly ==
    ASSUME NEW b, NEW peer, NEW amount, "credit" \in DOMAIN b
    PROVE  SameDeals(b, Reserve(b, peer, amount)) /\ SameDeals(b, GiveBack(b, peer, amount))
BY DEF SameDeals, Reserve, GiveBack, Store

LEMMA SameBook ==
    ASSUME NEW b, NEW c, IsBook(b), SameDeals(b, c)
    PROVE  IsBook(c)
BY DEF SameDeals, IsBook

\* A contract is made.
Made(b, c, ref, peer) ==
    /\ IsBook(c) /\ c.stored = b.stored
    /\ DOMAIN c.contract = DOMAIN b.contract \cup {ref}
    /\ \A r \in DOMAIN b.contract : r # ref => c.contract[r] = b.contract[r]
    /\ c.contract[ref].peer = peer /\ c.contract[ref].btcTx = NoBtcTx

LEMMA NewSenderFacts ==
    ASSUME NEW b, IsBook(b), NEW ref \in Refs, NEW peer, NEW amount
    PROVE  Made(b, NewSender(b, ref, peer, amount), ref, peer)
<1> DEFINE c == NewSender(b, ref, peer, amount)
           d == Contract(peer, amount)
<1>1. DOMAIN c = DOMAIN b /\ c.stored = b.stored
  BY DEF NewSender
<1>2. c.contract = With(b.contract, ref, d)
  BY DEF NewSender, IsBook
<1>3. d.peer = peer /\ d.btcTx = NoBtcTx /\ DOMAIN d = {"peer", "amount", "btcTx", "active"}
  BY DEF Contract
<1> HIDE DEF c, d
<1>4. /\ DOMAIN c.contract = DOMAIN b.contract \cup {ref}
      /\ c.contract[ref] = d
      /\ \A r \in DOMAIN b.contract : r # ref => c.contract[r] = b.contract[r]
  BY <1>2 DEF With
<1>5. IsBook(c)
  BY <1>1, <1>3, <1>4 DEF IsBook, IsContract
<1> QED
  BY <1>1, <1>3, <1>4, <1>5 DEF Made, c

LEMMA NewReceiverFacts ==
    ASSUME NEW b, IsBook(b), NEW ref \in Refs, NEW peer, NEW amount
    PROVE  Made(b, NewReceiver(b, ref, peer, amount), ref, peer)
<1> DEFINE kept == Receivable(b, peer, amount)
           c == NewSender(b, ref, peer, kept)
           d == Reserve(c, peer, kept)
<1>1. NewReceiver(b, ref, peer, amount) = d
  BY DEF NewReceiver
<1> HIDE DEF kept
<1>2. Made(b, c, ref, peer)
  BY NewSenderFacts
<1> HIDE DEF c
<1>3. SameDeals(c, d) /\ IsBook(d)
  BY <1>2, CreditOnly, SameBook DEF Made, IsBook
<1> QED
  BY <1>1, <1>2, <1>3 DEF Made, SameDeals

\* A contract is changed.
Edited(b, c, ref, amount, btcTx) ==
    /\ IsBook(c) /\ c.stored = b.stored
    /\ DOMAIN c.contract = DOMAIN b.contract
    /\ \A r \in DOMAIN b.contract : r # ref => c.contract[r] = b.contract[r]
    /\ c.contract[ref].peer = b.contract[ref].peer
    /\ c.contract[ref].amount = amount /\ c.contract[ref].btcTx = btcTx

LEMMA SetAmountOnlyFacts ==
    ASSUME NEW b, IsBook(b), NEW ref \in DOMAIN b.contract, NEW amount
    PROVE  Edited(b, SetBtcAmountOnly(b, ref, amount), ref, amount, b.contract[ref].btcTx)
<1> DEFINE c == SetBtcAmountOnly(b, ref, amount)
           d == [b.contract[ref] EXCEPT !.amount = amount]
<1>1. /\ DOMAIN c = DOMAIN b /\ c.stored = b.stored
      /\ c.contract = [b.contract EXCEPT ![ref] = d]
  BY DEF SetBtcAmountOnly, IsBook
<1>2. /\ d.peer = b.contract[ref].peer /\ d.amount = amount
      /\ d.btcTx = b.contract[ref].btcTx /\ DOMAIN d = DOMAIN b.contract[ref]
  BY DEF IsBook, IsContract
<1> HIDE DEF c, d
<1>3. /\ DOMAIN c.contract = DOMAIN b.contract /\ c.contract[ref] = d
      /\ \A r \in DOMAIN b.contract : r # ref => c.contract[r] = b.contract[r]
  BY <1>1
<1>4. IsBook(c)
  BY <1>1, <1>2, <1>3 DEF IsBook, IsContract
<1> QED
  BY <1>1, <1>2, <1>3, <1>4 DEF Edited, c

LEMMA SetAmountFacts ==
    ASSUME NEW b, IsBook(b), NEW ref \in DOMAIN b.contract, NEW amount
    PROVE  Edited(b, SetBtcAmount(b, ref, amount), ref, amount, b.contract[ref].btcTx)
<1> DEFINE c == SetBtcAmountOnly(b, ref, amount)
           less == b.contract[ref].amount - amount
           d == GiveBack(c, b.contract[ref].peer, less)
<1>1. Edited(b, c, ref, amount, b.contract[ref].btcTx)
  BY SetAmountOnlyFacts
<1>2. SetBtcAmount(b, ref, amount) \in {c, d}
  BY DEF SetBtcAmount
<1> HIDE DEF c, less
<1>3. SameDeals(c, d) /\ IsBook(d)
  BY <1>1, CreditOnly, SameBook DEF Edited, IsBook
<1> HIDE DEF d
<1>4. Edited(b, d, ref, amount, b.contract[ref].btcTx)
  BY <1>1, <1>3 DEF Edited, SameDeals
<1> QED
  BY <1>1, <1>2, <1>4

LEMMA SetBtcTxFacts ==
    ASSUME NEW b, IsBook(b), NEW ref \in DOMAIN b.contract,
           NEW btcTx \in {NoBtcTx, VoteNoTx, ref.tx}
    PROVE  Edited(b, SetBtcTxId(b, ref, btcTx), ref, b.contract[ref].amount, btcTx)
<1> DEFINE c == SetBtcTxId(b, ref, btcTx)
           d == [b.contract[ref] EXCEPT !.btcTx = btcTx]
<1>1. /\ DOMAIN c = DOMAIN b /\ c.stored = b.stored
      /\ c.contract = [b.contract EXCEPT ![ref] = d]
  BY DEF SetBtcTxId, IsBook
<1>2. /\ d.peer = b.contract[ref].peer /\ d.amount = b.contract[ref].amount
      /\ d.btcTx = btcTx /\ DOMAIN d = DOMAIN b.contract[ref]
  BY DEF IsBook, IsContract
<1> HIDE DEF c, d
<1>3. /\ DOMAIN c.contract = DOMAIN b.contract /\ c.contract[ref] = d
      /\ \A r \in DOMAIN b.contract : r # ref => c.contract[r] = b.contract[r]
  BY <1>1
<1>4. IsBook(c)
  BY <1>1, <1>2, <1>3 DEF IsBook, IsContract
<1> QED
  BY <1>1, <1>2, <1>3, <1>4 DEF Edited, c

LEMMA ActivateFacts ==
    ASSUME NEW b, IsBook(b), NEW ref \in DOMAIN b.contract
    PROVE  Edited(b, Activate(b, ref), ref, b.contract[ref].amount, b.contract[ref].btcTx)
<1> DEFINE c == Activate(b, ref)
           d == [b.contract[ref] EXCEPT !.active = TRUE]
<1>1. /\ DOMAIN c = DOMAIN b /\ c.stored = b.stored
      /\ c.contract = [b.contract EXCEPT ![ref] = d]
  BY DEF Activate, IsBook
<1>2. /\ d.peer = b.contract[ref].peer /\ d.amount = b.contract[ref].amount
      /\ d.btcTx = b.contract[ref].btcTx /\ DOMAIN d = DOMAIN b.contract[ref]
  BY DEF IsBook, IsContract
<1> HIDE DEF c, d
<1>3. /\ DOMAIN c.contract = DOMAIN b.contract /\ c.contract[ref] = d
      /\ \A r \in DOMAIN b.contract : r # ref => c.contract[r] = b.contract[r]
  BY <1>1
<1>4. IsBook(c)
  BY <1>1, <1>2, <1>3 DEF IsBook, IsContract
<1> QED
  BY <1>1, <1>2, <1>3, <1>4 DEF Edited, c

\* Two changes of a contract are one, and changes of two contracts are apart.
LEMMA EditedTwice ==
    ASSUME NEW a, NEW b, NEW c, NEW ref, NEW x, NEW y, NEW z, NEW w,
           ref \in DOMAIN a.contract, Edited(a, b, ref, x, y), Edited(b, c, ref, z, w)
    PROVE  Edited(a, c, ref, z, w)
BY DEF Edited

\* A contract is stored.
LEMMA PersistFacts ==
    ASSUME NEW b, IsBook(b), NEW ref \in DOMAIN b.contract,
           b.contract[ref].btcTx = ref.tx
    PROVE  LET row == [tx |-> ref.tx, party |-> ref.party,
                       peer |-> b.contract[ref].peer,
                       amount |-> b.contract[ref].amount, btcTx |-> ref.tx]
           IN /\ IsBook(Persist(b, ref))
              /\ Persist(b, ref).contract = b.contract
              /\ Persist(b, ref).stored = b.stored \cup {row}
<1> DEFINE c == Persist(b, ref)
           row == [tx |-> ref.tx, party |-> ref.party,
                   peer |-> b.contract[ref].peer,
                   amount |-> b.contract[ref].amount, btcTx |-> ref.tx]
<1>1. DOMAIN c = DOMAIN b /\ c.contract = b.contract /\ c.stored = b.stored \cup {row}
  BY DEF Persist, Row, IsBook
<1>2. /\ row.tx = ref.tx /\ row.party = ref.party /\ row.peer = b.contract[ref].peer
      /\ row.amount = b.contract[ref].amount /\ row.btcTx = ref.tx
      /\ row = [tx |-> row.tx, party |-> row.party, peer |-> row.peer,
                amount |-> row.amount, btcTx |-> row.tx]
  OBVIOUS
<1>3. ref.tx \in TxIds
  BY DEF IsBook, Refs
<1> HIDE DEF c, row
<1>4. IsBook(c)
  BY <1>1, <1>2, <1>3 DEF IsBook
<1> QED
  BY <1>1, <1>4 DEF c, row

\* A contract is removed: the rows that go with it are of its transaction.
Removed(b, c, id) ==
    /\ IsBook(c) /\ c.contract = b.contract
    /\ \A row \in c.stored : row \in b.stored
    /\ \A row \in b.stored : row.tx # id => row \in c.stored

LEMMA RmFacts ==
    ASSUME NEW b, IsBook(b), NEW ref \in DOMAIN b.contract
    PROVE  Removed(b, RmContract(b, ref), ref.tx)
<1> DEFINE btcTx == b.contract[ref].btcTx
           peer == b.contract[ref].peer
           less == RmStored(b, btcTx, ref.party)
           gone(i) == [less EXCEPT !.list = RemoveAt(@, i)]
           back(i, x) == GiveBack(gone(i), peer, x)
<1>1. Removed(b, b, ref.tx)
  BY DEF Removed
<1>2. btcTx \in {NoBtcTx, VoteNoTx, ref.tx}
  BY DEF IsBook, IsContract
<1>3. /\ DOMAIN less = DOMAIN b /\ less.contract = b.contract
      /\ less.stored = {row \in b.stored : \/ btcTx = NoBtcTx
                                           \/ row.btcTx # btcTx
                                           \/ row.party # ref.party}
  BY DEF RmStored, IsBook
<1>4. \A row \in b.stored : row.btcTx = row.tx /\ row.tx # VoteNoTx
  <2>1. VoteNoTx \notin TxIds
    BY DEF VoteNoTx, TxIds
  <2> QED
    BY <2>1 DEF IsBook
<1>5. ASSUME NEW i
      PROVE  /\ DOMAIN gone(i) = DOMAIN b /\ gone(i).contract = b.contract
             /\ gone(i).stored = less.stored
  <2> HIDE DEF less
  <2> QED
    BY <1>3 DEF IsBook
<1>6. \E i, x : RmContract(b, ref) \in {b, gone(i), back(i, x)}
  BY DEF RmContract
<1> HIDE DEF less
<1>7. \A row \in b.stored : row.tx # ref.tx => row \in less.stored
  BY <1>2, <1>3, <1>4
<1> HIDE DEF gone, btcTx, peer
<1>8. ASSUME NEW i, NEW x
      PROVE  SameDeals(gone(i), back(i, x))
  BY <1>5, CreditOnly DEF IsBook
<1> HIDE DEF back
<1>9. ASSUME NEW c, DOMAIN c = DOMAIN b, c.contract = b.contract, c.stored = less.stored
      PROVE  Removed(b, c, ref.tx)
  BY <1>3, <1>7, <1>9 DEF Removed, IsBook
<1> QED
  BY <1>1, <1>5, <1>6, <1>8, <1>9 DEF SameDeals

-----------------------------------------------------------------------------
(* Steps that carry a transaction no further.                              *)

\* The items of a transaction may get lost, and no new ones appear.
ItemsFade(j) ==
    /\ \A f, t \in Nodes : \A item \in Range(net'[f][t]) :
          Token(item, j) => item \in Range(net[f][t])
    /\ OneToken(net', j)

\* Managers go or give up.
ManagerFades(n, j, old, new) ==
    \/ new = old
    \/ new.role = "none"
    \/ new.role = "coordinator" /\ old.role = "coordinator"
    \/ /\ new.role = "hop" /\ new.phase \notin {"QUERY", "VOTE_YES"}
       /\ new.contract => old.role = "hop" /\ old.contract
    \/ /\ new.role = "payee" /\ new.phase # "QUERY" /\ Owner[j[1]] = n
       /\ new.contract => old.role = "payee" /\ old.contract

\* A manager that stays has the contracts it had.
SameTerms(c, d) == d.peer = c.peer /\ d.amount = c.amount /\ d.btcTx = c.btcTx
DealsStay(j, old, new) ==
    \A party \in Parties :
        Ref(j, party) \in DOMAIN old =>
            /\ Ref(j, party) \in DOMAIN new
            /\ SameTerms(old[Ref(j, party)], new[Ref(j, party)])

\* Only those who may take rows back do.
RowsFade(n, j) ==
    /\ \A row \in books'[n].stored : row.tx = j => row \in books[n].stored
    /\ ~MayUndo(n, j) => \A row \in books[n].stored : row.tx = j => row \in books'[n].stored

Fades(j) ==
    /\ ItemsFade(j)
    /\ \A n \in Nodes :
          /\ ManagerFades(n, j, currentTX[n][j], currentTX'[n][j])
          /\ MayUndo(n, j)' => DealsStay(j, books[n].contract, books'[n].contract)
          /\ RowsFade(n, j)
    /\ j[1] \in bid[j[2]].matched => j[1] \in bid'[j[2]].matched
    /\ j \in chain' => j \in chain

\* Routes do not change.
LEMMA RouteStays ==
    ASSUME NEW id
    PROVE  /\ Route(id)' = Route(id)
           /\ \A f, t : Leads(f, t, id)' = Leads(f, t, id)
BY DEF Leads, Route, From, Closed

LEMMA FadesKeeps ==
    ASSUME NEW j \in TxIds, OwedFor(j), Fades(j)
    PROVE  OwedFor(j)'
<1>1. ASSUME NEW n \in Nodes
      PROVE  /\ MayUndo(n, j)' => MayUndo(n, j)
             /\ PassedVote(n, j)' => PassedVote(n, j)
             /\ Voted(n, j)' => Voted(n, j)
             /\ Waits(n, j)' => Waits(n, j)
             /\ Voted(n, j)' \/ Waits(n, j)' => currentTX'[n][j] = currentTX[n][j]
  <2>1. ManagerFades(n, j, currentTX[n][j], currentTX'[n][j])
    BY DEF Fades
  <2> QED
    BY <2>1 DEF ManagerFades, MayUndo, PassedVote, Voted, Waits
<1>2. ASSUME NEW n \in Nodes
      PROVE  /\ \A row \in books'[n].stored : row.tx = j => row \in books[n].stored
             /\ ~MayUndo(n, j) =>
                   \A row \in books[n].stored : row.tx = j => row \in books'[n].stored
             /\ HasRow(n, j)' => HasRow(n, j)
  BY DEF Fades, RowsFade, HasRow
<1>3. ASSUME NEW n \in Nodes, MayUndo(n, j)', NEW party \in Parties,
             Ref(j, party) \in DOMAIN books[n].contract
      PROVE  /\ Ref(j, party) \in DOMAIN books'[n].contract
             /\ books'[n].contract[Ref(j, party)].peer = books[n].contract[Ref(j, party)].peer
             /\ books'[n].contract[Ref(j, party)].amount = books[n].contract[Ref(j, party)].amount
             /\ books'[n].contract[Ref(j, party)].btcTx = books[n].contract[Ref(j, party)].btcTx
  BY <1>3 DEF Fades, DealsStay, SameTerms
<1>4. /\ \A f, t \in Nodes : \A item \in Range(net'[f][t]) :
            Token(item, j) => item \in Range(net[f][t])
      /\ OneToken(net', j)
  BY DEF Fades, ItemsFade
<1>5. "sender" \in Parties /\ "receiver" \in Parties
  BY DEF Parties
<1>6. ASSUME NEW n \in Nodes
      PROVE  /\ MayUndo(n, j)' /\ PaysNext(n, j) => PaysNext(n, j)'
             /\ MayUndo(n, j)' /\ GetsPaid(n, j) => GetsPaid(n, j)'
  BY <1>3, <1>5 DEF PaysNext, GetsPaid, Payer, Payee, Leads, Route, From, Closed
<1>7. ItemsOnRoute(j)'
  BY <1>4 DEF OwedFor, ItemsOnRoute, IsOnRoute, Leads, Route, From, Closed
<1>8. ManagersOnRoute(j)'
  <2> SUFFICES ASSUME NEW n \in Nodes
               PROVE  IsManager(n, j, currentTX[n][j])' /\ HasVoted(n, j, books[n].contract)'
    BY DEF ManagersOnRoute
  <2> DEFINE old == currentTX[n][j]
             new == currentTX'[n][j]
  <2>1. IsManager(n, j, old) /\ HasVoted(n, j, books[n].contract)
    BY DEF OwedFor, ManagersOnRoute
  <2>2. ManagerFades(n, j, old, new)
    BY DEF Fades
  <2>3. IsManager(n, j, currentTX[n][j])'
    <3>1. /\ new.role = "coordinator" => old.role = "coordinator"
          /\ new.role = "payee" => Owner[j[1]] = n
          /\ new.role = "payee" /\ new.contract => old.role = "payee" /\ old.contract
          /\ new.role = "hop" /\ new.contract => old.role = "hop" /\ old.contract
      BY <2>1, <2>2 DEF ManagerFades, IsManager
    <3>2. /\ new.role = "coordinator" => MayUndo(n, j)'
          /\ new.role \in {"payee", "hop"} /\ new.contract => MayUndo(n, j)'
      BY DEF MayUndo
    <3>3. /\ new.role = "coordinator" => (Owner[j[2]] = n /\ PaysNext(n, j)')
          /\ new.role = "payee" /\ new.contract => GetsPaid(n, j)'
          /\ new.role = "hop" /\ new.contract =>
                (n \in Route(j) /\ PaysNext(n, j)' /\ GetsPaid(n, j)')
      <4> HIDE DEF old, new
      <4> QED
        BY <1>6, <2>1, <3>1, <3>2 DEF IsManager
    <3> QED
      BY <3>1, <3>3, RouteStays DEF IsManager
  <2>4. HasVoted(n, j, books[n].contract)'
    <3>1. Voted(n, j)' => /\ new = old /\ new.contract /\ MayUndo(n, j)' /\ Voted(n, j)
                          /\ books'[n].contract[Payee(j)].btcTx = j
      <4> SUFFICES ASSUME Voted(n, j)'
                   PROVE  /\ new = old /\ new.contract /\ MayUndo(n, j)' /\ Voted(n, j)
                          /\ books'[n].contract[Payee(j)].btcTx = j
        OBVIOUS
      <4>1. new = old /\ new.contract /\ Voted(n, j) /\ books[n].contract[Payee(j)].btcTx = j
        BY <1>1, <2>1 DEF HasVoted
      <4>2. new.role \in {"payee", "hop"}
        BY DEF Voted, PassedVote
      <4>3. MayUndo(n, j)'
        BY <4>1, <4>2 DEF MayUndo
      <4>4. Payee(j) \in DOMAIN books[n].contract
        BY <2>1, <4>1, <4>2 DEF IsManager, GetsPaid
      <4> QED
        BY <1>3, <1>5, <4>1, <4>3, <4>4 DEF Payee
    <3>2. Waits(n, j)' => new.contract
      BY <1>1, <2>1 DEF HasVoted
    <3>3. ASSUME PassedVote(n, j)'
          PROVE  /\ NextHop[n][j[1]] \in Nodes
                 /\ books'[n].contract[Payer(j)].btcTx = j
                 /\ books'[n].contract[Payer(j)].amount = books'[n].contract[Payee(j)].amount
      <4>1. PassedVote(n, j) /\ Voted(n, j)'
        BY <1>1, <3>3 DEF Voted
      <4>2. new = old /\ new.contract /\ MayUndo(n, j)' /\ new.role = "hop"
        BY <3>1, <3>3, <4>1 DEF PassedVote
      <4>3. Payer(j) \in DOMAIN books[n].contract /\ Payee(j) \in DOMAIN books[n].contract
        BY <2>1, <4>2 DEF IsManager, GetsPaid, PaysNext
      <4>4. /\ books'[n].contract[Payer(j)].btcTx = books[n].contract[Payer(j)].btcTx
            /\ books'[n].contract[Payer(j)].amount = books[n].contract[Payer(j)].amount
            /\ books'[n].contract[Payee(j)].amount = books[n].contract[Payee(j)].amount
        BY <1>3, <1>5, <4>2, <4>3 DEF Payer, Payee
      <4> QED
        BY <2>1, <4>1, <4>4 DEF HasVoted
    <3> QED
      BY <3>1, <3>2, <3>3 DEF HasVoted
  <2> QED
    BY <2>3, <2>4
<1>9. ASSUME Untouched(j)
      PROVE  Untouched(j)'
  BY <1>1, <1>2, <1>9 DEF Untouched
<1>10. NothingBeforeMatch(j)'
  <2> SUFFICES ASSUME j[1] \notin bid'[j[2]].matched
               PROVE  Untouched(j)' /\ NoToken(net, j)'
    BY DEF NothingBeforeMatch
  <2>1. Untouched(j) /\ NoToken(net, j)
    BY DEF Fades, OwedFor, NothingBeforeMatch
  <2> QED
    BY <1>4, <1>9, <2>1 DEF NoToken
<1>11. NothingBeforeVote(j)'
  <2> SUFFICES ASSUME NEW f \in Nodes, NEW t \in Nodes, NEW item \in Range(net'[f][t]),
                      Token(item, j)
               PROVE  /\ item.phase = "QUERY" => Untouched(j)'
                      /\ item.phase \in {"VOTE_YES", "VOTE_NO"} => ~Waits(f, j)'
    BY DEF NothingBeforeVote
  <2>1. item \in Range(net[f][t])
    BY <1>4
  <2>2. /\ item.phase = "QUERY" => Untouched(j)
        /\ item.phase \in {"VOTE_YES", "VOTE_NO"} => ~Waits(f, j)
    BY <2>1 DEF OwedFor, NothingBeforeVote
  <2> QED
    BY <1>1, <1>9, <2>2
<1>12. NobodyWaitsBehind(j)'
  BY <1>1, <1>2 DEF OwedFor, NobodyWaitsBehind
<1>13. ASSUME NEW n \in Nodes, Voted(n, j)'
       PROVE  Voted(n, j) /\ AmountOf(n, j)' = AmountOf(n, j)
  <2>1. Voted(n, j) /\ currentTX'[n][j] = currentTX[n][j]
    BY <1>1, <1>13
  <2>2. currentTX[n][j].contract /\ currentTX[n][j].role \in {"payee", "hop"}
    BY <2>1 DEF OwedFor, ManagersOnRoute, HasVoted, Voted, PassedVote
  <2>3. MayUndo(n, j)' /\ Payee(j) \in DOMAIN books[n].contract
    BY <2>1, <2>2 DEF MayUndo, OwedFor, ManagersOnRoute, IsManager, GetsPaid
  <2> QED
    BY <1>3, <1>5, <2>1, <2>3 DEF AmountOf, Payee
<1>14. VotesAgree(j)'
  <2> SUFFICES ASSUME NEW n \in Nodes, Voted(n, j)'
               PROVE  /\ \A t \in Nodes : \A item \in Range(net'[n][t]) :
                            Token(item, j) /\ item.phase = "VOTE_YES" =>
                                item.amount = AmountOf(n, j)'
                      /\ \A p \in Nodes : NextHop[p][j[1]] = n =>
                            /\ Voted(p, j)' => AmountOf(p, j)' = AmountOf(n, j)'
                            /\ \A row \in books'[p].stored :
                                  row.tx = j => row.amount = AmountOf(n, j)'
    BY DEF VotesAgree
  <2>1. Voted(n, j) /\ AmountOf(n, j)' = AmountOf(n, j)
    BY <1>13
  <2>2. /\ \A t \in Nodes : \A item \in Range(net[n][t]) :
              Token(item, j) /\ item.phase = "VOTE_YES" => item.amount = AmountOf(n, j)
        /\ \A p \in Nodes : NextHop[p][j[1]] = n =>
              /\ Voted(p, j) => AmountOf(p, j) = AmountOf(n, j)
              /\ \A row \in books[p].stored : row.tx = j => row.amount = AmountOf(n, j)
    BY <2>1 DEF OwedFor, VotesAgree
  <2> QED
    BY <1>2, <1>4, <1>13, <2>1, <2>2
<1>15. ASSUME NEW p \in Nodes, NEW n \in Nodes, NEW amount, Covers(p, n, j, amount)
       PROVE  Covers(p, n, j, amount)'
  <2>1. ~MayUndo(p, j) /\ ~MayUndo(p, j)'
    BY <1>1, <1>15 DEF Covers
  <2>2. ASSUME NEW party, NEW q, Promise(p, j, party, q, amount)
        PROVE  Promise(p, j, party, q, amount)'
    BY <1>2, <2>1, <2>2 DEF Promise
  <2> QED
    BY <1>15, <2>1, <2>2 DEF Covers
<1>16. CommitsAreCovered(j)'
  <2> SUFFICES ASSUME NEW p \in Nodes, NEW n \in Nodes, NEW item \in Range(net'[p][n]),
                      Token(item, j), item.phase = "COMMIT"
               PROVE  \E row \in books'[p].stored : row.tx = j /\ Covers(p, n, j, row.amount)'
    BY DEF CommitsAreCovered
  <2>1. item \in Range(net[p][n])
    BY <1>4
  <2>2. PICK row \in books[p].stored : row.tx = j /\ Covers(p, n, j, row.amount)
    BY <2>1 DEF OwedFor, CommitsAreCovered
  <2>3. row \in books'[p].stored
    BY <1>2, <2>2 DEF Covers
  <2> QED
    BY <1>15, <2>2, <2>3
<1>17. ReceiptsAreCovered(j)'
  <2> SUFFICES ASSUME NEW n \in Nodes, NEW row \in Receipts(n)', row.tx = j
               PROVE  ~MayUndo(n, j)' /\ row.peer \in Nodes /\ Covers(row.peer, n, j, row.amount)'
    BY DEF ReceiptsAreCovered
  <2>1. row \in Receipts(n)
    BY <1>2 DEF Receipts
  <2>2. ~MayUndo(n, j) /\ row.peer \in Nodes /\ Covers(row.peer, n, j, row.amount)
    BY <2>1 DEF OwedFor, ReceiptsAreCovered
  <2> QED
    BY <1>1, <1>15, <2>2
<1>18. ChainIsCovered(j)'
  <2> SUFFICES ASSUME j \in chain'
               PROVE  \E row \in Receipts(Owner[j[1]])' : row.tx = j
    BY DEF ChainIsCovered
  <2>1. j \in chain /\ Owner[j[1]] \in Nodes
    BY OrdersAssumption DEF Fades, TxIds
  <2>2. PICK row \in Receipts(Owner[j[1]]) : row.tx = j
    BY <2>1 DEF OwedFor, ChainIsCovered
  <2>3. ~MayUndo(Owner[j[1]], j)
    BY <2>1, <2>2 DEF OwedFor, ReceiptsAreCovered
  <2>4. row \in Receipts(Owner[j[1]])'
    BY <1>2, <2>1, <2>2, <2>3 DEF Receipts
  <2> QED
    BY <2>2, <2>4
<1> QED
  BY <1>4, <1>7, <1>8, <1>10, <1>11, <1>12, <1>14, <1>16, <1>17, <1>18 DEF OwedFor

\* A step in which one node acts for one transaction.
Spares(b, c, id) ==
    /\ IsBook(c)
    /\ \A ref \in DOMAIN b.contract : ref.tx # id =>
          ref \in DOMAIN c.contract /\ c.contract[ref] = b.contract[ref]
    /\ \A row \in b.stored : row.tx # id => row \in c.stored
    /\ \A row \in c.stored : row.tx # id => row \in b.stored
Acts(n, id) ==
    /\ Known(net') /\ \A j \in TxIds : j # id => ItemsFade(j)
    /\ DOMAIN books' = Nodes /\ \A m \in Nodes : m # n => books'[m] = books[m]
    /\ Spares(books[n], books'[n], id)
    /\ ManagersKnown' /\ \A m \in Nodes : m # n => currentTX'[m] = currentTX[m]
    /\ \A j \in TxIds : j # id => ManagerFades(n, j, currentTX[n][j], currentTX'[n][j])
    /\ TunnelsLead' /\ BidsKnown'
    /\ \A j \in TxIds : j[1] \in bid[j[2]].matched => j[1] \in bid'[j[2]].matched
    /\ chain' \subseteq chain \cup {id}

\* Books that did not change, in particular.
LEMMA SameDealsStay ==
    ASSUME NEW j, NEW n, books'[n] = books[n]
    PROVE  /\ DealsStay(j, books[n].contract, books'[n].contract)
           /\ RowsFade(n, j)
BY DEF DealsStay, SameTerms, RowsFade

LEMMA OthersKept ==
    ASSUME Owed, NEW n \in Nodes, NEW id \in TxIds, Acts(n, id),
           NEW j \in TxIds, j # id
    PROVE  OwedFor(j)'
<1>1. ASSUME NEW m \in Nodes
      PROVE  /\ ManagerFades(m, j, currentTX[m][j], currentTX'[m][j])
             /\ DealsStay(j, books[m].contract, books'[m].contract)
             /\ RowsFade(m, j)
  <2>1. CASE m = n
    <3>1. ManagerFades(n, j, currentTX[n][j], currentTX'[n][j])
      BY DEF Acts
    <3>2. Spares(books[n], books'[n], id)
      BY DEF Acts
    <3>3. \A party : Ref(j, party).tx # id
      BY DEF Ref
    <3>4. DealsStay(j, books[n].contract, books'[n].contract)
      BY <3>2, <3>3 DEF DealsStay, SameTerms, Spares
    <3>5. RowsFade(n, j)
      BY <3>2 DEF RowsFade, Spares
    <3> QED
      BY <2>1, <3>1, <3>4, <3>5
  <2>2. CASE m # n
    <3>1. books'[m] = books[m] /\ currentTX'[m] = currentTX[m]
      BY <2>2 DEF Acts
    <3> QED
      BY <3>1, SameDealsStay DEF ManagerFades
  <2> QED
    BY <2>1, <2>2
<1>2. /\ ItemsFade(j)
      /\ j[1] \in bid[j[2]].matched => j[1] \in bid'[j[2]].matched
      /\ j \in chain' => j \in chain
  BY DEF Acts
<1>3. Fades(j)
  BY <1>1, <1>2 DEF Fades
<1> QED
  BY <1>3, FadesKeeps DEF Owed

LEMMA ActsKeeps ==
    ASSUME Owed, NEW n \in Nodes, NEW id \in TxIds, Acts(n, id), OwedFor(id)'
    PROVE  Owed'
<1>1. \A j \in TxIds : OwedFor(j)'
  BY OthersKept
<1>2. ASSUME NEW m \in Nodes
      PROVE  IsBook(books'[m])
  <2>1. CASE m = n
    BY <2>1 DEF Acts, Spares
  <2>2. CASE m # n
    BY <2>2 DEF Acts, Owed, Shape
  <2> QED
    BY <2>1, <2>2
<1>3. Shape'
  BY <1>2 DEF Acts, Shape
<1>4. (chain \subseteq TxIds)'
  BY DEF Acts, Owed
<1> QED
  BY <1>1, <1>3, <1>4 DEF Owed

\* The transaction it acts for gets no further either.
ActFades(n, id) ==
    /\ ItemsFade(id)
    /\ ManagerFades(n, id, currentTX[n][id], currentTX'[n][id])
    /\ MayUndo(n, id)' => DealsStay(id, books[n].contract, books'[n].contract)
    /\ RowsFade(n, id)
    /\ id \in chain' => id \in chain

LEMMA ActsFade ==
    ASSUME Owed, NEW n \in Nodes, NEW id \in TxIds, Acts(n, id), ActFades(n, id)
    PROVE  Owed'
<1>1. ASSUME NEW m \in Nodes
      PROVE  /\ ManagerFades(m, id, currentTX[m][id], currentTX'[m][id])
             /\ MayUndo(m, id)' => DealsStay(id, books[m].contract, books'[m].contract)
             /\ RowsFade(m, id)
  <2>1. CASE m = n
    BY <2>1 DEF ActFades
  <2>2. CASE m # n
    <3>1. books'[m] = books[m] /\ currentTX'[m] = currentTX[m]
      BY <2>2 DEF Acts
    <3> QED
      BY <3>1, SameDealsStay DEF ManagerFades
  <2> QED
    BY <2>1, <2>2
<1>2. /\ ItemsFade(id)
      /\ id[1] \in bid[id[2]].matched => id[1] \in bid'[id[2]].matched
      /\ id \in chain' => id \in chain
  BY DEF Acts, ActFades
<1>3. Fades(id)
  BY <1>1, <1>2 DEF Fades
<1>4. OwedFor(id)'
  BY <1>3, FadesKeeps DEF Owed
<1> QED
  BY <1>4, ActsKeeps

-----------------------------------------------------------------------------
(* The links after a node handled an item.                                 *)

\* All transactions lose items only.
Dwindle(b) ==
    /\ Known(b)
    /\ \A j \in TxIds :
          /\ OneToken(b, j)
          /\ \A f, t \in Nodes : \A item \in Range(b[f][t]) :
                Token(item, j) => item \in Range(net[f][t])

\* The items of the others; and id has the new item of g for u or none.
Carries(b, id, g, u, new) ==
    /\ Known(b)
    /\ \A j \in TxIds :
          /\ OneToken(b, j)
          /\ j # id => \A f, t \in Nodes : \A item \in Range(b[f][t]) :
                Token(item, j) => item \in Range(net[f][t])
    /\ \A f, t \in Nodes : \A item \in Range(b[f][t]) :
          Token(item, id) => f = g /\ t = u /\ item = new

LEMMA DwindleFades ==
    ASSUME Dwindle(net')
    PROVE  Known(net') /\ \A j \in TxIds : ItemsFade(j)
BY DEF Dwindle, ItemsFade

LEMMA CarriesFades ==
    ASSUME NEW id, NEW g, NEW u, NEW new, Carries(net', id, g, u, new)
    PROVE  Known(net') /\ \A j \in TxIds : j # id => ItemsFade(j)
BY DEF Carries, ItemsFade

LEMMA SameLinks ==
    ASSUME Owed
    PROVE  Dwindle(net)
BY DEF Dwindle, Owed, Shape, OwedFor

LEMMA TakeDwindles ==
    ASSUME Owed, NEW n \in Nodes, NEW p \in Nodes, net[p][n] # <<>>
    PROVE  Dwindle(Taken(n, p))
<1>1. Fewer(net, Taken(n, p))
  BY TakenFacts DEF Owed, Shape
<1>2. \A j \in TxIds : OneToken(net, j)
  BY DEF Owed, OwedFor
<1> QED
  BY <1>1, <1>2 DEF Fewer, Dwindle

LEMMA SendDwindles ==
    ASSUME NEW a, Dwindle(a), NEW n \in Nodes, NEW u, NEW new,
           new.tx \in TxIds, new.phase \in {"ABORT", "ABORT_REQUEST"}
    PROVE  Dwindle(Sent(a, n, u, new))
<1> DEFINE b == Sent(a, n, u, new)
<1>1. new.phase \in Phases /\ \A j : ~Token(new, j)
  BY DEF Phases, Token
<1>2. More(a, b, n, u, new)
  BY <1>1, SentFacts DEF Dwindle
<1> HIDE DEF b
<1>3. Dwindle(b)
  BY <1>1, <1>2 DEF More, Dwindle
<1> QED
  BY <1>3 DEF b

LEMMA TakeAndSendCarries ==
    ASSUME Owed, NEW n \in Nodes, NEW p \in Nodes, net[p][n] # <<>>,
           NEW id \in TxIds, Token(Head(net[p][n]), id),
           NEW u, NEW new, new.tx = id, new.phase \in Phases
    PROVE  Carries(Sent(Taken(n, p), n, u, new), id, n, u, new)
<1> DEFINE a == Taken(n, p)
           b == Sent(a, n, u, new)
<1>1. \A j \in TxIds : OneToken(net, j)
  BY DEF Owed, OwedFor
<1>2. Fewer(net, a) /\ NoToken(a, id)
  BY <1>1, TakenFacts DEF Owed, Shape
<1> HIDE DEF a
<1>3. More(a, b, n, u, new)
  BY <1>2, SentFacts DEF Fewer
<1> HIDE DEF b
<1>4. \A j \in TxIds : j # id => ~Token(new, j)
  BY DEF Token
<1>5. ASSUME NEW j \in TxIds
      PROVE  OneToken(b, j)
  BY <1>1, <1>2, <1>3, <1>4 DEF Fewer, More
<1>6. ASSUME NEW j \in TxIds, j # id, NEW f \in Nodes, NEW t \in Nodes,
             NEW item \in Range(b[f][t]), Token(item, j)
      PROVE  item \in Range(net[f][t])
  BY <1>2, <1>3, <1>4, <1>6 DEF Fewer, More
<1>7. ASSUME NEW f \in Nodes, NEW t \in Nodes, NEW item \in Range(b[f][t]), Token(item, id)
      PROVE  f = n /\ t = u /\ item = new
  BY <1>2, <1>3, <1>7 DEF NoToken, More
<1>8. Carries(b, id, n, u, new)
  BY <1>3, <1>5, <1>6, <1>7 DEF More, Carries
<1> QED
  BY <1>8 DEF a, b

LEMMA SendCarries ==
    ASSUME NEW a, NEW id, NEW g, NEW v, NEW item, Carries(a, id, g, v, item),
           NEW n \in Nodes, NEW u, NEW new,
           new.tx \in TxIds, new.phase \in {"ABORT", "ABORT_REQUEST"}
    PROVE  Carries(Sent(a, n, u, new), id, g, v, item)
<1> DEFINE b == Sent(a, n, u, new)
<1>1. new.phase \in Phases /\ \A j : ~Token(new, j)
  BY DEF Phases, Token
<1>2. More(a, b, n, u, new)
  BY <1>1, SentFacts DEF Carries
<1> HIDE DEF b
<1>3. ASSUME NEW f \in Nodes, NEW t \in Nodes, NEW x \in Range(b[f][t]), NEW j, Token(x, j)
      PROVE  x \in Range(a[f][t])
  BY <1>1, <1>2, <1>3 DEF More
<1>4. Carries(b, id, g, v, item)
  BY <1>1, <1>2, <1>3 DEF More, Carries
<1> QED
  BY <1>4 DEF b

-----------------------------------------------------------------------------
(* Books and managers after a step.                                        *)

LEMMA SparesFacts ==
    ASSUME NEW id
    PROVE  /\ \A b : IsBook(b) => Spares(b, b, id)
           /\ \A a, b, c : Spares(a, b, id) /\ Spares(b, c, id) => Spares(a, c, id)
           /\ \A b, c : Removed(b, c, id) => Spares(b, c, id)
           /\ \A b, c, ref, peer : Made(b, c, ref, peer) /\ ref.tx = id => Spares(b, c, id)
           /\ \A b, c, ref, x, y : Edited(b, c, ref, x, y) /\ ref.tx = id => Spares(b, c, id)
<1>1. \A b : IsBook(b) => Spares(b, b, id)
  BY DEF Spares
<1>2. \A a, b, c : Spares(a, b, id) /\ Spares(b, c, id) => Spares(a, c, id)
  BY DEF Spares
<1>3. \A b, c : Removed(b, c, id) => Spares(b, c, id)
  BY DEF Spares, Removed
<1>4. \A b, c, ref, peer : Made(b, c, ref, peer) /\ ref.tx = id => Spares(b, c, id)
  BY DEF Spares, Made
<1>5. \A b, c, ref, x, y : Edited(b, c, ref, x, y) /\ ref.tx = id => Spares(b, c, id)
  BY DEF Spares, Edited
<1> QED
  BY <1>1, <1>2, <1>3, <1>4, <1>5

\* Persist, for a contract of the transaction.
LEMMA PersistSpares ==
    ASSUME NEW b, IsBook(b), NEW ref \in DOMAIN b.contract, b.contract[ref].btcTx = ref.tx
    PROVE  Spares(b, Persist(b, ref), ref.tx)
<1> DEFINE c == Persist(b, ref)
           row == [tx |-> ref.tx, party |-> ref.party, peer |-> b.contract[ref].peer,
                   amount |-> b.contract[ref].amount, btcTx |-> ref.tx]
<1>1. IsBook(c) /\ c.contract = b.contract /\ c.stored = b.stored \cup {row}
  BY PersistFacts
<1>2. row.tx = ref.tx
  OBVIOUS
<1> HIDE DEF c, row
<1>3. Spares(b, c, ref.tx)
  BY <1>1, <1>2 DEF Spares
<1> QED
  BY <1>3 DEF c

\* The parts of a step of n for the transaction id.
NewManager(n, id, tm) ==
    /\ ManagersKnown' /\ \A m \in Nodes : m # n => currentTX'[m] = currentTX[m]
    /\ \A j \in TxIds : j # id => ManagerFades(n, j, currentTX[n][j], currentTX'[n][j])
    /\ currentTX'[n][id] = tm
NewBook(n, b) ==
    /\ DOMAIN books' = Nodes /\ books'[n] = b
    /\ \A m \in Nodes : m # n => books'[m] = books[m]

LEMMA SetTMFacts ==
    ASSUME ManagersKnown, NEW n \in Nodes, NEW id \in TxIds, NEW tm \in Managers,
           SetTM(n, id, tm)
    PROVE  NewManager(n, id, tm)
<1>1. /\ ManagersKnown' /\ \A m \in Nodes : m # n => currentTX'[m] = currentTX[m]
      /\ \A j \in TxIds : j # id => currentTX'[n][j] = currentTX[n][j]
      /\ currentTX'[n][id] = tm
  BY DEF SetTM, ManagersKnown
<1> QED
  BY <1>1 DEF NewManager, ManagerFades

LEMMA SameTMFacts ==
    ASSUME ManagersKnown, NEW n \in Nodes, NEW id \in TxIds, UNCHANGED currentTX
    PROVE  NewManager(n, id, currentTX[n][id])
BY DEF NewManager, ManagersKnown, ManagerFades

LEMMA WithoutOrderFacts ==
    ASSUME ManagersKnown, NEW n \in Nodes, NEW a, NEW becomes \in {"old", "freed"}, NEW id,
           currentTX' = [currentTX EXCEPT ![n] = WithoutOrder(n, a, becomes, id)]
    PROVE  /\ ManagersKnown' /\ \A m \in Nodes : m # n => currentTX'[m] = currentTX[m]
           /\ \A j \in TxIds : ManagerFades(n, j, currentTX[n][j], currentTX'[n][j])
           /\ id \in TxIds => NewManager(n, id, NoTM)
<1>1. ASSUME NEW j \in TxIds
      PROVE  /\ WithoutOrder(n, a, becomes, id)[j] \in Managers
             /\ ManagerFades(n, j, currentTX[n][j], WithoutOrder(n, a, becomes, id)[j])
             /\ j = id => WithoutOrder(n, a, becomes, id)[j] = NoTM
  <2> DEFINE old == currentTX[n][j]
             new == WithoutOrder(n, a, becomes, id)[j]
  <2>1. old \in Managers
    BY DEF ManagersKnown
  <2>2. new = IF j = id THEN NoTM
              ELSE IF j[1] = a /\ old = Coordinator("book") THEN Coordinator(becomes) ELSE old
    BY DEF WithoutOrder
  <2>3. NoTM \in Managers /\ NoTM.role = "none"
    BY DEF NoTM, Managers
  <2>4. /\ Coordinator(becomes) \in Managers /\ Coordinator(becomes).role = "coordinator"
        /\ Coordinator("book").role = "coordinator"
    BY DEF Coordinator, Managers
  <2> HIDE DEF old, new
  <2> QED
    BY <2>1, <2>2, <2>3, <2>4 DEF ManagerFades, old, new
<1>2. DOMAIN WithoutOrder(n, a, becomes, id) = TxIds
  BY DEF WithoutOrder
<1>3. WithoutOrder(n, a, becomes, id) \in [TxIds -> Managers]
  <2>1. WithoutOrder(n, a, becomes, id) = [j \in TxIds |-> WithoutOrder(n, a, becomes, id)[j]]
    BY DEF WithoutOrder
  <2> QED
    BY <1>1, <2>1
<1>4. /\ currentTX' \in [Nodes -> [TxIds -> Managers]]
      /\ \A m \in Nodes : m # n => currentTX'[m] = currentTX[m]
      /\ currentTX'[n] = WithoutOrder(n, a, becomes, id)
  BY <1>3 DEF ManagersKnown
<1> QED
  BY <1>1, <1>4 DEF NewManager, ManagersKnown

LEMMA NewBookFacts ==
    ASSUME DOMAIN books = Nodes, NEW n \in Nodes, NEW b,
           books' = [books EXCEPT ![n] = b]
    PROVE  NewBook(n, b)
BY DEF NewBook

LEMMA SameBooksFacts ==
    ASSUME DOMAIN books = Nodes, NEW n \in Nodes, UNCHANGED books
    PROVE  NewBook(n, books[n])
BY DEF NewBook

\* A node that acts without leaving new tunnels or matching asks.
LEMMA MakeActs ==
    ASSUME Owed, NEW n \in Nodes, NEW id \in TxIds, NEW tm, NEW b,
           NewManager(n, id, tm), NewBook(n, b), Spares(books[n], b, id),
           Known(net'), \A j \in TxIds : j # id => ItemsFade(j),
           TunnelsLead', UNCHANGED bid \/ (BidsKnown' /\ \A o \in Bids : bid'[o].matched = bid[o].matched),
           chain' \subseteq chain \cup {id}
    PROVE  Acts(n, id)
<1>1. BidsKnown' /\ \A j \in TxIds : j[1] \in bid[j[2]].matched => j[1] \in bid'[j[2]].matched
  <2>1. \A j \in TxIds : j[2] \in Bids
    BY DEF TxIds
  <2> QED
    BY <2>1 DEF Owed, Shape, BidsKnown
<1> QED
  BY <1>1 DEF Acts, NewManager, NewBook

LEMMA SameTunnels ==
    ASSUME Owed, UNCHANGED tunnels
    PROVE  TunnelsLead'
BY DEF Owed, Shape, TunnelsLead, IsTunnel

\* A transaction that gets no further where a manager gives up.
LEMMA GivesUp ==
    ASSUME Owed, NEW n \in Nodes, NEW id \in TxIds, NEW tm, NEW b,
           NewManager(n, id, tm), ManagerFades(n, id, currentTX[n][id], tm),
           NewBook(n, b), Spares(books[n], b, id), b.stored = books[n].stored,
           DealsStay(id, books[n].contract, b.contract) \/ tm = NoTM,
           Dwindle(net'), UNCHANGED <<tunnels, chain>>,
           UNCHANGED bid \/ (BidsKnown' /\ \A o \in Bids : bid'[o].matched = bid[o].matched)
    PROVE  Owed'
<1>1. Known(net') /\ \A j \in TxIds : ItemsFade(j)
  BY DwindleFades
<1>2. Acts(n, id)
  BY <1>1, MakeActs, SameTunnels
<1>3. RowsFade(n, id)
  BY DEF RowsFade, NewBook
<1>4. MayUndo(n, id)' => DealsStay(id, books[n].contract, books'[n].contract)
  <2>1. tm = NoTM => ~MayUndo(n, id)'
    BY DEF NewManager, MayUndo, NoTM
  <2> QED
    BY <2>1 DEF NewBook
<1>5. ActFades(n, id)
  BY <1>1, <1>3, <1>4 DEF ActFades, NewManager
<1> QED
  BY <1>2, <1>5, ActsFade

\* Two special cases: the book stays as it is; a rollback.
LEMMA GivesUpOnly ==
    ASSUME Owed, NEW n \in Nodes, NEW id \in TxIds, NEW tm,
           NewManager(n, id, tm), ManagerFades(n, id, currentTX[n][id], tm),
           Dwindle(net'), UNCHANGED <<bid, books, tunnels, chain>>
    PROVE  Owed'
<1>1. NewBook(n, books[n]) /\ IsBook(books[n])
  BY SameBooksFacts DEF Owed, Shape
<1>2. Spares(books[n], books[n], id)
  BY <1>1, SparesFacts
<1>3. DealsStay(id, books[n].contract, books[n].contract)
  BY DEF DealsStay, SameTerms
<1> QED
  BY <1>1, <1>2, <1>3, GivesUp

RolledBack(n, id) ==
    /\ NewManager(n, id, NoTM)
    /\ \E b : /\ NewBook(n, b) /\ Removed(books[n], b, id)
              /\ b.stored = books[n].stored \/ MayUndo(n, id)
    /\ UNCHANGED bid

LEMMA RollBackKeeps ==
    ASSUME Owed, NEW n \in Nodes, NEW id \in TxIds, RolledBack(n, id),
           Dwindle(net'), UNCHANGED <<tunnels, chain>>
    PROVE  Owed'
<1>1. PICK b : /\ NewBook(n, b) /\ Removed(books[n], b, id)
               /\ b.stored = books[n].stored \/ MayUndo(n, id)
  BY DEF RolledBack
<1>2. NewManager(n, id, NoTM) /\ UNCHANGED bid
  BY DEF RolledBack
<1>3. Known(net') /\ \A j \in TxIds : ItemsFade(j)
  BY DwindleFades
<1>4. Spares(books[n], b, id)
  BY <1>1, SparesFacts
<1>5. Acts(n, id)
  BY <1>1, <1>2, <1>3, <1>4, MakeActs, SameTunnels
<1>6. RowsFade(n, id)
  BY <1>1 DEF RowsFade, NewBook, Removed
<1>7. ~MayUndo(n, id)' /\ ManagerFades(n, id, currentTX[n][id], currentTX'[n][id])
  BY <1>2 DEF NewManager, MayUndo, NoTM, ManagerFades
<1>8. ActFades(n, id)
  BY <1>3, <1>6, <1>7 DEF ActFades
<1> QED
  BY <1>5, <1>8, ActsFade

-----------------------------------------------------------------------------
(* Handlers after which a transaction gets no further.                     *)

LEMMA HeadFacts ==
    ASSUME Owed, NEW n \in Nodes, NEW p \in Nodes, NEW phases, Receives(n, p, phases)
    PROVE  /\ net[p][n] # <<>> /\ Head(net[p][n]) \in Range(net[p][n])
           /\ Head(net[p][n]).tx \in TxIds /\ Head(net[p][n]).phase \in phases
           /\ Tm(n, p) = currentTX[n][Head(net[p][n]).tx]
           /\ Head(net[p][n]).phase \in {"QUERY", "VOTE_YES", "VOTE_NO", "COMMIT"} =>
                 Token(Head(net[p][n]), Head(net[p][n]).tx)
<1>1. net[p][n] # <<>> /\ Head(net[p][n]).phase \in phases
  BY DEF Receives
<1>2. Head(net[p][n]) \in Range(net[p][n])
  BY <1>1, TakenFacts DEF Owed, Shape
<1>3. Head(net[p][n]).tx \in TxIds
  BY <1>2 DEF Owed, Shape, Known
<1> QED
  BY <1>1, <1>2, <1>3 DEF Tm, Token

\* What managers of a transaction have.
LEMMA ManagerHas ==
    ASSUME Owed, NEW n \in Nodes, NEW id \in TxIds
    PROVE  /\ currentTX[n][id] \in Managers /\ IsBook(books[n])
           /\ IsManager(n, id, currentTX[n][id]) /\ HasVoted(n, id, books[n].contract)
BY DEF Owed, Shape, ManagersKnown, OwedFor, ManagersOnRoute

LEMMA ManagersFit ==
    /\ NoTM \in Managers
    /\ \A made \in BOOLEAN :
          /\ \A phase \in {"INIT", "QUERY", "ABORT_REQUEST"} : Cohorte("payee", phase, made) \in Managers
          /\ \A phase \in {"INIT", "QUERY", "VOTE_YES", "VOTE_NO", "ABORT_REQUEST"} :
                Cohorte("hop", phase, made) \in Managers
    /\ \A role, phase, made : /\ Cohorte(role, phase, made).role = role
                              /\ Cohorte(role, phase, made).phase = phase
                              /\ Cohorte(role, phase, made).contract = made
BY DEF NoTM, Managers, Cohorte

LEMMA RollBackCoordinatorFacts ==
    ASSUME Owed, NEW n \in Nodes, NEW id \in TxIds, currentTX[n][id].role = "coordinator",
           RollBackCoordinator(n, id)
    PROVE  RolledBack(n, id)
<1>1. NewManager(n, id, NoTM)
  BY WithoutOrderFacts DEF RollBackCoordinator, Owed, Shape
<1>2. Payer(id) \in DOMAIN books[n].contract
  BY ManagerHas DEF IsManager, PaysNext
<1>3. Removed(books[n], RmContract(books[n], Payer(id)), id)
  <2>1. Payer(id).tx = id
    BY DEF Payer, Ref
  <2> QED
    BY <1>2, <2>1, ManagerHas, RmFacts
<1>4. NewBook(n, RmContract(books[n], Payer(id)))
  BY NewBookFacts DEF RollBackCoordinator, Owed, Shape
<1>5. MayUndo(n, id)
  BY DEF MayUndo
<1> QED
  BY <1>1, <1>3, <1>4, <1>5 DEF RolledBack, RollBackCoordinator

LEMMA RollBackPayeeFacts ==
    ASSUME Owed, NEW n \in Nodes, NEW id \in TxIds, currentTX[n][id].role = "payee",
           RollBackPayee(n, id)
    PROVE  RolledBack(n, id)
<1>1. NewManager(n, id, NoTM)
  BY SetTMFacts, ManagersFit DEF RollBackPayee, Forget, Owed, Shape
<1>2. CASE currentTX[n][id].contract
  <2>1. Payee(id) \in DOMAIN books[n].contract
    BY <1>2, ManagerHas DEF IsManager, GetsPaid
  <2>2. Removed(books[n], RmContract(books[n], Payee(id)), id)
    <3>1. Payee(id).tx = id
      BY DEF Payee, Ref
    <3> QED
      BY <2>1, <3>1, ManagerHas, RmFacts
  <2>3. NewBook(n, RmContract(books[n], Payee(id)))
    BY <1>2, NewBookFacts DEF RollBackPayee, Owed, Shape
  <2>4. MayUndo(n, id)
    BY <1>2 DEF MayUndo
  <2> QED
    BY <1>1, <2>2, <2>3, <2>4 DEF RolledBack, RollBackPayee
<1>3. CASE ~currentTX[n][id].contract
  <2>1. NewBook(n, books[n])
    BY <1>3, SameBooksFacts DEF RollBackPayee, Owed, Shape
  <2>2. Removed(books[n], books[n], id)
    BY ManagerHas DEF Removed
  <2> QED
    BY <1>1, <2>1, <2>2 DEF RolledBack, RollBackPayee
<1> QED
  BY <1>2, <1>3

LEMMA RollBackHopFacts ==
    ASSUME Owed, NEW n \in Nodes, NEW id \in TxIds, currentTX[n][id].role = "hop",
           RollBackHop(n, id)
    PROVE  RolledBack(n, id)
<1>1. NewManager(n, id, NoTM) /\ UNCHANGED bid
  BY SetTMFacts, ManagersFit DEF RollBackHop, Forget, Owed, Shape, orders
<1>2. CASE currentTX[n][id].contract
  <2> DEFINE b == RmContract(books[n], Payer(id))
             c == RmContract(b, Payee(id))
  <2>1. /\ Payer(id) \in DOMAIN books[n].contract /\ Payee(id) \in DOMAIN books[n].contract
        /\ IsBook(books[n])
    BY <1>2, ManagerHas DEF IsManager, GetsPaid, PaysNext
  <2>2. Payer(id).tx = id /\ Payee(id).tx = id
    BY DEF Payer, Payee, Ref
  <2>3. Removed(books[n], b, id)
    BY <2>1, <2>2, RmFacts
  <2>4. NewBook(n, c)
    BY <1>2, NewBookFacts DEF RollBackHop, Owed, Shape
  <2> HIDE DEF b
  <2>5. Removed(b, c, id)
    BY <2>1, <2>2, <2>3, RmFacts DEF Removed
  <2>6. Removed(books[n], c, id)
    BY <2>3, <2>5 DEF Removed
  <2>7. MayUndo(n, id)
    BY <1>2 DEF MayUndo
  <2> QED
    BY <1>1, <2>4, <2>6, <2>7 DEF RolledBack
<1>3. CASE ~currentTX[n][id].contract
  <2>1. NewBook(n, books[n])
    BY <1>3, SameBooksFacts DEF RollBackHop, Owed, Shape
  <2>2. Removed(books[n], books[n], id)
    BY ManagerHas DEF Removed
  <2> QED
    BY <1>1, <2>1, <2>2 DEF RolledBack
<1> QED
  BY <1>2, <1>3

\* CoordinatorNo, PayeeAbort, PayeeUninitialised (which may be the end of the
\* process, see Dying), PayeeGone, PayeeUnknownPhase.
LEMMA CoordinatorNoKeeps ==
    ASSUME Owed, NEW n \in Nodes, NEW p \in Nodes, CoordinatorNo(n, p)
    PROVE  Owed'
<1> DEFINE id == Head(net[p][n]).tx
           abort == Order("ABORT", id)
<1>1. /\ net[p][n] # <<>> /\ id \in TxIds /\ currentTX[n][id].role = "coordinator"
      /\ RollBackCoordinator(n, id)
      /\ net' = Sent(Taken(n, p), n, NextHop[n][id[1]], abort)
      /\ UNCHANGED <<tunnels, chain>>
  BY HeadFacts DEF CoordinatorNo
<1>2. abort.tx = id /\ abort.phase = "ABORT"
  BY DEF Order, Item
<1> HIDE DEF id, abort
<1>3. Dwindle(net')
  BY <1>1, <1>2, TakeDwindles, SendDwindles
<1> QED
  BY <1>1, <1>3, RollBackCoordinatorFacts, RollBackKeeps

LEMMA PayeeAbortKeeps ==
    ASSUME Owed, NEW n \in Nodes, NEW p \in Nodes, PayeeAbort(n, p)
    PROVE  Owed'
<1> DEFINE id == Head(net[p][n]).tx
<1>1. /\ net[p][n] # <<>> /\ id \in TxIds /\ currentTX[n][id].role = "payee"
      /\ RollBackPayee(n, id)
      /\ net' = Taken(n, p)
      /\ UNCHANGED <<tunnels, chain>>
  BY HeadFacts DEF PayeeAbort
<1> HIDE DEF id
<1>2. Dwindle(net')
  BY <1>1, TakeDwindles
<1> QED
  BY <1>1, <1>2, RollBackPayeeFacts, RollBackKeeps

LEMMA PayeeUninitialisedKeeps ==
    ASSUME Owed, NEW n \in Nodes, NEW p \in Nodes, PayeeUninitialised(n, p)
    PROVE  Owed' \/ Die(n)
<1> SUFFICES ASSUME ~Die(n)
             PROVE  Owed'
  OBVIOUS
<1> DEFINE id == Head(net[p][n]).tx
           request == Order("ABORT_REQUEST", id)
           tm == Cohorte("payee", "ABORT_REQUEST", FALSE)
<1>1. /\ net[p][n] # <<>> /\ id \in TxIds /\ Owner[id[1]] = n
      /\ SetTM(n, id, tm)
      /\ net' = Sent(Taken(n, p), n, p, request) \/ net' = Taken(n, p)
      /\ UNCHANGED <<bid, books, tunnels, chain>>
  BY HeadFacts DEF PayeeUninitialised, Sells, orders
<1>2. request.tx = id /\ request.phase = "ABORT_REQUEST"
  BY DEF Order, Item
<1>3. /\ tm \in Managers /\ tm.role = "payee" /\ tm.phase = "ABORT_REQUEST"
      /\ ~tm.contract
  BY DEF Cohorte, Managers
<1> HIDE DEF id, request, tm
<1>4. Dwindle(net')
  BY <1>1, <1>2, TakeDwindles, SendDwindles
<1>5. NewManager(n, id, tm)
  BY <1>1, <1>3, SetTMFacts DEF Owed, Shape
<1>6. ManagerFades(n, id, currentTX[n][id], tm)
  BY <1>1, <1>3 DEF ManagerFades
<1> QED
  BY <1>1, <1>4, <1>5, <1>6, GivesUpOnly

LEMMA PayeeGoneKeeps ==
    ASSUME Owed, NEW n \in Nodes, NEW p \in Nodes, PayeeGone(n, p)
    PROVE  Owed'
<1> DEFINE id == Head(net[p][n]).tx
<1>1. /\ net[p][n] # <<>> /\ id \in TxIds
      /\ net' = Taken(n, p)
      /\ UNCHANGED <<bid, currentTX, books, tunnels, chain>>
  BY HeadFacts DEF PayeeGone, orders
<1> HIDE DEF id
<1>2. Dwindle(net')
  BY <1>1, TakeDwindles
<1>3. NewManager(n, id, currentTX[n][id])
  BY <1>1, SameTMFacts DEF Owed, Shape
<1>4. ManagerFades(n, id, currentTX[n][id], currentTX[n][id])
  BY DEF ManagerFades
<1> QED
  BY <1>1, <1>2, <1>3, <1>4, GivesUpOnly

LEMMA PayeeUnknownPhaseKeeps ==
    ASSUME Owed, NEW n \in Nodes, NEW p \in Nodes, PayeeUnknownPhase(n, p)
    PROVE  Owed'
<1> DEFINE id == Head(net[p][n]).tx
           fresh == Cohorte("payee", "INIT", FALSE)
<1>1. /\ net[p][n] # <<>> /\ id \in TxIds
      /\ \/ UNCHANGED currentTX
         \/ Owner[id[1]] = n /\ SetTM(n, id, fresh)
      /\ net' = Taken(n, p)
      /\ UNCHANGED <<bid, books, tunnels, chain>>
  BY HeadFacts DEF PayeeUnknownPhase, Sells, orders
<1>2. fresh \in Managers /\ fresh.role = "payee" /\ fresh.phase = "INIT" /\ ~fresh.contract
  BY DEF Cohorte, Managers
<1> HIDE DEF id, fresh
<1>3. Dwindle(net')
  BY <1>1, TakeDwindles
<1>4. CASE UNCHANGED currentTX
  <2>1. NewManager(n, id, currentTX[n][id])
    BY <1>1, <1>4, SameTMFacts DEF Owed, Shape
  <2>2. ManagerFades(n, id, currentTX[n][id], currentTX[n][id])
    BY DEF ManagerFades
  <2> QED
    BY <1>1, <1>3, <2>1, <2>2, GivesUpOnly
<1>5. CASE Owner[id[1]] = n /\ SetTM(n, id, fresh)
  <2>1. NewManager(n, id, fresh)
    BY <1>1, <1>2, <1>5, SetTMFacts DEF Owed, Shape
  <2>2. ManagerFades(n, id, currentTX[n][id], fresh)
    BY <1>2, <1>5 DEF ManagerFades
  <2> QED
    BY <1>1, <1>3, <2>1, <2>2, GivesUpOnly
<1>6. UNCHANGED currentTX \/ (Owner[id[1]] = n /\ SetTM(n, id, fresh))
  BY <1>1, Zenon
<1> QED
  BY <1>4, <1>5, <1>6, Zenon

\* HopOutOfPhase, HopAbort, HopAbortRequest.
LEMMA HopOutOfPhaseKeeps ==
    ASSUME Owed, NEW n \in Nodes, NEW p \in Nodes, HopOutOfPhase(n, p)
    PROVE  Owed'
<1> DEFINE id == Head(net[p][n]).tx
           request == Order("ABORT_REQUEST", id)
           made == HasContracts(n, p)
           tm == Cohorte("hop", "ABORT_REQUEST", made)
<1>1. /\ net[p][n] # <<>> /\ id \in TxIds /\ Tm(n, p) = currentTX[n][id]
      /\ SetTM(n, id, tm)
      /\ net' = Sent(Taken(n, p), n, p, request)
      /\ UNCHANGED <<bid, books, tunnels, chain>>
  BY HeadFacts DEF HopOutOfPhase, orders
<1>2. request.tx = id /\ request.phase = "ABORT_REQUEST"
  BY DEF Order, Item
<1>3. /\ made \in BOOLEAN
      /\ made => currentTX[n][id].role = "hop" /\ currentTX[n][id].contract
  <2>1. currentTX[n][id].role = "hop" => currentTX[n][id].contract \in BOOLEAN
    BY <1>1, ManagerHas DEF Managers, NoTM
  <2> QED
    BY <1>1, <2>1 DEF HasContracts
<1>4. /\ tm \in Managers /\ tm.role = "hop" /\ tm.phase = "ABORT_REQUEST"
      /\ tm.contract = made
  BY <1>3, ManagersFit
<1> HIDE DEF id, request, made, tm
<1>5. Dwindle(net')
  BY <1>1, <1>2, TakeDwindles, SendDwindles
<1>6. NewManager(n, id, tm)
  BY <1>1, <1>4, SetTMFacts DEF Owed, Shape
<1>7. ManagerFades(n, id, currentTX[n][id], tm)
  BY <1>3, <1>4 DEF ManagerFades
<1> QED
  BY <1>1, <1>5, <1>6, <1>7, GivesUpOnly

LEMMA HopAbortKeeps ==
    ASSUME Owed, NEW n \in Nodes, NEW p \in Nodes, HopAbort(n, p)
    PROVE  Owed'
<1> DEFINE item == Head(net[p][n])
           id == item.tx
<1>1. /\ net[p][n] # <<>> /\ id \in TxIds /\ item.phase \in {"ABORT"}
      /\ Tm(n, p) = currentTX[n][id]
      /\ \/ currentTX[n][id].role = "hop" /\ RollBackHop(n, id)
         \/ UNCHANGED <<orders, currentTX, books>>
      /\ net' = Sent(Taken(n, p), n, ToSeller(n, id[1]), item)
      /\ UNCHANGED <<tunnels, chain>>
  BY HeadFacts DEF HopAbort
<1>2. id = item.tx
  OBVIOUS
<1> HIDE DEF id, item
<1>3. Dwindle(net')
  BY <1>1, <1>2, TakeDwindles, SendDwindles
<1>4. CASE currentTX[n][id].role = "hop" /\ RollBackHop(n, id)
  BY <1>1, <1>3, <1>4, RollBackHopFacts, RollBackKeeps
<1>5. CASE UNCHANGED <<orders, currentTX, books>>
  <2>1. NewManager(n, id, currentTX[n][id])
    BY <1>1, <1>5, SameTMFacts DEF Owed, Shape
  <2>2. ManagerFades(n, id, currentTX[n][id], currentTX[n][id])
    BY DEF ManagerFades
  <2>3. UNCHANGED <<bid, books, tunnels, chain>>
    BY <1>1, <1>5 DEF orders
  <2> QED
    BY <1>1, <1>3, <2>1, <2>2, <2>3, GivesUpOnly
<1> QED
  BY <1>1, <1>4, <1>5

LEMMA HopAbortRequestKeeps ==
    ASSUME Owed, NEW n \in Nodes, NEW p \in Nodes, HopAbortRequest(n, p)
    PROVE  Owed'
<1> DEFINE item == Head(net[p][n])
           id == item.tx
           started == Cohorte("hop", "INIT", FALSE)
<1>1. /\ net[p][n] # <<>> /\ id \in TxIds /\ item.phase \in {"ABORT_REQUEST"}
      /\ Tm(n, p) = currentTX[n][id]
      /\ \/ SetTM(n, id, NoTM)
         \/ SetTM(n, id, started)
         \/ SetTM(n, id, currentTX[n][id])
      /\ net' = Sent(Taken(n, p), n, ToBuyer(n, id[1]), item)
      /\ UNCHANGED <<bid, books, tunnels, chain>>
  BY HeadFacts DEF HopAbortRequest, Forget, orders
<1>2. id = item.tx
  OBVIOUS
<1>3. /\ started \in Managers /\ started.role = "hop" /\ started.phase = "INIT"
      /\ ~started.contract
  BY DEF Cohorte, Managers
<1> HIDE DEF id, item, started
<1>4. Dwindle(net')
  BY <1>1, <1>2, TakeDwindles, SendDwindles
<1>5. PICK tm \in {NoTM, started, currentTX[n][id]} : SetTM(n, id, tm)
  BY <1>1
<1>6. tm \in Managers
  BY <1>1, <1>3, ManagersFit, ManagerHas
<1>7. NewManager(n, id, tm)
  BY <1>1, <1>5, <1>6, SetTMFacts DEF Owed, Shape
<1>8. ManagerFades(n, id, currentTX[n][id], tm)
  BY <1>3, <1>5 DEF ManagerFades, NoTM
<1> QED
  BY <1>1, <1>4, <1>7, <1>8, GivesUpOnly

\* TransactionManager::timeout, on one manager.
LEMMA RollBackOnTimeoutKeeps ==
    ASSUME Owed, NEW n \in Nodes, NEW id \in TxIds, RollBackOnTimeout(n, id),
           UNCHANGED <<net, tunnels, chain>>
    PROVE  Owed'
<1>1. RolledBack(n, id)
  BY RollBackCoordinatorFacts, RollBackPayeeFacts, RollBackHopFacts DEF RollBackOnTimeout
<1>2. Dwindle(net')
  BY SameLinks
<1> QED
  BY <1>1, <1>2, RollBackKeeps

-----------------------------------------------------------------------------
(* The end of a process, links, and the orders.                            *)

LEMMA AllFade ==
    ASSUME Owed, Shape', UNCHANGED chain, \A j \in TxIds : Fades(j)
    PROVE  Owed'
<1>1. \A j \in TxIds : OwedFor(j)'
  BY FadesKeeps DEF Owed
<1>2. (chain \subseteq TxIds)'
  BY DEF Owed
<1> QED
  BY <1>1, <1>2 DEF Owed

\* Links that lost what was sent last, or everything.
LEMMA CutDwindles ==
    ASSUME Owed, NEW b, DOMAIN b = Nodes, \A f \in Nodes : DOMAIN b[f] = Nodes,
           \A f, t \in Nodes : \/ b[f][t] = <<>> \/ b[f][t] = net[f][t]
                               \/ b[f][t] \in Prefixes(net[f][t])
    PROVE  Dwindle(b)
<1>1. ASSUME NEW f \in Nodes, NEW t \in Nodes
      PROVE  /\ b[f][t] \in Seq(Range(net[f][t]))
             /\ LeftOf(b[f][t], net[f][t])
  <2> DEFINE q == net[f][t]
             S == Range(q)
             r == b[f][t]
  <2>1. q \in Seq(S) /\ (r = <<>> \/ r = q \/ r \in Prefixes(q))
    BY DEF Owed, Shape, Known
  <2> HIDE DEF q, S, r
  <2>2. /\ \A x \in Prefixes(q) : x \in Seq(S) /\ LeftOf(x, q)
        /\ <<>> \in Seq(S) /\ LeftOf(<<>>, q) /\ LeftOf(q, q)
    BY <2>1, LeftFacts
  <2>3. r \in Seq(S) /\ LeftOf(r, q)
    BY <2>1, <2>2
  <2> QED
    BY <2>3 DEF q, S, r
<1>2. /\ Known(b)
      /\ \A f, t \in Nodes : Range(b[f][t]) \subseteq Range(net[f][t])
      /\ \A id \in TxIds : OneToken(net, id) => OneToken(b, id)
  <2>1. Known(net)
    BY DEF Owed, Shape
  <2> QED
    BY <1>1, <2>1, ThinnedLinks
<1>3. \A id \in TxIds : OneToken(net, id)
  BY DEF Owed, OwedFor
<1> QED
  BY <1>2, <1>3 DEF Dwindle

LEMMA DieKeeps ==
    ASSUME Owed, NEW n \in Nodes, Die(n)
    PROVE  Owed'
<1>1. PICK kept \in [Nodes -> UNION {Prefixes(net[n][t]) : t \in Nodes}] :
          /\ \A t \in Nodes : kept[t] \in Prefixes(net[n][t])
          /\ net' = [f \in Nodes |-> [t \in Nodes |->
                        IF t = n THEN <<>>
                        ELSE IF f = n THEN kept[t] ELSE net[f][t]]]
  BY DEF Die
<1>2. Dwindle(net')
  BY <1>1, CutDwindles
<1>3. Known(net') /\ \A j \in TxIds : ItemsFade(j)
  BY <1>2, DwindleFades
<1>4. /\ DOMAIN books' = Nodes
      /\ \A m \in Nodes : books'[m].stored = books[m].stored
      /\ \A m \in Nodes : m # n => books'[m] = books[m]
      /\ DOMAIN books'[n] = DOMAIN books[n] /\ books'[n].contract = <<>>
  BY DEF Die, Owed, Shape, IsBook
<1>5. ASSUME NEW m \in Nodes
      PROVE  IsBook(books'[m])
  <2>1. DOMAIN <<>> = {}
    OBVIOUS
  <2> QED
    BY <1>4, <2>1 DEF Owed, Shape, IsBook
<1>6. /\ ManagersKnown'
      /\ \A m \in Nodes : m # n => currentTX'[m] = currentTX[m]
      /\ \A j \in TxIds : currentTX'[n][j] = NoTM
  BY ManagersFit DEF Die, Owed, Shape, ManagersKnown
<1>7. TunnelsLead' /\ BidsKnown' /\ UNCHANGED <<bid, chain>>
  BY DEF Die, Owed, Shape, TunnelsLead, IsTunnel, BidsKnown, orders
<1>8. ASSUME NEW j \in TxIds
      PROVE  Fades(j)
  <2>1. ASSUME NEW m \in Nodes
        PROVE  /\ ManagerFades(m, j, currentTX[m][j], currentTX'[m][j])
               /\ MayUndo(m, j)' => DealsStay(j, books[m].contract, books'[m].contract)
               /\ RowsFade(m, j)
    <3>1. RowsFade(m, j)
      BY <1>4 DEF RowsFade
    <3>2. CASE m = n
      BY <1>6, <3>1, <3>2 DEF ManagerFades, NoTM, MayUndo
    <3>3. CASE m # n
      <4>1. books'[m] = books[m] /\ currentTX'[m] = currentTX[m]
        BY <1>4, <1>6, <3>3
      <4> QED
        BY <4>1, SameDealsStay DEF ManagerFades
    <3> QED
      BY <3>2, <3>3
  <2> QED
    BY <1>3, <1>7, <2>1 DEF Fades
<1> QED
  BY <1>3, <1>4, <1>5, <1>6, <1>7, <1>8, AllFade DEF Shape

\* Books and chain stay as they are.
LEMMA QuietStep ==
    ASSUME Owed, Dwindle(net'), UNCHANGED <<books, tunnels, chain>>,
           ManagersKnown',
           \A n \in Nodes, j \in TxIds : ManagerFades(n, j, currentTX[n][j], currentTX'[n][j]),
           BidsKnown', \A b \in Bids : bid'[b].matched = bid[b].matched
    PROVE  Owed'
<1>1. Known(net') /\ \A j \in TxIds : ItemsFade(j)
  BY DwindleFades
<1>2. ASSUME NEW j \in TxIds
      PROVE  Fades(j)
  <2>1. j[2] \in Bids
    BY DEF TxIds
  <2>2. \A n \in Nodes : /\ DealsStay(j, books[n].contract, books'[n].contract)
                         /\ RowsFade(n, j)
    BY SameDealsStay
  <2> QED
    BY <1>1, <2>1, <2>2 DEF Fades
<1>3. Shape'
  BY <1>1, SameTunnels DEF Owed, Shape
<1> QED
  BY <1>2, <1>3, AllFade

LEMMA DropLinkKeeps ==
    ASSUME Owed, NEW n \in Nodes, NEW p \in Nodes, DropLink(n, p)
    PROVE  Owed'
<1>1. PICK there \in Prefixes(net[n][p]), back \in Prefixes(net[p][n]) :
          net' = [net EXCEPT ![n][p] = there, ![p][n] = back]
  BY DEF DropLink
<1>2. /\ DOMAIN net' = Nodes /\ \A f \in Nodes : DOMAIN net'[f] = Nodes
      /\ \A f, t \in Nodes : net'[f][t] = IF f = p /\ t = n THEN back
                                          ELSE IF f = n /\ t = p THEN there
                                          ELSE net[f][t]
  BY <1>1 DEF Owed, Shape, Known
<1>3. Dwindle(net')
  BY <1>2, CutDwindles
<1>4. /\ UNCHANGED <<bid, currentTX, books, tunnels, chain>>
      /\ ManagersKnown' /\ BidsKnown'
  BY DEF DropLink, Owed, Shape, ManagersKnown, BidsKnown, orders
<1> QED
  BY <1>3, <1>4, QuietStep DEF ManagerFades

LEMMA CancelOrderKeeps ==
    ASSUME Owed, NEW n \in Nodes, NEW o, CancelOrder(n, o)
    PROVE  Owed'
<1>1. /\ UNCHANGED <<currentTX, books, tunnels, chain, net>>
      /\ UNCHANGED bid \/ (o \in Bids /\ bid' = [bid EXCEPT ![o] = Cancelled(@)])
  BY DEF CancelOrder
<1>2. BidsKnown' /\ \A b \in Bids : bid'[b].matched = bid[b].matched
  BY <1>1 DEF Owed, Shape, BidsKnown, Cancelled
<1>3. Dwindle(net') /\ ManagersKnown'
  BY <1>1, SameLinks DEF Owed, Shape, ManagersKnown
<1> QED
  BY <1>1, <1>2, <1>3, QuietStep DEF ManagerFades

LEMMA LearnOrderKeeps ==
    ASSUME Owed, NEW n \in Nodes, NEW a \in Asks, LearnOrder(n, a)
    PROVE  Owed'
<1>1. /\ UNCHANGED <<bid, books, tunnels, chain, net>>
      /\ \E becomes \in {"old", "freed"} :
            currentTX' = [currentTX EXCEPT ![n] = WithoutOrder(n, a, becomes, NoTx)]
  BY DEF LearnOrder
<1>2. /\ ManagersKnown' /\ \A m \in Nodes : m # n => currentTX'[m] = currentTX[m]
      /\ \A j \in TxIds : ManagerFades(n, j, currentTX[n][j], currentTX'[n][j])
  <2>1. PICK becomes \in {"old", "freed"} :
            currentTX' = [currentTX EXCEPT ![n] = WithoutOrder(n, a, becomes, NoTx)]
    BY <1>1
  <2>2. ManagersKnown
    BY DEF Owed, Shape
  <2> QED
    BY <2>1, <2>2, WithoutOrderFacts
<1>3. ASSUME NEW m \in Nodes, NEW j \in TxIds
      PROVE  ManagerFades(m, j, currentTX[m][j], currentTX'[m][j])
  <2>1. CASE m = n
    BY <1>2, <2>1
  <2>2. CASE m # n
    <3>1. currentTX'[m] = currentTX[m]
      BY <1>2, <2>2
    <3> QED
      BY <3>1 DEF ManagerFades
  <2> QED
    BY <2>1, <2>2
<1>4. Dwindle(net') /\ BidsKnown'
  BY <1>1, SameLinks DEF Owed, Shape, BidsKnown
<1> QED
  BY <1>1, <1>2, <1>3, <1>4, QuietStep

-----------------------------------------------------------------------------
(* Handlers that carry their transaction further.                          *)

\* The transaction has one item under way, or none.
OnlyItem(id, g, u, new) ==
    /\ OneToken(net', id)
    /\ \A f, t \in Nodes : \A item \in Range(net'[f][t]) :
          Token(item, id) => f = g /\ t = u /\ item = new
Elsewhere(n) ==
    \A m \in Nodes : m # n => books'[m] = books[m] /\ currentTX'[m] = currentTX[m]

LEMMA ElsewhereSame ==
    ASSUME NEW n \in Nodes, NEW id \in TxIds, Elsewhere(n), NEW m \in Nodes, m # n
    PROVE  /\ MayUndo(m, id)' = MayUndo(m, id) /\ Voted(m, id)' = Voted(m, id)
           /\ Waits(m, id)' = Waits(m, id) /\ HasRow(m, id)' = HasRow(m, id)
           /\ AmountOf(m, id)' = AmountOf(m, id) /\ Receipts(m)' = Receipts(m)
           /\ books'[m].stored = books[m].stored
<1>1. books'[m] = books[m] /\ currentTX'[m] = currentTX[m]
  BY DEF Elsewhere
<1> QED
  BY <1>1 DEF MayUndo, Voted, PassedVote, Waits, HasRow, AmountOf, Receipts

LEMMA ManagersElsewhere ==
    ASSUME Owed, NEW n \in Nodes, NEW id \in TxIds, Elsewhere(n), NEW m \in Nodes, m # n
    PROVE  IsManager(m, id, currentTX[m][id])' /\ HasVoted(m, id, books[m].contract)'
<1>1. books'[m] = books[m] /\ currentTX'[m] = currentTX[m]
  BY DEF Elsewhere
<1>2. IsManager(m, id, currentTX[m][id]) /\ HasVoted(m, id, books[m].contract)
  BY ManagerHas
<1>3. PaysNext(m, id)' = PaysNext(m, id) /\ GetsPaid(m, id)' = GetsPaid(m, id)
  BY <1>1, RouteStays DEF PaysNext, GetsPaid
<1>4. IsManager(m, id, currentTX[m][id])'
  BY <1>1, <1>2, <1>3, RouteStays DEF IsManager
<1>5. HasVoted(m, id, books[m].contract)'
  BY <1>1, <1>2 DEF HasVoted, Voted, Waits, PassedVote
<1> QED
  BY <1>4, <1>5

\* A transaction of which nothing was agreed on: Match, PayeeQuery, HopQuery.
Begins(n, id, u, new) ==
    /\ Untouched(id) /\ Elsewhere(n) /\ OnlyItem(id, n, u, new)
    /\ Token(new, id) /\ u \in Nodes => IsOnRoute(n, u, new)'
    /\ new.phase # "COMMIT"
    /\ \A row \in books'[n].stored : row.tx # id
    /\ id[1] \in bid'[id[2]].matched
    /\ id \in chain' => id \in chain
    /\ IsManager(n, id, currentTX[n][id])' /\ HasVoted(n, id, books[n].contract)'
    /\ Voted(n, id)' => /\ NextHop[n][id[1]] \notin Nodes
                        /\ new.phase = "VOTE_YES" /\ new.amount = AmountOf(n, id)'
    /\ Waits(n, id)' /\ Token(new, id) => new.phase = "QUERY"

LEMMA BeginsKeeps ==
    ASSUME Owed, NEW n \in Nodes, NEW id \in TxIds, NEW u, NEW new, Begins(n, id, u, new)
    PROVE  OwedFor(id)'
<1>1. ASSUME NEW m \in Nodes
      PROVE  ~HasRow(m, id)' /\ (Voted(m, id)' => m = n)
  <2>1. CASE m = n
    BY <2>1 DEF Begins, HasRow
  <2>2. CASE m # n
    BY <2>2, ElsewhereSame DEF Begins, Untouched
  <2> QED
    BY <2>1, <2>2
<1>2. ASSUME NEW f \in Nodes, NEW t \in Nodes, NEW item \in Range(net'[f][t]), Token(item, id)
      PROVE  f = n /\ t = u /\ item = new
  BY <1>2 DEF Begins, OnlyItem
<1>3. ASSUME NEW m \in Nodes, NEW row \in books'[m].stored
      PROVE  row.tx # id
  BY <1>1 DEF HasRow
<1>4. ItemsOnRoute(id)'
  <2> SUFFICES ASSUME NEW f \in Nodes, NEW t \in Nodes, NEW item \in Range(net'[f][t]),
                      Token(item, id)
               PROVE  IsOnRoute(f, t, item)'
    BY DEF ItemsOnRoute
  <2>1. f = n /\ t = u /\ item = new
    BY <1>2
  <2> QED
    BY <2>1 DEF Begins
<1>5. ManagersOnRoute(id)'
  <2> SUFFICES ASSUME NEW m \in Nodes
               PROVE  IsManager(m, id, currentTX[m][id])' /\ HasVoted(m, id, books[m].contract)'
    BY DEF ManagersOnRoute
  <2>1. CASE m = n
    BY <2>1 DEF Begins
  <2>2. CASE m # n
    BY <2>2, ManagersElsewhere DEF Begins
  <2> QED
    BY <2>1, <2>2
<1>6. OneToken(net, id)' /\ NothingBeforeMatch(id)'
  BY DEF Begins, OnlyItem, NothingBeforeMatch
<1>7. NothingBeforeVote(id)'
  <2> SUFFICES ASSUME NEW f \in Nodes, NEW t \in Nodes, NEW item \in Range(net'[f][t]),
                      Token(item, id)
               PROVE  /\ item.phase = "QUERY" => Untouched(id)'
                      /\ item.phase \in {"VOTE_YES", "VOTE_NO"} => ~Waits(f, id)'
    BY DEF NothingBeforeVote
  <2>1. f = n /\ item = new
    BY <1>2
  <2>2. item.phase = "QUERY" => Untouched(id)'
    BY <1>1, <2>1 DEF Begins, Untouched
  <2>3. item.phase \in {"VOTE_YES", "VOTE_NO"} => ~Waits(f, id)'
    BY <2>1 DEF Begins
  <2> QED
    BY <2>2, <2>3
<1>8. NobodyWaitsBehind(id)'
  BY <1>1 DEF NobodyWaitsBehind, Begins
<1>9. VotesAgree(id)'
  <2> SUFFICES ASSUME NEW m \in Nodes, Voted(m, id)'
               PROVE  /\ \A t \in Nodes : \A item \in Range(net'[m][t]) :
                            Token(item, id) /\ item.phase = "VOTE_YES" =>
                                item.amount = AmountOf(m, id)'
                      /\ \A p \in Nodes : NextHop[p][id[1]] = m =>
                            /\ Voted(p, id)' => AmountOf(p, id)' = AmountOf(m, id)'
                            /\ \A row \in books'[p].stored :
                                  row.tx = id => row.amount = AmountOf(m, id)'
    BY DEF VotesAgree
  <2>1. m = n /\ new.amount = AmountOf(n, id)'
    BY <1>1 DEF Begins
  <2> QED
    BY <1>1, <1>2, <1>3, <2>1
<1>10. CommitsAreCovered(id)'
  BY <1>2 DEF CommitsAreCovered, Begins
<1>11. ReceiptsAreCovered(id)'
  BY <1>3 DEF ReceiptsAreCovered, Receipts
<1>12. ChainIsCovered(id)'
  <2>1. id \notin chain
    <3>1. Owner[id[1]] \in Nodes
      BY OrdersAssumption DEF TxIds
    <3> QED
      BY <3>1 DEF Owed, OwedFor, ChainIsCovered, Begins, Untouched, HasRow, Receipts
  <2> QED
    BY <2>1 DEF ChainIsCovered, Begins
<1> QED
  BY <1>4, <1>5, <1>6, <1>7, <1>8, <1>9, <1>10, <1>11, <1>12 DEF OwedFor

\* Who has promised goes on to do so.
LEMMA CoversKept ==
    ASSUME NEW n \in Nodes, NEW id \in TxIds, Elsewhere(n),
           MayUndo(n, id)' => MayUndo(n, id),
           \A row \in books[n].stored : row.tx = id => row \in books'[n].stored,
           NEW p \in Nodes, NEW m \in Nodes, NEW amount, Covers(p, m, id, amount)
    PROVE  Covers(p, m, id, amount)'
<1>1. ~MayUndo(p, id)'
  BY ElsewhereSame DEF Covers
<1>2. \A row \in books[p].stored : row.tx = id => row \in books'[p].stored
  BY ElsewhereSame
<1>3. ASSUME NEW party, NEW q, Promise(p, id, party, q, amount)
      PROVE  Promise(p, id, party, q, amount)'
  BY <1>2, <1>3 DEF Promise
<1> QED
  BY <1>1, <1>3 DEF Covers

\* A node makes its promises good: CoordinatorYes, PayeeCommit, HopCommit.  What
\* it stores is about amount.
Commits(n, id, u, new, amount) ==
    /\ Elsewhere(n) /\ OnlyItem(id, n, u, new)
    /\ Token(new, id) => new.phase = "COMMIT" /\ new.tx = id
    /\ Token(new, id) /\ u \in Nodes =>
          /\ Leads(n, u, id)
          /\ \E row \in books'[n].stored : row.tx = id /\ Covers(n, u, id, row.amount)'
    /\ id[1] \in bid[id[2]].matched /\ id[1] \in bid'[id[2]].matched
    /\ \A row \in books[n].stored : row.tx = id => row \in books'[n].stored
    /\ \A row \in books'[n].stored :
          row.tx = id => row \in books[n].stored \/ row.amount = amount
    /\ IsManager(n, id, currentTX[n][id])'
    /\ ~Voted(n, id)' /\ ~Waits(n, id)' /\ (MayUndo(n, id)' => MayUndo(n, id))
    /\ \A m \in Nodes : NextHop[n][id[1]] = m =>
          ~Waits(m, id) /\ (Voted(m, id) => AmountOf(m, id) = amount)
    /\ \A row \in Receipts(n)' : row.tx = id =>
          \/ row \in Receipts(n)
          \/ /\ ~MayUndo(n, id)' /\ row.peer \in Nodes
             /\ Covers(row.peer, n, id, row.amount)
    /\ id \in chain' => id \in chain \/ \E row \in Receipts(Owner[id[1]])' : row.tx = id

LEMMA CommitsKeeps ==
    ASSUME Owed, NEW n \in Nodes, NEW id \in TxIds, NEW u, NEW new, NEW amount,
           Commits(n, id, u, new, amount)
    PROVE  OwedFor(id)'
<1>1. ASSUME NEW m \in Nodes
      PROVE  /\ Voted(m, id)' => /\ m # n /\ Voted(m, id)
                                 /\ AmountOf(m, id)' = AmountOf(m, id)
             /\ Waits(m, id)' => m # n /\ Waits(m, id)
             /\ MayUndo(m, id)' => MayUndo(m, id)
  <2>1. CASE m = n
    BY <2>1 DEF Commits
  <2>2. CASE m # n
    BY <2>2, ElsewhereSame DEF Commits
  <2> QED
    BY <2>1, <2>2
<1>2. ASSUME NEW m \in Nodes
      PROVE  /\ \A row \in books[m].stored : row.tx = id => row \in books'[m].stored
             /\ m # n => books'[m].stored = books[m].stored
  <2>1. CASE m = n
    BY <2>1 DEF Commits
  <2>2. CASE m # n
    BY <2>2, ElsewhereSame DEF Commits
  <2> QED
    BY <2>1, <2>2
<1>3. ASSUME NEW p \in Nodes, NEW m \in Nodes, NEW x, Covers(p, m, id, x)
      PROVE  Covers(p, m, id, x)'
  BY <1>2, <1>3, CoversKept DEF Commits
<1>4. ASSUME NEW f \in Nodes, NEW t \in Nodes, NEW item \in Range(net'[f][t]), Token(item, id)
      PROVE  f = n /\ t = u /\ item = new /\ item.phase = "COMMIT" /\ item.tx = id
  BY <1>4 DEF Commits, OnlyItem
<1>5. ItemsOnRoute(id)'
  <2> SUFFICES ASSUME NEW f \in Nodes, NEW t \in Nodes, NEW item \in Range(net'[f][t]),
                      Token(item, id)
               PROVE  IsOnRoute(f, t, item)'
    BY DEF ItemsOnRoute
  <2>1. f = n /\ t = u /\ item = new /\ item.phase = "COMMIT" /\ item.tx = id
    BY <1>4
  <2>2. Leads(f, t, item.tx)
    BY <2>1 DEF Commits
  <2> QED
    BY <2>1, <2>2, RouteStays DEF IsOnRoute
<1>6. ManagersOnRoute(id)'
  <2> SUFFICES ASSUME NEW m \in Nodes
               PROVE  IsManager(m, id, currentTX[m][id])' /\ HasVoted(m, id, books[m].contract)'
    BY DEF ManagersOnRoute
  <2>1. CASE m = n
    BY <2>1 DEF Commits, HasVoted, Voted
  <2>2. CASE m # n
    BY <2>2, ManagersElsewhere DEF Commits
  <2> QED
    BY <2>1, <2>2
<1>7. OneToken(net, id)' /\ NothingBeforeMatch(id)'
  BY DEF Commits, OnlyItem, NothingBeforeMatch
<1>8. NothingBeforeVote(id)'
  BY <1>4 DEF NothingBeforeVote
<1>9. NobodyWaitsBehind(id)'
  <2> SUFFICES ASSUME NEW m \in Nodes, NEW p \in Nodes, NextHop[p][id[1]] = m,
                      Voted(p, id)' \/ HasRow(p, id)', Waits(m, id)'
               PROVE  FALSE
    BY DEF NobodyWaitsBehind
  <2>1. m # n /\ Waits(m, id)
    BY <1>1
  <2>2. p # n
    BY <2>1 DEF Commits
  <2>3. Voted(p, id) \/ HasRow(p, id)
    BY <2>2, ElsewhereSame DEF Commits
  <2> QED
    BY <2>1, <2>3 DEF Owed, OwedFor, NobodyWaitsBehind
<1>10. VotesAgree(id)'
  <2> SUFFICES ASSUME NEW m \in Nodes, Voted(m, id)'
               PROVE  /\ \A t \in Nodes : \A item \in Range(net'[m][t]) :
                            Token(item, id) /\ item.phase = "VOTE_YES" =>
                                item.amount = AmountOf(m, id)'
                      /\ \A p \in Nodes : NextHop[p][id[1]] = m =>
                            /\ Voted(p, id)' => AmountOf(p, id)' = AmountOf(m, id)'
                            /\ \A row \in books'[p].stored :
                                  row.tx = id => row.amount = AmountOf(m, id)'
    BY DEF VotesAgree
  <2>1. m # n /\ Voted(m, id) /\ AmountOf(m, id)' = AmountOf(m, id)
    BY <1>1
  <2>2. \A p \in Nodes : NextHop[p][id[1]] = m =>
              /\ Voted(p, id) => AmountOf(p, id) = AmountOf(m, id)
              /\ \A row \in books[p].stored : row.tx = id => row.amount = AmountOf(m, id)
    BY <2>1 DEF Owed, OwedFor, VotesAgree
  <2>3. ASSUME NEW p \in Nodes, NextHop[p][id[1]] = m
        PROVE  /\ Voted(p, id)' => AmountOf(p, id)' = AmountOf(m, id)
               /\ \A row \in books'[p].stored : row.tx = id => row.amount = AmountOf(m, id)
    <3>1. Voted(p, id)' => AmountOf(p, id)' = AmountOf(m, id)
      BY <1>1, <2>2, <2>3
    <3>2. CASE p = n
      <4>1. AmountOf(m, id) = amount
        BY <2>1, <2>3, <3>2 DEF Commits
      <4>2. \A row \in books'[n].stored :
                row.tx = id => row \in books[n].stored \/ row.amount = amount
        BY DEF Commits
      <4> QED
        BY <2>2, <2>3, <3>1, <3>2, <4>1, <4>2
    <3>3. CASE p # n
      BY <1>2, <2>2, <2>3, <3>1, <3>3
    <3> QED
      BY <3>2, <3>3
  <2> QED
    BY <1>4, <2>1, <2>3
<1>11. CommitsAreCovered(id)'
  <2> SUFFICES ASSUME NEW p \in Nodes, NEW m \in Nodes, NEW item \in Range(net'[p][m]),
                      Token(item, id), item.phase = "COMMIT"
               PROVE  \E row \in books'[p].stored : row.tx = id /\ Covers(p, m, id, row.amount)'
    BY DEF CommitsAreCovered
  <2>1. p = n /\ m = u /\ item = new
    BY <1>4
  <2> QED
    BY <2>1 DEF Commits
<1>12. ReceiptsAreCovered(id)'
  <2> SUFFICES ASSUME NEW m \in Nodes, NEW row \in Receipts(m)', row.tx = id
               PROVE  ~MayUndo(m, id)' /\ row.peer \in Nodes /\ Covers(row.peer, m, id, row.amount)'
    BY DEF ReceiptsAreCovered
  <2>1. CASE row \in Receipts(m)
    <3>1. ~MayUndo(m, id) /\ row.peer \in Nodes /\ Covers(row.peer, m, id, row.amount)
      BY <2>1 DEF Owed, OwedFor, ReceiptsAreCovered
    <3> QED
      BY <1>1, <1>3, <3>1
  <2>2. CASE row \notin Receipts(m)
    <3>1. m = n
      BY <2>2, ElsewhereSame DEF Commits
    <3>2. ~MayUndo(n, id)' /\ row.peer \in Nodes /\ Covers(row.peer, n, id, row.amount)
      BY <2>2, <3>1 DEF Commits
    <3> QED
      BY <1>3, <3>1, <3>2
  <2> QED
    BY <2>1, <2>2
<1>13. ChainIsCovered(id)'
  <2> SUFFICES ASSUME id \in chain'
               PROVE  \E row \in Receipts(Owner[id[1]])' : row.tx = id
    BY DEF ChainIsCovered
  <2>1. CASE id \in chain
    <3>1. Owner[id[1]] \in Nodes
      BY OrdersAssumption DEF TxIds
    <3>2. PICK row \in Receipts(Owner[id[1]]) : row.tx = id
      BY <2>1 DEF Owed, OwedFor, ChainIsCovered
    <3>3. row \in Receipts(Owner[id[1]])'
      BY <1>2, <3>1, <3>2 DEF Receipts
    <3> QED
      BY <3>2, <3>3
  <2>2. CASE \E row \in Receipts(Owner[id[1]])' : row.tx = id
    BY <2>2
  <2> QED
    BY <2>1, <2>2 DEF Commits
<1> QED
  BY <1>5, <1>6, <1>7, <1>8, <1>9, <1>10, <1>11, <1>12, <1>13 DEF OwedFor

\* What the first item of a link says about its transaction.
LEMMA ItemTells ==
    ASSUME Owed, NEW n \in Nodes, NEW p \in Nodes, NEW item \in Range(net[p][n]),
           NEW id \in TxIds, Token(item, id)
    PROVE  /\ IsOnRoute(p, n, item) /\ item.tx = id
           /\ id[1] \in bid[id[2]].matched
           /\ item.phase = "QUERY" => Untouched(id)
           /\ item.phase \in {"VOTE_YES", "VOTE_NO"} => ~Waits(p, id)
           /\ item.phase = "COMMIT" =>
                 \E row \in books[p].stored : row.tx = id /\ Covers(p, n, id, row.amount)
<1>1. OwedFor(id)
  BY DEF Owed
<1>2. IsOnRoute(p, n, item) /\ item.tx = id
  BY <1>1 DEF OwedFor, ItemsOnRoute, Token
<1>3. id[1] \in bid[id[2]].matched
  BY <1>1 DEF OwedFor, NothingBeforeMatch, NoToken
<1>4. /\ item.phase = "QUERY" => Untouched(id)
      /\ item.phase \in {"VOTE_YES", "VOTE_NO"} => ~Waits(p, id)
  BY <1>1 DEF OwedFor, NothingBeforeVote
<1>5. item.phase = "COMMIT" =>
          \E row \in books[p].stored : row.tx = id /\ Covers(p, n, id, row.amount)
  BY <1>1 DEF OwedFor, CommitsAreCovered
<1> QED
  BY <1>2, <1>3, <1>4, <1>5

LEMMA NotNext ==
    ASSUME NEW n \in Nodes, NEW a \in Asks
    PROVE  NextHop[n][a] # n
<1>1. {n} \in SUBSET Nodes /\ {n} # {}
  OBVIOUS
<1>2. \E m \in {n} : NextHop[m][a] \notin {n}
  BY <1>1, RoutesAssumption
<1> QED
  BY <1>2

LEMMA NoManager ==
    ASSUME NEW n, NEW id, currentTX'[n][id] = NoTM
    PROVE  /\ IsManager(n, id, currentTX[n][id])' /\ HasVoted(n, id, books[n].contract)'
           /\ ~Voted(n, id)' /\ ~Waits(n, id)' /\ ~MayUndo(n, id)'
BY DEF IsManager, HasVoted, Voted, PassedVote, Waits, MayUndo, NoTM

\* A node that answers a QUERY or passes it on.
LEMMA QueryHandled ==
    ASSUME Owed, NEW n \in Nodes, NEW p \in Nodes, net[p][n] # <<>>,
           NEW id \in TxIds, Token(Head(net[p][n]), id), Head(net[p][n]).phase = "QUERY",
           NEW tm, NewManager(n, id, tm),
           NEW b, NewBook(n, b), Spares(books[n], b, id), b.stored = books[n].stored,
           NEW u, NEW new, new.tx = id, new.phase \in Phases \ {"COMMIT"},
           net' = Sent(Taken(n, p), n, u, new),
           UNCHANGED <<bid, chain>>, TunnelsLead',
           u \in Nodes => IsOnRoute(n, u, new),
           IsManager(n, id, currentTX[n][id])', HasVoted(n, id, books[n].contract)',
           Voted(n, id)' => /\ NextHop[n][id[1]] \notin Nodes
                            /\ new.phase = "VOTE_YES" /\ new.amount = AmountOf(n, id)',
           Waits(n, id)' => new.phase = "QUERY"
    PROVE  Owed'
<1>1. Head(net[p][n]) \in Range(net[p][n])
  BY TakenFacts DEF Owed, Shape
<1>2. Untouched(id) /\ id[1] \in bid[id[2]].matched
  BY <1>1, ItemTells
<1>3. Carries(net', id, n, u, new)
  BY TakeAndSendCarries
<1>4. Known(net') /\ \A j \in TxIds : j # id => ItemsFade(j)
  BY <1>3, CarriesFades
<1>5. Acts(n, id)
  BY <1>4, MakeActs
<1>6. OnlyItem(id, n, u, new)
  BY <1>3 DEF OnlyItem, Carries
<1>7. Elsewhere(n)
  BY DEF Elsewhere, NewManager, NewBook
<1>8. \A row \in books'[n].stored : row.tx # id
  BY <1>2 DEF Untouched, HasRow, NewBook
<1>9. u \in Nodes => IsOnRoute(n, u, new)'
  BY RouteStays DEF IsOnRoute
<1>10. Begins(n, id, u, new)
  BY <1>2, <1>6, <1>7, <1>8, <1>9 DEF Begins
<1> QED
  BY <1>5, <1>10, BeginsKeeps, ActsKeeps

\* An item that is made has the fields it is made of.
LEMMA ItemFields ==
    ASSUME NEW phase, NEW id, NEW amount, NEW btcTx
    PROVE  /\ Item(phase, id, amount, btcTx).phase = phase
           /\ Item(phase, id, amount, btcTx).tx = id
           /\ Item(phase, id, amount, btcTx).amount = amount
           /\ Item(phase, id, amount, btcTx).btcTx = btcTx
BY DEF Item

\* A friend that got a QUERY gets the answer: a vote is sent back, and a payee's
\* vote is YES.
LEMMA VoteNoSent ==
    ASSUME Owed, NEW n \in Nodes, NEW p \in Nodes, net[p][n] # <<>>,
           NEW id \in TxIds, Token(Head(net[p][n]), id), Head(net[p][n]).phase = "QUERY",
           currentTX[n][id] = NoTM, UNCHANGED currentTX,
           NEW b, NewBook(n, b), Spares(books[n], b, id), b.stored = books[n].stored,
           net' = Sent(Taken(n, p), n, p, Item("VOTE_NO", id, 0, VoteNoTx)),
           UNCHANGED <<bid, chain>>, TunnelsLead'
    PROVE  Owed'
<1> DEFINE new == Item("VOTE_NO", id, 0, VoteNoTx)
<1>1. Head(net[p][n]) \in Range(net[p][n])
  BY TakenFacts DEF Owed, Shape
<1>2. IsOnRoute(p, n, Head(net[p][n])) /\ Head(net[p][n]).tx = id
  BY <1>1, ItemTells
<1>3. NextHop[p][id[1]] = n
  BY <1>2 DEF IsOnRoute, Leads
<1>4. new.phase = "VOTE_NO" /\ new.tx = id /\ new.btcTx = VoteNoTx
  BY ItemFields
<1>5. new.phase \in Phases \ {"COMMIT"}
  BY <1>4 DEF Phases
<1>6. IsOnRoute(n, p, new)
  BY <1>3, <1>4 DEF IsOnRoute
<1>7. NewManager(n, id, NoTM)
  BY SameTMFacts DEF Owed, Shape
<1>8. currentTX'[n][id] = NoTM
  BY <1>7 DEF NewManager
<1>9. /\ IsManager(n, id, currentTX[n][id])' /\ HasVoted(n, id, books[n].contract)'
      /\ ~Voted(n, id)' /\ ~Waits(n, id)'
  BY <1>8, NoManager
<1>10. net' = Sent(Taken(n, p), n, p, new)
  OBVIOUS
<1> HIDE DEF new
<1> QED
  BY <1>4, <1>5, <1>6, <1>7, <1>9, <1>10, QueryHandled

\* A payee fits its transaction if the contract is with the friend before it.
LEMMA PayeeFits ==
    ASSUME NEW n \in Nodes, NEW p \in Nodes, NEW id \in TxIds, Owner[id[1]] = n, Leads(p, n, id),
           NEW tm, NewManager(n, id, tm), tm.role = "payee",
           NEW b, NewBook(n, b),
           Payee(id) \in DOMAIN b.contract, b.contract[Payee(id)].peer = p
    PROVE  /\ IsManager(n, id, currentTX[n][id])' /\ ~Waits(n, id)' /\ ~PassedVote(n, id)'
           /\ AmountOf(n, id)' = b.contract[Payee(id)].amount
<1>1. books'[n] = b /\ currentTX'[n][id] = tm
  BY DEF NewBook, NewManager
<1>2. GetsPaid(n, id)'
  <2>1. Leads(p, n, id)'
    BY RouteStays
  <2>2. p = b.contract[Payee(id)].peer
    OBVIOUS
  <2> QED
    BY <1>1, <2>1, <2>2 DEF GetsPaid
<1>3. IsManager(n, id, currentTX[n][id])'
  BY <1>1, <1>2 DEF IsManager
<1>4. ~Waits(n, id)' /\ ~PassedVote(n, id)'
  BY <1>1 DEF Waits, PassedVote
<1>5. AmountOf(n, id)' = b.contract[Payee(id)].amount
  BY <1>1 DEF AmountOf
<1> QED
  BY <1>3, <1>4, <1>5

LEMMA PayeeQueryKeeps ==
    ASSUME Owed, NEW n \in Nodes, NEW p \in Nodes, PayeeQuery(n, p)
    PROVE  Owed'
<1>0. PICK item, id : item = Head(net[p][n]) /\ id = item.tx
  OBVIOUS
<1> DEFINE a == id[1]
           made == NewReceiver(books[n], Payee(id), p, item.amount)
           amount == Min({made.contract[Payee(id)].amount, Leftover(a)})
           cut == SetBtcAmount(made, Payee(id), amount)
           whole == SetBtcTxId(cut, Payee(id), id)
           yes == Item("VOTE_YES", id, amount, id)
           no == Item("VOTE_NO", id, 0, VoteNoTx)
           request == Order("ABORT_REQUEST", id)
           agreed == Cohorte("payee", "QUERY", TRUE)
           failed == Cohorte("payee", "ABORT_REQUEST", TRUE)
<1> HIDE DEF a, made, amount, cut, whole, no, yes, request, agreed, failed
<1>1. /\ net[p][n] # <<>> /\ id \in TxIds /\ Token(item, id) /\ item.phase = "QUERY"
      /\ currentTX[n][id] = NoTM /\ item \in Range(net[p][n])
  <2>1. Receives(n, p, {"QUERY"}) /\ Tm(n, p) = NoTM
    BY DEF PayeeQuery
  <2> QED
    BY <1>0, <2>1, HeadFacts
<1>2. /\ Owner[a] = n /\ UNCHANGED <<bid, tunnels, chain>>
      /\ \/ net' = Sent(Taken(n, p), n, p, no) /\ UNCHANGED <<books, currentTX>>
         \/ /\ net' = Sent(Taken(n, p), n, p, no) /\ UNCHANGED currentTX
            /\ books' = [books EXCEPT ![n] = made]
         \/ /\ books' = [books EXCEPT ![n] = whole]
            /\ SetTM(n, id, agreed) /\ net' = Sent(Taken(n, p), n, p, yes)
         \/ /\ books' = [books EXCEPT ![n] = cut]
            /\ SetTM(n, id, failed) /\ net' = Sent(Taken(n, p), n, p, request)
  BY <1>0 DEF PayeeQuery, Sells, a, made, amount, cut, whole, no, yes, request, agreed, failed
<1>3. Untouched(id) /\ IsOnRoute(p, n, item) /\ item.tx = id
  BY <1>1, ItemTells
<1>4. Leads(p, n, id) /\ NextHop[p][id[1]] = n /\ NextHop[n][id[1]] \notin Nodes
  <2>1. id[1] \in Asks
    BY <1>1 DEF TxIds
  <2> QED
    BY <1>1, <1>2, <1>3, <2>1, OrdersAssumption DEF IsOnRoute, Leads, a
<1>5. Payee(id) \in Refs /\ Payee(id).tx = id
  BY <1>1 DEF Payee, Ref, Refs, Parties
<1>6. IsBook(books[n]) /\ DOMAIN books = Nodes /\ ManagersKnown
  BY DEF Owed, Shape
<1>7. Made(books[n], made, Payee(id), p)
  BY <1>5, <1>6, NewReceiverFacts DEF made
<1>8. TunnelsLead'
  BY <1>2, SameTunnels
<1>9. /\ yes.phase = "VOTE_YES" /\ yes.tx = id /\ yes.amount = amount /\ yes.btcTx = id
      /\ request.phase = "ABORT_REQUEST" /\ request.tx = id
  BY DEF Order, Item, yes, request
<1>10. /\ agreed \in Managers /\ failed \in Managers
       /\ agreed.role = "payee" /\ agreed.phase = "QUERY" /\ agreed.contract
       /\ failed.role = "payee" /\ failed.phase = "ABORT_REQUEST" /\ failed.contract
  BY DEF Cohorte, Managers, agreed, failed
<1>11. Edited(made, cut, Payee(id), amount, NoBtcTx)
  BY <1>7, SetAmountFacts DEF Made, cut
<1>12. Edited(cut, whole, Payee(id), amount, id)
  BY <1>5, <1>7, <1>11, SetBtcTxFacts DEF Made, Edited, whole
<1>13. /\ Spares(books[n], made, id) /\ Spares(books[n], cut, id) /\ Spares(books[n], whole, id)
       /\ made.stored = books[n].stored /\ cut.stored = books[n].stored
       /\ whole.stored = books[n].stored
  <2>1. Spares(books[n], made, id)
    BY <1>5, <1>7, SparesFacts
  <2>2. Spares(made, cut, id) /\ Spares(cut, whole, id)
    BY <1>5, <1>11, <1>12, SparesFacts
  <2>3. Spares(books[n], cut, id)
    BY <2>1, <2>2, SparesFacts
  <2>4. Spares(books[n], whole, id)
    BY <2>2, <2>3, SparesFacts
  <2> QED
    BY <1>7, <1>11, <1>12, <2>1, <2>3, <2>4 DEF Made, Edited
<1>14. /\ Payee(id) \in DOMAIN cut.contract /\ cut.contract[Payee(id)].peer = p
       /\ Payee(id) \in DOMAIN whole.contract /\ whole.contract[Payee(id)].peer = p
       /\ whole.contract[Payee(id)].amount = amount /\ whole.contract[Payee(id)].btcTx = id
  BY <1>7, <1>11, <1>12 DEF Made, Edited
<1>15. CASE net' = Sent(Taken(n, p), n, p, no) /\ UNCHANGED <<books, currentTX>>
  <2>1. NewBook(n, books[n]) /\ Spares(books[n], books[n], id)
    BY <1>6, <1>15, SameBooksFacts, SparesFacts
  <2> QED
    BY <1>0, <1>1, <1>2, <1>8, <1>15, <2>1, VoteNoSent DEF no
<1>16. CASE /\ net' = Sent(Taken(n, p), n, p, no) /\ UNCHANGED currentTX
            /\ books' = [books EXCEPT ![n] = made]
  <2>1. NewBook(n, made)
    BY <1>6, <1>16, NewBookFacts
  <2> QED
    BY <1>0, <1>1, <1>2, <1>8, <1>13, <1>16, <2>1, VoteNoSent DEF no
<1>17. CASE /\ books' = [books EXCEPT ![n] = whole]
            /\ SetTM(n, id, agreed) /\ net' = Sent(Taken(n, p), n, p, yes)
  <2>1. NewBook(n, whole) /\ NewManager(n, id, agreed)
    BY <1>1, <1>6, <1>10, <1>17, NewBookFacts, SetTMFacts
  <2>2. Owner[id[1]] = n
    BY <1>2 DEF a
  <2>3. /\ IsManager(n, id, currentTX[n][id])' /\ ~Waits(n, id)' /\ ~PassedVote(n, id)'
        /\ AmountOf(n, id)' = amount
    BY <1>1, <1>4, <1>10, <1>14, <2>1, <2>2, PayeeFits
  <2>4. books'[n] = whole /\ currentTX'[n][id] = agreed
    BY <2>1 DEF NewBook, NewManager
  <2>5. HasVoted(n, id, books[n].contract)'
    BY <1>10, <1>14, <2>3, <2>4 DEF HasVoted
  <2>6. IsOnRoute(n, p, yes) /\ yes.phase \in Phases \ {"COMMIT"}
    BY <1>4, <1>9 DEF IsOnRoute, Phases
  <2> QED
    <3>1. n \in Nodes /\ NextHop[n][id[1]] \notin Nodes /\ p \in Nodes
      BY <1>4
    <3>2. Voted(n, id)' => /\ NextHop[n][id[1]] \notin Nodes
                           /\ yes.phase = "VOTE_YES" /\ yes.amount = AmountOf(n, id)'
      BY <1>9, <2>3, <3>1
    <3> QED
      BY <1>0, <1>1, <1>2, <1>8, <1>9, <1>13, <1>17, <2>1, <2>3, <2>5, <2>6, <3>2, QueryHandled
<1>18. CASE /\ books' = [books EXCEPT ![n] = cut]
            /\ SetTM(n, id, failed) /\ net' = Sent(Taken(n, p), n, p, request)
  <2>1. NewBook(n, cut) /\ NewManager(n, id, failed)
    BY <1>1, <1>6, <1>10, <1>18, NewBookFacts, SetTMFacts
  <2>2. Owner[id[1]] = n
    BY <1>2 DEF a
  <2>3. IsManager(n, id, currentTX[n][id])' /\ ~Waits(n, id)' /\ ~PassedVote(n, id)'
    BY <1>1, <1>4, <1>10, <1>14, <2>1, <2>2, PayeeFits
  <2>4. currentTX'[n][id] = failed
    BY <2>1 DEF NewManager
  <2>5. ~Voted(n, id)' /\ HasVoted(n, id, books[n].contract)'
    BY <1>10, <2>3, <2>4 DEF HasVoted, Voted
  <2>6. IsOnRoute(n, p, request) /\ request.phase \in Phases \ {"COMMIT"}
    BY <1>9 DEF IsOnRoute, Phases
  <2> QED
    BY <1>0, <1>1, <1>2, <1>8, <1>9, <1>13, <1>18, <2>1, <2>3, <2>5, <2>6, QueryHandled
<1> QED
  BY <1>2, <1>15, <1>16, <1>17, <1>18

\* A hop fits its transaction if its contracts are with its neighbours.
LEMMA HopFits ==
    ASSUME NEW n \in Nodes, NEW p \in Nodes, NEW id \in TxIds, n \in Route(id), Leads(p, n, id),
           NEW tm, NewManager(n, id, tm), tm.role = "hop",
           NEW b, NewBook(n, b),
           Payer(id) \in DOMAIN b.contract, b.contract[Payer(id)].peer = NextHop[n][id[1]],
           Payee(id) \in DOMAIN b.contract, b.contract[Payee(id)].peer = p
    PROVE  /\ IsManager(n, id, currentTX[n][id])'
           /\ AmountOf(n, id)' = b.contract[Payee(id)].amount
<1>1. books'[n] = b /\ currentTX'[n][id] = tm
  BY DEF NewBook, NewManager
<1>2. GetsPaid(n, id)'
  <2>1. Leads(p, n, id)'
    BY RouteStays
  <2>2. p = b.contract[Payee(id)].peer
    OBVIOUS
  <2> QED
    BY <1>1, <2>1, <2>2 DEF GetsPaid
<1>3. PaysNext(n, id)'
  BY <1>1 DEF PaysNext
<1>4. (n \in Route(id))'
  BY RouteStays
<1>5. IsManager(n, id, currentTX[n][id])'
  BY <1>1, <1>2, <1>3, <1>4 DEF IsManager
<1>6. AmountOf(n, id)' = b.contract[Payee(id)].amount
  BY <1>1 DEF AmountOf
<1> QED
  BY <1>5, <1>6

LEMMA TheRefs ==
    ASSUME NEW id \in TxIds
    PROVE  /\ Payer(id) \in Refs /\ Payer(id).tx = id /\ Payer(id).party = "sender"
           /\ Payee(id) \in Refs /\ Payee(id).tx = id /\ Payee(id).party = "receiver"
           /\ Payer(id) # Payee(id)
BY DEF Payer, Payee, Ref, Refs, Parties

LEMMA NewTunnel ==
    ASSUME Owed, NEW n \in Nodes, NEW p \in Nodes, NEW a \in Asks, NextHop[p][a] = n,
           tunnels' = [tunnels EXCEPT ![n][a] = <<p, NextHop[n][a]>>]
    PROVE  TunnelsLead'
<1>1. /\ DOMAIN tunnels = Nodes
      /\ \A m \in Nodes : DOMAIN tunnels[m] = Asks
      /\ \A m \in Nodes, c \in Asks : IsTunnel(m, c, tunnels[m][c])
  BY DEF Owed, Shape, TunnelsLead
<1>2. IsTunnel(n, a, <<p, NextHop[n][a]>>)
  BY DEF IsTunnel
<1> DEFINE t == <<p, NextHop[n][a]>>
<1> HIDE DEF t
<1>3. tunnels' = [tunnels EXCEPT ![n][a] = t]
  BY DEF t
<1>4. DOMAIN tunnels' = Nodes /\ \A m \in Nodes : DOMAIN tunnels'[m] = Asks
  BY <1>1, <1>3
<1>5. ASSUME NEW m \in Nodes, NEW c \in Asks
      PROVE  IsTunnel(m, c, tunnels'[m][c])
  <2>1. tunnels'[m][c] = tunnels[m][c] \/ (m = n /\ c = a /\ tunnels'[m][c] = t)
    BY <1>1, <1>3
  <2> QED
    BY <1>1, <1>2, <2>1 DEF t
<1>6. \A m \in Nodes, c \in Asks : IsTunnel(m, c, tunnels[m][c])'
  BY <1>5 DEF IsTunnel
<1> QED
  BY <1>4, <1>6 DEF TunnelsLead

LEMMA HopQueryKeeps ==
    ASSUME Owed, NEW n \in Nodes, NEW p \in Nodes, HopQuery(n, p)
    PROVE  Owed'
<1>0. PICK item, id : item = Head(net[p][n]) /\ id = item.tx
  OBVIOUS
<1> DEFINE next == NextHop[n][id[1]]
           received == NewReceiver(books[n], Payee(id), p, item.amount)
           both == NewSender(received, Payer(id), next, item.amount)
           amount == received.contract[Payee(id)].amount
           no == Item("VOTE_NO", id, 0, VoteNoTx)
           query == Item("QUERY", id, amount, NoBtcTx)
           waiting == Cohorte("hop", "QUERY", TRUE)
<1> HIDE DEF next, received, both, amount, no, query, waiting
<1>1. /\ net[p][n] # <<>> /\ id \in TxIds /\ Token(item, id) /\ item.phase = "QUERY"
      /\ currentTX[n][id] = NoTM /\ item \in Range(net[p][n])
  <2>1. Receives(n, p, {"QUERY"}) /\ Tm(n, p) = NoTM
    BY DEF HopQuery
  <2> QED
    BY <1>0, <2>1, HeadFacts
<1>2. UNCHANGED <<bid, chain>> /\ tunnels' = [tunnels EXCEPT ![n][id[1]] = <<p, NextHop[n][id[1]]>>]
  BY <1>0 DEF HopQuery, orders
<1>3. \/ net' = Sent(Taken(n, p), n, p, no) /\ UNCHANGED <<books, currentTX>>
      \/ /\ books' = [books EXCEPT ![n] = both]
         /\ SetTM(n, id, waiting) /\ net' = Sent(Taken(n, p), n, next, query)
  BY <1>0 DEF HopQuery, next, received, both, amount, no, query, waiting
<1>4. Untouched(id) /\ IsOnRoute(p, n, item) /\ item.tx = id
  BY <1>1, ItemTells
<1>5. Leads(p, n, id) /\ NextHop[p][id[1]] = n
  BY <1>1, <1>4 DEF IsOnRoute, Leads
<1>6. n \in Route(id)
  BY <1>1, <1>5, RouteGoesOn
<1>7. TunnelsLead'
  <2>1. id[1] \in Asks
    BY <1>1 DEF TxIds
  <2> QED
    BY <1>2, <1>5, <2>1, NewTunnel
<1>8. IsBook(books[n]) /\ DOMAIN books = Nodes /\ ManagersKnown
  BY DEF Owed, Shape
<1>9. CASE net' = Sent(Taken(n, p), n, p, no) /\ UNCHANGED <<books, currentTX>>
  <2>1. NewBook(n, books[n]) /\ Spares(books[n], books[n], id)
    BY <1>8, <1>9, SameBooksFacts, SparesFacts
  <2> QED
    BY <1>0, <1>1, <1>2, <1>7, <1>9, <2>1, VoteNoSent DEF no
<1>10. CASE /\ books' = [books EXCEPT ![n] = both]
            /\ SetTM(n, id, waiting) /\ net' = Sent(Taken(n, p), n, next, query)
  <2>1. Made(books[n], received, Payee(id), p)
    BY <1>1, <1>8, TheRefs, NewReceiverFacts DEF received
  <2>2. Made(received, both, Payer(id), next)
    BY <1>1, <2>1, TheRefs, NewSenderFacts DEF both, Made
  <2>3. Spares(books[n], both, id)
    <3>1. Spares(books[n], received, id) /\ Spares(received, both, id)
      BY <1>1, <2>1, <2>2, TheRefs, SparesFacts
    <3> QED
      BY <3>1, SparesFacts
  <2>4. both.stored = books[n].stored
    BY <2>1, <2>2 DEF Made
  <2>5. /\ Payer(id) \in DOMAIN both.contract /\ both.contract[Payer(id)].peer = NextHop[n][id[1]]
        /\ Payee(id) \in DOMAIN both.contract /\ both.contract[Payee(id)].peer = p
    BY <1>1, <2>1, <2>2, TheRefs DEF Made, next
  <2>6. /\ waiting \in Managers /\ waiting.role = "hop" /\ waiting.phase = "QUERY"
        /\ waiting.contract
    BY DEF Cohorte, Managers, waiting
  <2>7. NewBook(n, both) /\ NewManager(n, id, waiting)
    BY <1>1, <1>8, <1>10, <2>6, NewBookFacts, SetTMFacts
  <2>8. IsManager(n, id, currentTX[n][id])'
    BY <1>1, <1>5, <1>6, <2>5, <2>6, <2>7, HopFits
  <2>9. currentTX'[n][id] = waiting
    BY <2>7 DEF NewManager
  <2>10. ~Voted(n, id)' /\ HasVoted(n, id, books[n].contract)'
    BY <2>6, <2>9 DEF HasVoted, Voted, PassedVote, Waits
  <2>11. query.phase = "QUERY" /\ query.tx = id
    BY DEF Item, query
  <2>12. next \in Nodes => IsOnRoute(n, next, query)
    BY <1>6, <2>11 DEF IsOnRoute, Leads, next
  <2>13. query.phase \in Phases \ {"COMMIT"}
    BY <2>11 DEF Phases
  <2> QED
    BY <1>0, <1>1, <1>2, <1>7, <1>10, <2>3, <2>4, <2>7, <2>8, <2>10, <2>11, <2>12, <2>13, QueryHandled
<1> QED
  BY <1>3, <1>9, <1>10

\* A hop passes a vote on: what it is asked to pay is what it asks for.
Passes(n, id, p, u, new) ==
    /\ Elsewhere(n) /\ OnlyItem(id, n, u, new)
    /\ new.phase \in {"VOTE_YES", "VOTE_NO"} /\ new.tx = id
    /\ u \in Nodes => IsOnRoute(n, u, new)
    /\ NextHop[n][id[1]] = p /\ p # n
    /\ id[1] \in bid[id[2]].matched /\ id[1] \in bid'[id[2]].matched
    /\ books'[n].stored = books[n].stored
    /\ Waits(n, id) /\ ~Waits(p, id)
    /\ Voted(p, id) /\ new.phase = "VOTE_YES" => AmountOf(p, id) = new.amount
    /\ IsManager(n, id, currentTX[n][id])' /\ HasVoted(n, id, books[n].contract)'
    /\ Voted(n, id)' => new.phase = "VOTE_YES" /\ AmountOf(n, id)' = new.amount
    /\ ~Waits(n, id)' /\ (MayUndo(n, id)' => MayUndo(n, id))
    /\ id \in chain' => id \in chain

LEMMA PassesKeeps ==
    ASSUME Owed, NEW n \in Nodes, NEW id \in TxIds, NEW p \in Nodes, NEW u, NEW new,
           Passes(n, id, p, u, new)
    PROVE  OwedFor(id)'
<1>1. ASSUME NEW m \in Nodes, m # n
      PROVE  /\ Voted(m, id)' = Voted(m, id) /\ Waits(m, id)' = Waits(m, id)
             /\ AmountOf(m, id)' = AmountOf(m, id)
             /\ MayUndo(m, id)' = MayUndo(m, id)
  BY <1>1, ElsewhereSame DEF Passes
<1>2. \A m \in Nodes : books'[m].stored = books[m].stored
  <2> SUFFICES ASSUME NEW m \in Nodes
               PROVE  books'[m].stored = books[m].stored
    OBVIOUS
  <2>1. CASE m = n
    BY <2>1 DEF Passes
  <2>2. CASE m # n
    BY <2>2, ElsewhereSame DEF Passes
  <2> QED
    BY <2>1, <2>2
<1>3. ASSUME NEW q \in Nodes, NEW m \in Nodes, NEW x, Covers(q, m, id, x)
      PROVE  Covers(q, m, id, x)'
  <2>1. Elsewhere(n) /\ (MayUndo(n, id)' => MayUndo(n, id))
    BY DEF Passes
  <2>2. \A row \in books[n].stored : row.tx = id => row \in books'[n].stored
    BY <1>2
  <2> QED
    BY <1>3, <2>1, <2>2, CoversKept
<1>4. ASSUME NEW f \in Nodes, NEW t \in Nodes, NEW item \in Range(net'[f][t]), Token(item, id)
      PROVE  f = n /\ t = u /\ item = new
  BY <1>4 DEF Passes, OnlyItem
<1>5. ItemsOnRoute(id)'
  <2> SUFFICES ASSUME NEW f \in Nodes, NEW t \in Nodes, NEW item \in Range(net'[f][t]),
                      Token(item, id)
               PROVE  IsOnRoute(f, t, item)'
    BY DEF ItemsOnRoute
  <2>1. f = n /\ t = u /\ item = new
    BY <1>4
  <2>2. IsOnRoute(f, t, item)
    BY <2>1 DEF Passes
  <2> QED
    BY <2>2, RouteStays DEF IsOnRoute
<1>6. ManagersOnRoute(id)'
  <2> SUFFICES ASSUME NEW m \in Nodes
               PROVE  IsManager(m, id, currentTX[m][id])' /\ HasVoted(m, id, books[m].contract)'
    BY DEF ManagersOnRoute
  <2>1. CASE m = n
    BY <2>1 DEF Passes
  <2>2. CASE m # n
    BY <2>2, ManagersElsewhere DEF Passes
  <2> QED
    BY <2>1, <2>2
<1>7. OneToken(net, id)' /\ NothingBeforeMatch(id)'
  BY DEF Passes, OnlyItem, NothingBeforeMatch
<1>8. NothingBeforeVote(id)'
  <2> SUFFICES ASSUME NEW f \in Nodes, NEW t \in Nodes, NEW item \in Range(net'[f][t]),
                      Token(item, id)
               PROVE  item.phase # "QUERY" /\ ~Waits(f, id)'
    BY DEF NothingBeforeVote
  <2>1. f = n /\ item = new
    BY <1>4
  <2> QED
    BY <2>1 DEF Passes
<1>9. \A q \in Nodes : NextHop[q][id[1]] = n => q # n /\ ~Voted(q, id) /\ ~HasRow(q, id)
  <2>1. Waits(n, id) /\ NextHop[n][id[1]] # n
    BY DEF Passes
  <2> QED
    BY <2>1 DEF Owed, OwedFor, NobodyWaitsBehind
<1>10. NobodyWaitsBehind(id)'
  <2> SUFFICES ASSUME NEW m \in Nodes, NEW q \in Nodes, NextHop[q][id[1]] = m,
                      Voted(q, id)' \/ HasRow(q, id)', Waits(m, id)'
               PROVE  FALSE
    BY DEF NobodyWaitsBehind
  <2>1. m # n
    BY DEF Passes
  <2>2. Waits(m, id)
    BY <1>1, <2>1
  <2>3. q # n
    BY <2>2 DEF Passes
  <2>4. Voted(q, id) \/ HasRow(q, id)
    BY <1>1, <1>2, <2>3 DEF HasRow
  <2> QED
    BY <2>2, <2>4 DEF Owed, OwedFor, NobodyWaitsBehind
<1>11. VotesAgree(id)'
  <2> SUFFICES ASSUME NEW m \in Nodes, Voted(m, id)'
               PROVE  /\ \A t \in Nodes : \A item \in Range(net'[m][t]) :
                            Token(item, id) /\ item.phase = "VOTE_YES" =>
                                item.amount = AmountOf(m, id)'
                      /\ \A q \in Nodes : NextHop[q][id[1]] = m =>
                            /\ Voted(q, id)' => AmountOf(q, id)' = AmountOf(m, id)'
                            /\ \A row \in books'[q].stored :
                                  row.tx = id => row.amount = AmountOf(m, id)'
    BY DEF VotesAgree
  <2>1. CASE m = n
    <3>1. AmountOf(n, id)' = new.amount
      BY <2>1 DEF Passes
    <3>2. \A t \in Nodes : \A item \in Range(net'[m][t]) :
                Token(item, id) /\ item.phase = "VOTE_YES" => item.amount = AmountOf(m, id)'
      BY <1>4, <2>1, <3>1
    <3>3. ASSUME NEW q \in Nodes, NextHop[q][id[1]] = m
          PROVE  ~Voted(q, id)' /\ \A row \in books'[q].stored : row.tx # id
      <4>1. q # n /\ ~Voted(q, id) /\ ~HasRow(q, id)
        BY <1>9, <2>1, <3>3
      <4> QED
        BY <1>1, <1>2, <4>1 DEF HasRow
    <3> QED
      BY <3>2, <3>3
  <2>2. CASE m # n
    <3>1. Voted(m, id) /\ AmountOf(m, id)' = AmountOf(m, id)
      BY <1>1, <2>2
    <3>2. \A t \in Nodes : \A item \in Range(net'[m][t]) : ~Token(item, id)
      BY <1>4, <2>2
    <3>3. \A q \in Nodes : NextHop[q][id[1]] = m =>
                /\ Voted(q, id) => AmountOf(q, id) = AmountOf(m, id)
                /\ \A row \in books[q].stored : row.tx = id => row.amount = AmountOf(m, id)
      BY <3>1 DEF Owed, OwedFor, VotesAgree
    <3>4. ASSUME NEW q \in Nodes, NextHop[q][id[1]] = m
          PROVE  Voted(q, id)' => AmountOf(q, id)' = AmountOf(m, id)
      <4>1. CASE q = n
        <5>1. m = p
          BY <3>4, <4>1 DEF Passes
        <5> QED
          BY <3>1, <4>1, <5>1 DEF Passes
      <4>2. CASE q # n
        BY <1>1, <3>3, <3>4, <4>2
      <4> QED
        BY <4>1, <4>2
    <3> QED
      BY <1>2, <3>1, <3>2, <3>3, <3>4
  <2> QED
    BY <2>1, <2>2
<1>12. CommitsAreCovered(id)'
  <2> SUFFICES ASSUME NEW q \in Nodes, NEW m \in Nodes, NEW item \in Range(net'[q][m]),
                      Token(item, id), item.phase = "COMMIT"
               PROVE  FALSE
    BY DEF CommitsAreCovered
  <2>1. item = new
    BY <1>4
  <2> QED
    BY <2>1 DEF Passes
<1>13. ReceiptsAreCovered(id)'
  <2> SUFFICES ASSUME NEW m \in Nodes, NEW row \in Receipts(m)', row.tx = id
               PROVE  ~MayUndo(m, id)' /\ row.peer \in Nodes /\ Covers(row.peer, m, id, row.amount)'
    BY DEF ReceiptsAreCovered
  <2>1. row \in Receipts(m)
    BY <1>2 DEF Receipts
  <2>2. ~MayUndo(m, id) /\ row.peer \in Nodes /\ Covers(row.peer, m, id, row.amount)
    BY <2>1 DEF Owed, OwedFor, ReceiptsAreCovered
  <2>3. ~MayUndo(m, id)'
    BY <1>1, <2>2 DEF Passes
  <2> QED
    BY <1>3, <2>2, <2>3
<1>14. ChainIsCovered(id)'
  <2> SUFFICES ASSUME id \in chain'
               PROVE  \E row \in Receipts(Owner[id[1]])' : row.tx = id
    BY DEF ChainIsCovered
  <2>1. id \in chain
    BY DEF Passes
  <2>2. Owner[id[1]] \in Nodes
    BY OrdersAssumption DEF TxIds
  <2>3. PICK row \in Receipts(Owner[id[1]]) : row.tx = id
    BY <2>1 DEF Owed, OwedFor, ChainIsCovered
  <2>4. row \in Receipts(Owner[id[1]])'
    BY <1>2, <2>2, <2>3 DEF Receipts
  <2> QED
    BY <2>3, <2>4
<1> QED
  BY <1>5, <1>6, <1>7, <1>8, <1>10, <1>11, <1>12, <1>13, <1>14 DEF OwedFor

LEMMA Handles ==
    ASSUME Owed, NEW n \in Nodes, NEW id \in TxIds, NEW u, NEW new, Carries(net', id, n, u, new),
           NEW tm, NewManager(n, id, tm), NEW b, NewBook(n, b), Spares(books[n], b, id),
           TunnelsLead', chain' \subseteq chain \cup {id},
           UNCHANGED bid \/ (BidsKnown' /\ \A o \in Bids : bid'[o].matched = bid[o].matched)
    PROVE  Acts(n, id) /\ OnlyItem(id, n, u, new) /\ Elsewhere(n)
<1>1. Known(net') /\ \A j \in TxIds : j # id => ItemsFade(j)
  BY CarriesFades
<1>2. Acts(n, id)
  BY <1>1, MakeActs
<1>3. OnlyItem(id, n, u, new)
  BY DEF OnlyItem, Carries
<1>4. Elsewhere(n)
  BY DEF Elsewhere, NewManager, NewBook
<1> QED
  BY <1>2, <1>3, <1>4

\* The changes of a hop: one contract of its transaction, then the other.
LEMMA BothEdited ==
    ASSUME NEW id \in TxIds, NEW b, NEW c, NEW d, NEW r, NEW s, {r, s} = {Payer(id), Payee(id)},
           r \in DOMAIN b.contract, s \in DOMAIN b.contract,
           NEW x, NEW y, NEW z, NEW w, Edited(b, c, r, x, y), Edited(c, d, s, z, w)
    PROVE  /\ Spares(b, d, id) /\ d.stored = b.stored /\ IsBook(d)
           /\ DOMAIN d.contract = DOMAIN b.contract
           /\ d.contract[r].peer = b.contract[r].peer /\ d.contract[s].peer = b.contract[s].peer
           /\ d.contract[r].amount = x /\ d.contract[r].btcTx = y
           /\ d.contract[s].amount = z /\ d.contract[s].btcTx = w
<1>1. r # s /\ r.tx = id /\ s.tx = id
  BY TheRefs
<1>2. Spares(b, c, id) /\ Spares(c, d, id)
  BY <1>1, SparesFacts
<1>3. Spares(b, d, id)
  BY <1>2, SparesFacts
<1>4. d.contract[r] = c.contract[r] /\ c.contract[s] = b.contract[s]
  BY <1>1 DEF Edited
<1> QED
  BY <1>3, <1>4 DEF Edited

LEMMA HopVoteKeeps ==
    ASSUME Owed, NEW n \in Nodes, NEW p \in Nodes, HopVote(n, p)
    PROVE  Owed'
<1>0. PICK item, id : item = Head(net[p][n]) /\ id = item.tx
  OBVIOUS
<1> DEFINE b0 == books[n]
           b1 == SetBtcTxId(b0, Payer(id), item.btcTx)
           b2 == SetBtcAmount(b1, Payer(id), item.amount)
           b3 == SetBtcTxId(b2, Payee(id), item.btcTx)
           b4 == SetBtcAmount(b3, Payee(id), item.amount)
           passed == Cohorte("hop", item.phase, TRUE)
           u == ToBuyer(n, id[1])
<1> HIDE DEF b0, b1, b2, b3, b4, passed, u
<1>1. /\ net[p][n] # <<>> /\ id \in TxIds /\ Token(item, id) /\ item.phase \in {"VOTE_YES", "VOTE_NO"}
      /\ Tm(n, p) = currentTX[n][id] /\ item \in Range(net[p][n])
  <2>1. Receives(n, p, {"VOTE_YES", "VOTE_NO"})
    BY DEF HopVote
  <2> QED
    BY <1>0, <2>1, HeadFacts
<1>2. currentTX[n][id].role = "hop" /\ currentTX[n][id].phase = "QUERY"
  BY <1>1 DEF HopVote, Busy
<1>3. /\ books' = [books EXCEPT ![n] = b4] /\ SetTM(n, id, passed)
      /\ net' = Sent(Taken(n, p), n, u, item) /\ UNCHANGED <<bid, tunnels, chain>>
  BY <1>0 DEF HopVote, orders, b0, b1, b2, b3, b4, passed, u
<1>4. /\ NextHop[n][id[1]] = p /\ item.tx = id /\ item.btcTx \in {id, VoteNoTx}
      /\ item.phase = "VOTE_YES" => item.btcTx = id
      /\ id[1] \in bid[id[2]].matched /\ ~Waits(p, id)
  BY <1>1, ItemTells DEF IsOnRoute
<1>5. p # n /\ id[1] \in Asks
  <2>1. id[1] \in Asks
    BY <1>1 DEF TxIds
  <2> QED
    BY <1>4, <2>1, NotNext
<1>6. Waits(n, id) /\ currentTX[n][id].contract /\ MayUndo(n, id)
  BY <1>1, <1>2, ManagerHas DEF HasVoted, Waits, MayUndo
<1>7. n \in Route(id) /\ PaysNext(n, id) /\ GetsPaid(n, id)
  BY <1>1, <1>2, <1>6, ManagerHas DEF IsManager
<1>8. IsBook(b0) /\ DOMAIN books = Nodes /\ ManagersKnown
  BY DEF Owed, Shape, b0
<1>9. PICK q \in Nodes : Leads(q, n, id) /\ b0.contract[Payee(id)].peer = q
  BY <1>7 DEF GetsPaid, b0
<1>10. /\ Payer(id) \in DOMAIN b0.contract /\ Payee(id) \in DOMAIN b0.contract
       /\ b0.contract[Payer(id)].peer = NextHop[n][id[1]]
  BY <1>7 DEF GetsPaid, PaysNext, b0
<1>11. Edited(b0, b2, Payer(id), item.amount, item.btcTx)
  <2>1. Edited(b0, b1, Payer(id), b0.contract[Payer(id)].amount, item.btcTx)
    BY <1>1, <1>4, <1>8, <1>10, TheRefs, SetBtcTxFacts DEF b1
  <2>2. IsBook(b1) /\ Payer(id) \in DOMAIN b1.contract /\ b1.contract[Payer(id)].btcTx = item.btcTx
    BY <1>10, <2>1 DEF Edited
  <2>3. Edited(b1, b2, Payer(id), item.amount, item.btcTx)
    BY <2>2, SetAmountFacts DEF b2
  <2> QED
    BY <1>10, <2>1, <2>3, EditedTwice
<1>12. Edited(b2, b4, Payee(id), item.amount, item.btcTx)
  <2>1. IsBook(b2) /\ Payee(id) \in DOMAIN b2.contract
    BY <1>10, <1>11 DEF Edited
  <2>2. Edited(b2, b3, Payee(id), b2.contract[Payee(id)].amount, item.btcTx)
    BY <1>1, <1>4, <2>1, TheRefs, SetBtcTxFacts DEF b3
  <2>3. IsBook(b3) /\ Payee(id) \in DOMAIN b3.contract /\ b3.contract[Payee(id)].btcTx = item.btcTx
    BY <2>1, <2>2 DEF Edited
  <2>4. Edited(b3, b4, Payee(id), item.amount, item.btcTx)
    BY <2>3, SetAmountFacts DEF b4
  <2> QED
    BY <2>1, <2>2, <2>4, EditedTwice
<1>13. /\ Spares(b0, b4, id) /\ b4.stored = b0.stored
       /\ Payer(id) \in DOMAIN b4.contract /\ b4.contract[Payer(id)].peer = NextHop[n][id[1]]
       /\ Payee(id) \in DOMAIN b4.contract /\ b4.contract[Payee(id)].peer = q
       /\ b4.contract[Payer(id)].amount = item.amount /\ b4.contract[Payer(id)].btcTx = item.btcTx
       /\ b4.contract[Payee(id)].amount = item.amount /\ b4.contract[Payee(id)].btcTx = item.btcTx
  BY <1>1, <1>9, <1>10, <1>11, <1>12, BothEdited
<1>14. /\ passed \in Managers /\ passed.role = "hop" /\ passed.phase = item.phase /\ passed.contract
  BY <1>1 DEF Cohorte, Managers, passed
<1>15. NewBook(n, b4) /\ NewManager(n, id, passed)
  BY <1>1, <1>3, <1>8, <1>14, NewBookFacts, SetTMFacts
<1>16. IsManager(n, id, currentTX[n][id])' /\ AmountOf(n, id)' = item.amount
  BY <1>1, <1>7, <1>9, <1>13, <1>14, <1>15, HopFits
<1>17. currentTX'[n][id] = passed /\ books'[n] = b4
  BY <1>15 DEF NewManager, NewBook
<1>18. ~Waits(n, id)' /\ (Voted(n, id)' => item.phase = "VOTE_YES")
  BY <1>1, <1>14, <1>17 DEF Waits, Voted, PassedVote
<1>19. HasVoted(n, id, books[n].contract)'
  <2>1. Voted(n, id)' => item.btcTx = id
    BY <1>4, <1>18
  <2>2. PassedVote(n, id)' => Voted(n, id)'
    BY DEF Voted
  <2> QED
    BY <1>4, <1>13, <1>14, <1>17, <1>18, <2>1, <2>2 DEF HasVoted
<1>20. Carries(net', id, n, u, item)
  <2>1. item.phase \in Phases
    BY <1>1 DEF Phases
  <2> QED
    BY <1>0, <1>1, <1>3, <1>4, <2>1, TakeAndSendCarries
<1>21. Acts(n, id) /\ OnlyItem(id, n, u, item) /\ Elsewhere(n)
  <2>1. TunnelsLead' /\ UNCHANGED bid /\ chain' \subseteq chain \cup {id}
    BY <1>3, SameTunnels
  <2>2. Spares(books[n], b4, id)
    BY <1>13 DEF b0
  <2> QED
    BY <1>1, <1>15, <1>20, <2>1, <2>2, Handles
<1>22. u \in Nodes => IsOnRoute(n, u, item)
  <2> SUFFICES ASSUME u \in Nodes
               PROVE  IsOnRoute(n, u, item)
    OBVIOUS
  <2>1. IsTunnel(n, id[1], tunnels[n][id[1]])
    BY <1>5 DEF Owed, Shape, TunnelsLead
  <2>2. NextHop[u][id[1]] = n
    BY <2>1, OrdersAssumption DEF IsTunnel, u, ToBuyer
  <2>3. IsOnRoute(p, n, item)
    BY <1>1, ItemTells
  <2> QED
    BY <1>1, <1>4, <2>2, <2>3 DEF IsOnRoute
<1>23. Voted(p, id) /\ item.phase = "VOTE_YES" => AmountOf(p, id) = item.amount
  BY <1>1 DEF Owed, OwedFor, VotesAgree
<1>24. /\ id[1] \in bid'[id[2]].matched /\ books'[n].stored = books[n].stored
       /\ id \in chain' => id \in chain
  BY <1>3, <1>4, <1>13, <1>17 DEF b0
<1>25. Passes(n, id, p, u, item)
  BY <1>1, <1>4, <1>5, <1>6, <1>16, <1>18, <1>19, <1>21, <1>22, <1>23, <1>24 DEF Passes
<1>26. OwedFor(id)'
  BY <1>1, <1>25, PassesKeeps
<1> QED
  BY <1>1, <1>21, <1>26, ActsKeeps

\* A COMMIT comes from the friend who is to pay, and who has promised to.
LEMMA CommitTells ==
    ASSUME Owed, NEW n \in Nodes, NEW p \in Nodes, NEW item \in Range(net[p][n]),
           NEW id \in TxIds, Token(item, id), item.phase = "COMMIT", Voted(n, id)
    PROVE  /\ Leads(p, n, id) /\ id[1] \in bid[id[2]].matched
           /\ currentTX[n][id].contract /\ MayUndo(n, id)
           /\ Payee(id) \in DOMAIN books[n].contract
           /\ books[n].contract[Payee(id)].peer = p /\ books[n].contract[Payee(id)].btcTx = id
           /\ Covers(p, n, id, AmountOf(n, id))
<1>1. /\ IsOnRoute(p, n, item) /\ item.tx = id /\ id[1] \in bid[id[2]].matched
      /\ \E row \in books[p].stored : row.tx = id /\ Covers(p, n, id, row.amount)
  BY ItemTells
<1>2. Leads(p, n, id)
  BY <1>1 DEF IsOnRoute
<1>3. IsManager(n, id, currentTX[n][id]) /\ HasVoted(n, id, books[n].contract)
  BY ManagerHas
<1>4. /\ currentTX[n][id].contract /\ books[n].contract[Payee(id)].btcTx = id
      /\ currentTX[n][id].role \in {"payee", "hop"}
  BY <1>3 DEF HasVoted, Voted, PassedVote
<1>5. MayUndo(n, id) /\ GetsPaid(n, id)
  BY <1>3, <1>4 DEF MayUndo, IsManager
<1>6. Payee(id) \in DOMAIN books[n].contract /\ books[n].contract[Payee(id)].peer = p
  <2>1. Leads(books[n].contract[Payee(id)].peer, n, id)
    BY <1>5 DEF GetsPaid
  <2> QED
    BY <1>2, <1>5, <2>1, OneLeads DEF GetsPaid
<1>7. Covers(p, n, id, AmountOf(n, id))
  <2>1. PICK row \in books[p].stored : row.tx = id /\ Covers(p, n, id, row.amount)
    BY <1>1
  <2>2. NextHop[p][id[1]] = n
    BY <1>2 DEF Leads
  <2>3. row.amount = AmountOf(n, id)
    BY <2>1, <2>2 DEF Owed, OwedFor, VotesAgree
  <2> QED
    BY <2>1, <2>3
<1> QED
  BY <1>1, <1>2, <1>4, <1>5, <1>6, <1>7

\* The row that a contract becomes.
RowOf(ref, c) ==
    [tx |-> ref.tx, party |-> ref.party, peer |-> c.peer, amount |-> c.amount, btcTx |-> ref.tx]

LEMMA StoredOnce ==
    ASSUME NEW b, IsBook(b), NEW ref \in DOMAIN b.contract, b.contract[ref].btcTx = ref.tx,
           NEW c, c = Persist(b, ref)
    PROVE  /\ Spares(b, c, ref.tx) /\ IsBook(c) /\ c.contract = b.contract
           /\ c.stored = b.stored \cup {RowOf(ref, b.contract[ref])}
           /\ RowOf(ref, b.contract[ref]).tx = ref.tx
           /\ RowOf(ref, b.contract[ref]).party = ref.party
           /\ RowOf(ref, b.contract[ref]).peer = b.contract[ref].peer
           /\ RowOf(ref, b.contract[ref]).amount = b.contract[ref].amount
BY PersistSpares, PersistFacts DEF RowOf

LEMMA PayeeCommitKeeps ==
    ASSUME Owed, NEW n \in Nodes, NEW p \in Nodes, PayeeCommit(n, p)
    PROVE  Owed'
<1>0. PICK item, id : item = Head(net[p][n]) /\ id = item.tx
  OBVIOUS
<1> DEFINE b0 == books[n]
           b1 == Activate(b0, Payee(id))
           b2 == Persist(b1, Payee(id))
           amount == b0.contract[Payee(id)].amount
           row == RowOf(Payee(id), b1.contract[Payee(id)])
           failed == Cohorte("payee", "ABORT_REQUEST", TRUE)
           request == Order("ABORT_REQUEST", id)
<1> HIDE DEF b0, b1, b2, amount, row, failed, request
<1>1. /\ net[p][n] # <<>> /\ id \in TxIds /\ Token(item, id) /\ item.phase = "COMMIT"
      /\ Tm(n, p) = currentTX[n][id] /\ item \in Range(net[p][n]) /\ item.tx = id
  <2>1. Receives(n, p, {"COMMIT"})
    BY DEF PayeeCommit
  <2> QED
    BY <1>0, <2>1, HeadFacts
<1>2. currentTX[n][id].role = "payee" /\ currentTX[n][id].phase = "QUERY"
  BY <1>1 DEF PayeeCommit
<1>3. UNCHANGED <<bid, tunnels>>
  BY DEF PayeeCommit
<1>4. \/ /\ books' = [books EXCEPT ![n] = b2] /\ SetTM(n, id, NoTM)
         /\ net' = Taken(n, p) /\ chain' \subseteq chain \cup {id}
      \/ /\ books' = [books EXCEPT ![n] = b1] /\ SetTM(n, id, failed)
         /\ net' = Sent(Taken(n, p), n, p, request) /\ UNCHANGED chain
  <2>1. \/ /\ books' = [books EXCEPT ![n] = b2] /\ Forget(n, id)
            /\ net' = Taken(n, p) /\ (chain' = chain \cup {id} \/ UNCHANGED chain)
         \/ /\ books' = [books EXCEPT ![n] = b1] /\ SetTM(n, id, failed)
            /\ net' = Sent(Taken(n, p), n, p, request) /\ UNCHANGED chain
    BY <1>0 DEF PayeeCommit, b0, b1, b2, failed, request
  <2> QED
    BY <2>1 DEF Forget
<1>5. Voted(n, id)
  BY <1>2 DEF Voted
<1>6. /\ Leads(p, n, id) /\ id[1] \in bid[id[2]].matched
      /\ currentTX[n][id].contract /\ MayUndo(n, id)
      /\ Payee(id) \in DOMAIN b0.contract
      /\ b0.contract[Payee(id)].peer = p /\ b0.contract[Payee(id)].btcTx = id
      /\ Covers(p, n, id, amount)
  BY <1>1, <1>5, CommitTells DEF b0, amount, AmountOf
<1>7. Owner[id[1]] = n /\ NextHop[n][id[1]] \notin Nodes
  <2>1. Owner[id[1]] = n
    BY <1>1, <1>2, ManagerHas DEF IsManager
  <2>2. id[1] \in Asks
    BY <1>1 DEF TxIds
  <2> QED
    BY <2>1, <2>2, OrdersAssumption
<1>8. IsBook(b0) /\ DOMAIN books = Nodes /\ ManagersKnown
  BY DEF Owed, Shape, b0
<1>9. Edited(b0, b1, Payee(id), amount, id)
  BY <1>6, <1>8, ActivateFacts DEF b1, amount
<1>10. /\ Spares(b0, b1, id) /\ b1.stored = b0.stored /\ IsBook(b1)
       /\ Payee(id) \in DOMAIN b1.contract /\ b1.contract[Payee(id)].peer = p
       /\ b1.contract[Payee(id)].amount = amount /\ b1.contract[Payee(id)].btcTx = id
  <2>1. Spares(b0, b1, id)
    <3>1. Payee(id).tx = id
      BY <1>1, TheRefs
    <3> QED
      BY <1>9, <3>1, SparesFacts
  <2> QED
    BY <1>6, <1>9, <2>1 DEF Edited
<1>11. TunnelsLead'
  BY <1>3, SameTunnels
<1>12. CASE /\ books' = [books EXCEPT ![n] = b2] /\ SetTM(n, id, NoTM)
            /\ net' = Taken(n, p) /\ chain' \subseteq chain \cup {id}
  <2>1. /\ Spares(b1, b2, id) /\ b2.stored = b1.stored \cup {row}
        /\ row.tx = id /\ row.party = "receiver" /\ row.peer = p /\ row.amount = amount
    BY <1>1, <1>10, TheRefs, StoredOnce DEF b2, row
  <2>2. Spares(books[n], b2, id)
    BY <1>10, <2>1, SparesFacts DEF b0
  <2>3. NewBook(n, b2) /\ NewManager(n, id, NoTM)
    BY <1>1, <1>8, <1>12, ManagersFit, NewBookFacts, SetTMFacts
  <2>4. Carries(net', id, n, NoHop, item)
    <3>1. NoHop \notin Nodes /\ item.phase \in Phases
      BY <1>1, OrdersAssumption DEF Phases
    <3>2. net' = Sent(Taken(n, p), n, NoHop, item)
      BY <1>12, <3>1 DEF Sent
    <3> QED
      BY <1>0, <1>1, <3>1, <3>2, TakeAndSendCarries
  <2>5. Acts(n, id) /\ OnlyItem(id, n, NoHop, item) /\ Elsewhere(n)
    BY <1>1, <1>3, <1>11, <1>12, <2>2, <2>3, <2>4, Handles
  <2>6. currentTX'[n][id] = NoTM /\ books'[n] = b2
    BY <2>3 DEF NewManager, NewBook
  <2>7. IsManager(n, id, currentTX[n][id])' /\ ~Voted(n, id)' /\ ~Waits(n, id)' /\ ~MayUndo(n, id)'
    BY <2>6, NoManager
  <2>8. books'[n].stored = books[n].stored \cup {row}
    BY <1>10, <2>1, <2>6 DEF b0
  <2>9. ASSUME NEW x \in Receipts(n)', x.tx = id
        PROVE  \/ x \in Receipts(n)
               \/ /\ ~MayUndo(n, id)' /\ x.peer \in Nodes
                  /\ Covers(x.peer, n, id, x.amount)
    <3>1. x \in Receipts(n) \/ x = row
      BY <2>8 DEF Receipts
    <3>2. p \in Nodes
      OBVIOUS
    <3> QED
      BY <1>6, <2>1, <2>7, <3>1, <3>2
  <2>10. row \in Receipts(Owner[id[1]])'
    BY <1>7, <2>1, <2>8 DEF Receipts
  <2>11. NoHop \notin Nodes
    BY OrdersAssumption
  <2>12. Commits(n, id, NoHop, item, amount)
    BY <1>1, <1>3, <1>6, <1>7, <2>1, <2>5, <2>7, <2>8, <2>9, <2>10, <2>11 DEF Commits
  <2>13. OwedFor(id)'
    BY <1>1, <2>12, CommitsKeeps
  <2> QED
    BY <1>1, <2>5, <2>13, ActsKeeps
<1>13. CASE /\ books' = [books EXCEPT ![n] = b1] /\ SetTM(n, id, failed)
            /\ net' = Sent(Taken(n, p), n, p, request) /\ UNCHANGED chain
  <2>1. /\ failed \in Managers /\ failed.role = "payee" /\ failed.phase = "ABORT_REQUEST"
    BY DEF Cohorte, Managers, failed
  <2>2. NewBook(n, b1) /\ NewManager(n, id, failed)
    BY <1>1, <1>8, <1>13, <2>1, NewBookFacts, SetTMFacts
  <2>3. ManagerFades(n, id, currentTX[n][id], failed)
    BY <1>2, <1>6, <1>7, <2>1 DEF ManagerFades
  <2>4. DealsStay(id, b0.contract, b1.contract)
    <3> SUFFICES ASSUME NEW party \in Parties, Ref(id, party) \in DOMAIN b0.contract
                 PROVE  /\ Ref(id, party) \in DOMAIN b1.contract
                        /\ SameTerms(b0.contract[Ref(id, party)], b1.contract[Ref(id, party)])
      BY DEF DealsStay
    <3>1. CASE Ref(id, party) = Payee(id)
      BY <1>6, <1>10, <3>1 DEF SameTerms, amount
    <3>2. CASE Ref(id, party) # Payee(id)
      BY <1>9, <3>2 DEF SameTerms, Edited
    <3> QED
      BY <3>1, <3>2
  <2>5. Dwindle(net')
    <3>1. request.tx \in TxIds /\ request.phase \in {"ABORT", "ABORT_REQUEST"}
      BY <1>1 DEF request, Order, Item
    <3> QED
      BY <1>1, <1>13, <3>1, TakeDwindles, SendDwindles
  <2> QED
    BY <1>1, <1>3, <1>10, <1>13, <2>2, <2>3, <2>4, <2>5, GivesUp DEF b0
<1> QED
  BY <1>4, <1>12, <1>13

\* Where a COMMIT is passed on to.
LEMMA ToSellerLeads ==
    ASSUME Owed, NEW n \in Nodes, NEW id \in TxIds, n \in Route(id), ToSeller(n, id[1]) \in Nodes
    PROVE  ToSeller(n, id[1]) = NextHop[n][id[1]] /\ Leads(n, ToSeller(n, id[1]), id)
<1>1. id[1] \in Asks
  BY DEF TxIds
<1>2. IsTunnel(n, id[1], tunnels[n][id[1]])
  BY <1>1 DEF Owed, Shape, TunnelsLead
<1>3. ToSeller(n, id[1]) = NextHop[n][id[1]]
  BY <1>2, OrdersAssumption DEF IsTunnel, ToSeller
<1> QED
  BY <1>3 DEF Leads

\* A node that stored what it will pay, and nothing that it will get, gives up.
LEMMA HopCommitFails ==
    ASSUME Owed, NEW n \in Nodes, NEW p \in Nodes, net[p][n] # <<>>,
           NEW id \in TxIds, Token(Head(net[p][n]), id),
           Voted(n, id), MayUndo(n, id), id[1] \in bid[id[2]].matched,
           NEW tm, NewManager(n, id, tm), tm.role = "hop", tm.phase = "ABORT_REQUEST",
           NEW b, NewBook(n, b), Spares(books[n], b, id), IsManager(n, id, currentTX[n][id])',
           NEW row, row.tx = id, row.party = "sender", row.amount = AmountOf(n, id),
           b.stored = books[n].stored \cup {row},
           net' = Sent(Taken(n, p), n, p, Order("ABORT_REQUEST", id)),
           UNCHANGED <<bid, tunnels, chain>>
    PROVE  Owed'
<1> DEFINE request == Order("ABORT_REQUEST", id)
           amount == AmountOf(n, id)
<1>1. request.tx = id /\ request.phase = "ABORT_REQUEST" /\ request.phase \in Phases
  BY DEF Order, Item, Phases
<1>2. ~Token(request, id)
  BY <1>1 DEF Token
<1>3. net' = Sent(Taken(n, p), n, p, request)
  OBVIOUS
<1>4. \A m \in Nodes : NextHop[n][id[1]] = m =>
          ~Waits(m, id) /\ (Voted(m, id) => AmountOf(m, id) = amount)
  BY DEF Owed, OwedFor, NobodyWaitsBehind, VotesAgree
<1> HIDE DEF request, amount
<1>5. Carries(net', id, n, p, request)
  BY <1>1, <1>3, TakeAndSendCarries
<1>6. Acts(n, id) /\ OnlyItem(id, n, p, request) /\ Elsewhere(n)
  BY <1>5, SameTunnels, Handles
<1>7. currentTX'[n][id] = tm /\ books'[n] = b
  BY DEF NewManager, NewBook
<1>8. ~Voted(n, id)' /\ ~Waits(n, id)'
  BY <1>7 DEF Voted, PassedVote, Waits
<1>9. \A x \in Receipts(n)' : x \in Receipts(n)
  BY <1>7 DEF Receipts
<1>10. \A x \in books'[n].stored : x \in books[n].stored \/ x.amount = amount
  BY <1>7 DEF amount
<1>11. Commits(n, id, p, request, amount)
  BY <1>2, <1>4, <1>6, <1>7, <1>8, <1>9, <1>10 DEF Commits
<1>12. OwedFor(id)'
  BY <1>11, CommitsKeeps
<1> QED
  BY <1>6, <1>12, ActsKeeps

LEMMA HopCommitDone ==
    ASSUME Owed, NEW n \in Nodes, NEW p \in Nodes, net[p][n] # <<>>,
           NEW item, item = Head(net[p][n]), NEW id \in TxIds, Token(item, id),
           item.tx = id, item.phase = "COMMIT", n \in Route(id),
           Voted(n, id), MayUndo(n, id), id[1] \in bid[id[2]].matched,
           Covers(p, n, id, AmountOf(n, id)),
           NewManager(n, id, NoTM), NEW b, NewBook(n, b), Spares(books[n], b, id),
           b.stored = books[n].stored \cup
                {[tx |-> id, party |-> "sender", peer |-> NextHop[n][id[1]],
                  amount |-> AmountOf(n, id), btcTx |-> id],
                 [tx |-> id, party |-> "receiver", peer |-> p,
                  amount |-> AmountOf(n, id), btcTx |-> id]},
           net' = Sent(Taken(n, p), n, ToSeller(n, id[1]), item),
           UNCHANGED <<bid, tunnels, chain>>
    PROVE  Owed'
<1>0. PICK u, amount : u = ToSeller(n, id[1]) /\ amount = AmountOf(n, id)
  OBVIOUS
<1> DEFINE pays == [tx |-> id, party |-> "sender", peer |-> NextHop[n][id[1]],
                    amount |-> amount, btcTx |-> id]
           gets == [tx |-> id, party |-> "receiver", peer |-> p, amount |-> amount, btcTx |-> id]
<1>1. b.stored = books[n].stored \cup {pays, gets}
  BY <1>0
<1>2. /\ pays.tx = id /\ pays.party = "sender" /\ pays.amount = amount
      /\ gets.tx = id /\ gets.party = "receiver" /\ gets.amount = amount /\ gets.peer = p
  OBVIOUS
<1>3. u \in Nodes => pays = [tx |-> id, party |-> "sender", peer |-> u, amount |-> amount, btcTx |-> id]
  BY <1>0, ToSellerLeads
<1>4. u \in Nodes => Leads(n, u, id)
  BY <1>0, ToSellerLeads
<1>5. \A m \in Nodes : NextHop[n][id[1]] = m =>
          ~Waits(m, id) /\ (Voted(m, id) => AmountOf(m, id) = amount)
  BY <1>0 DEF Owed, OwedFor, NobodyWaitsBehind, VotesAgree
<1>6. Carries(net', id, n, u, item)
  BY <1>0, TakeAndSendCarries DEF Phases
<1>7. Acts(n, id) /\ OnlyItem(id, n, u, item) /\ Elsewhere(n)
  BY <1>6, SameTunnels, Handles
<1>8. currentTX'[n][id] = NoTM /\ books'[n] = b
  BY DEF NewManager, NewBook
<1>9. IsManager(n, id, currentTX[n][id])' /\ ~Voted(n, id)' /\ ~Waits(n, id)' /\ ~MayUndo(n, id)'
  BY <1>8, NoManager
<1>10. gets = [tx |-> id, party |-> "receiver", peer |-> p, amount |-> amount, btcTx |-> id]
  OBVIOUS
<1> HIDE DEF pays, gets
<1>11. ASSUME u \in Nodes
       PROVE  pays \in books'[n].stored /\ pays.tx = id /\ Covers(n, u, id, pays.amount)'
  <2>1. Promise(n, id, "sender", u, amount)'
    BY <1>1, <1>3, <1>8, <1>11 DEF Promise
  <2>2. Promise(n, id, "receiver", p, amount)'
    BY <1>1, <1>8, <1>10 DEF Promise
  <2>3. Covers(n, u, id, amount)'
    BY <1>9, <2>1, <2>2 DEF Covers
  <2> QED
    BY <1>1, <1>2, <1>8, <2>3
<1>12. ASSUME NEW x \in Receipts(n)', x.tx = id
       PROVE  \/ x \in Receipts(n)
              \/ ~MayUndo(n, id)' /\ x.peer \in Nodes /\ Covers(x.peer, n, id, x.amount)
  <2>1. x \in Receipts(n) \/ x = gets
    BY <1>1, <1>2, <1>8 DEF Receipts
  <2> QED
    BY <1>0, <1>2, <1>9, <2>1
<1>13. /\ \A x \in books'[n].stored : x \in books[n].stored \/ x.amount = amount
       /\ \A x \in books[n].stored : x \in books'[n].stored
  BY <1>1, <1>2, <1>8
<1>14. Commits(n, id, u, item, amount)
  BY <1>4, <1>5, <1>7, <1>9, <1>11, <1>12, <1>13 DEF Commits
<1>15. OwedFor(id)'
  BY <1>14, CommitsKeeps
<1> QED
  BY <1>7, <1>15, ActsKeeps

LEMMA HopCommitKeeps ==
    ASSUME Owed, NEW n \in Nodes, NEW p \in Nodes, HopCommit(n, p)
    PROVE  Owed'
<1>0. PICK item, id : item = Head(net[p][n]) /\ id = item.tx
  OBVIOUS
<1>00. PICK amount : amount = AmountOf(n, id)
  OBVIOUS
<1> DEFINE b0 == books[n]
           b1 == Activate(b0, Payer(id))
           b2 == Activate(b1, Payee(id))
           b3 == Persist(b2, Payer(id))
           b4 == Persist(b3, Payee(id))
           pays == RowOf(Payer(id), b2.contract[Payer(id)])
           gets == RowOf(Payee(id), b3.contract[Payee(id)])
           failed == Cohorte("hop", "ABORT_REQUEST", TRUE)
           request == Order("ABORT_REQUEST", id)
<1> HIDE DEF b0, b1, b2, b3, b4, pays, gets, failed, request
<1>1. /\ net[p][n] # <<>> /\ id \in TxIds /\ Token(item, id) /\ item.phase = "COMMIT"
      /\ Tm(n, p) = currentTX[n][id] /\ item \in Range(net[p][n]) /\ item.tx = id
  <2>1. Receives(n, p, {"COMMIT"})
    BY DEF HopCommit
  <2> QED
    BY <1>0, <2>1, HeadFacts
<1>2. currentTX[n][id].role = "hop" /\ currentTX[n][id].phase = "VOTE_YES"
  BY <1>1 DEF HopCommit, Busy
<1>3. UNCHANGED <<bid, tunnels, chain>>
  BY DEF HopCommit, orders
<1>4. \/ /\ books' = [books EXCEPT ![n] = b4] /\ SetTM(n, id, NoTM)
         /\ net' = Sent(Taken(n, p), n, ToSeller(n, id[1]), item)
      \/ /\ books' = [books EXCEPT ![n] = b2] /\ SetTM(n, id, failed)
         /\ net' = Sent(Taken(n, p), n, p, request)
      \/ /\ books' = [books EXCEPT ![n] = b3] /\ SetTM(n, id, failed)
         /\ net' = Sent(Taken(n, p), n, p, request)
  BY <1>0 DEF HopCommit, Forget, b0, b1, b2, b3, b4, failed, request
<1>5. Voted(n, id) /\ PassedVote(n, id)
  BY <1>2 DEF Voted, PassedVote
<1>6. /\ Leads(p, n, id) /\ id[1] \in bid[id[2]].matched
      /\ currentTX[n][id].contract /\ MayUndo(n, id)
      /\ Payee(id) \in DOMAIN b0.contract
      /\ b0.contract[Payee(id)].peer = p /\ b0.contract[Payee(id)].btcTx = id
      /\ Covers(p, n, id, amount)
  BY <1>00, <1>1, <1>5, CommitTells DEF b0
<1>7. /\ n \in Route(id) /\ Payer(id) \in DOMAIN b0.contract
      /\ b0.contract[Payer(id)].peer = NextHop[n][id[1]] /\ b0.contract[Payer(id)].btcTx = id
      /\ b0.contract[Payer(id)].amount = amount /\ b0.contract[Payee(id)].amount = amount
  <2>1. IsManager(n, id, currentTX[n][id]) /\ HasVoted(n, id, b0.contract)
    BY <1>1, ManagerHas DEF b0
  <2>2. n \in Route(id) /\ PaysNext(n, id)
    BY <1>2, <1>6, <2>1 DEF IsManager
  <2>3. /\ b0.contract[Payer(id)].btcTx = id
        /\ b0.contract[Payer(id)].amount = b0.contract[Payee(id)].amount
    BY <1>5, <2>1 DEF HasVoted
  <2> QED
    BY <1>00, <2>2, <2>3 DEF PaysNext, AmountOf, b0
<1>8. IsBook(b0) /\ DOMAIN books = Nodes /\ ManagersKnown
  BY DEF Owed, Shape, b0
<1>9. Edited(b0, b1, Payer(id), amount, id)
  BY <1>7, <1>8, ActivateFacts DEF b1
<1>10. Edited(b1, b2, Payee(id), amount, id)
  <2>1. /\ IsBook(b1) /\ Payee(id) \in DOMAIN b1.contract
        /\ b1.contract[Payee(id)].amount = amount /\ b1.contract[Payee(id)].btcTx = id
    BY <1>1, <1>6, <1>7, <1>9, TheRefs DEF Edited
  <2> QED
    BY <2>1, ActivateFacts DEF b2
<1>11. /\ Spares(b0, b2, id) /\ b2.stored = b0.stored /\ IsBook(b2)
       /\ DOMAIN b2.contract = DOMAIN b0.contract
       /\ b2.contract[Payer(id)].peer = NextHop[n][id[1]] /\ b2.contract[Payee(id)].peer = p
       /\ b2.contract[Payer(id)].amount = amount /\ b2.contract[Payer(id)].btcTx = id
       /\ b2.contract[Payee(id)].amount = amount /\ b2.contract[Payee(id)].btcTx = id
  BY <1>1, <1>6, <1>7, <1>9, <1>10, BothEdited
<1>12. /\ Spares(b2, b3, id) /\ IsBook(b3) /\ b3.contract = b2.contract
       /\ b3.stored = b2.stored \cup {pays}
       /\ pays = [tx |-> id, party |-> "sender", peer |-> NextHop[n][id[1]],
                  amount |-> amount, btcTx |-> id]
  <2>1. Payer(id).tx = id /\ Payer(id).party = "sender" /\ Payer(id) \in DOMAIN b2.contract
    BY <1>1, <1>7, <1>11, TheRefs
  <2>2. /\ Spares(b2, b3, id) /\ IsBook(b3) /\ b3.contract = b2.contract
        /\ b3.stored = b2.stored \cup {pays}
    BY <1>11, <2>1, StoredOnce DEF b3, pays
  <2>3. pays = [tx |-> id, party |-> "sender", peer |-> NextHop[n][id[1]],
                amount |-> amount, btcTx |-> id]
    BY <1>11, <2>1 DEF pays, RowOf
  <2> QED
    BY <2>2, <2>3
<1>13. /\ Spares(b3, b4, id) /\ b4.stored = b3.stored \cup {gets}
       /\ gets = [tx |-> id, party |-> "receiver", peer |-> p, amount |-> amount, btcTx |-> id]
  <2>1. Payee(id).tx = id /\ Payee(id).party = "receiver" /\ Payee(id) \in DOMAIN b3.contract
    BY <1>1, <1>6, <1>11, <1>12, TheRefs
  <2>2. /\ b3.contract[Payee(id)].peer = p /\ b3.contract[Payee(id)].amount = amount
        /\ b3.contract[Payee(id)].btcTx = id
    BY <1>11, <1>12
  <2>3. Spares(b3, b4, id) /\ b4.stored = b3.stored \cup {gets}
    BY <1>12, <2>1, <2>2, StoredOnce DEF b4, gets
  <2>4. gets = [tx |-> id, party |-> "receiver", peer |-> p, amount |-> amount, btcTx |-> id]
    BY <2>1, <2>2 DEF gets, RowOf
  <2> QED
    BY <2>3, <2>4
<1>14. Spares(b0, b3, id) /\ Spares(b0, b4, id)
  <2>1. Spares(b0, b3, id)
    BY <1>11, <1>12, SparesFacts
  <2> QED
    BY <1>13, <2>1, SparesFacts
<1>15. failed \in Managers /\ failed.role = "hop" /\ failed.phase = "ABORT_REQUEST"
  BY DEF Cohorte, Managers, failed
<1>16. CASE /\ books' = [books EXCEPT ![n] = b4] /\ SetTM(n, id, NoTM)
            /\ net' = Sent(Taken(n, p), n, ToSeller(n, id[1]), item)
  <2>1. NewBook(n, b4) /\ NewManager(n, id, NoTM)
    BY <1>1, <1>8, <1>16, ManagersFit, NewBookFacts, SetTMFacts
  <2>2. b4.stored = books[n].stored \cup
                {[tx |-> id, party |-> "sender", peer |-> NextHop[n][id[1]],
                  amount |-> AmountOf(n, id), btcTx |-> id],
                 [tx |-> id, party |-> "receiver", peer |-> p,
                  amount |-> AmountOf(n, id), btcTx |-> id]}
    BY <1>00, <1>11, <1>12, <1>13 DEF b0
  <2>3. Spares(books[n], b4, id) /\ Covers(p, n, id, AmountOf(n, id))
    BY <1>00, <1>6, <1>14 DEF b0
  <2> QED
    BY <1>0, <1>1, <1>3, <1>5, <1>6, <1>7, <1>16, <2>1, <2>2, <2>3, HopCommitDone
<1>17. CASE /\ books' = [books EXCEPT ![n] = b2] /\ SetTM(n, id, failed)
            /\ net' = Sent(Taken(n, p), n, p, request)
  <2>1. NewBook(n, b2) /\ NewManager(n, id, failed)
    BY <1>1, <1>8, <1>15, <1>17, NewBookFacts, SetTMFacts
  <2>2. ManagerFades(n, id, currentTX[n][id], failed)
    BY <1>2, <1>6, <1>15 DEF ManagerFades
  <2>3. DealsStay(id, b0.contract, b2.contract)
    BY <1>6, <1>7, <1>11 DEF DealsStay, SameTerms, Parties, Payer, Payee
  <2>4. Dwindle(net')
    <3>1. request.tx \in TxIds /\ request.phase \in {"ABORT", "ABORT_REQUEST"}
      BY <1>1 DEF request, Order, Item
    <3> QED
      BY <1>1, <1>17, <3>1, TakeDwindles, SendDwindles
  <2> QED
    BY <1>1, <1>3, <1>11, <2>1, <2>2, <2>3, <2>4, GivesUp DEF b0
<1>18. CASE /\ books' = [books EXCEPT ![n] = b3] /\ SetTM(n, id, failed)
            /\ net' = Sent(Taken(n, p), n, p, request)
  <2>1. NewBook(n, b3) /\ NewManager(n, id, failed)
    BY <1>1, <1>8, <1>15, <1>18, NewBookFacts, SetTMFacts
  <2>2. /\ Payer(id) \in DOMAIN b3.contract /\ b3.contract[Payer(id)].peer = NextHop[n][id[1]]
        /\ Payee(id) \in DOMAIN b3.contract /\ b3.contract[Payee(id)].peer = p
    BY <1>6, <1>7, <1>11, <1>12
  <2>3. IsManager(n, id, currentTX[n][id])'
    BY <1>1, <1>6, <1>7, <1>15, <2>1, <2>2, HopFits
  <2>4. /\ pays.tx = id /\ pays.party = "sender" /\ pays.amount = AmountOf(n, id)
        /\ b3.stored = books[n].stored \cup {pays}
    BY <1>00, <1>11, <1>12 DEF b0
  <2>5. Spares(books[n], b3, id)
    BY <1>14 DEF b0
  <2> QED
    BY <1>0, <1>1, <1>3, <1>5, <1>6, <1>15, <1>18, <2>1, <2>3, <2>4, <2>5, HopCommitFails DEF request
<1> QED
  BY <1>4, <1>16, <1>17, <1>18

\* A bid keeps the asks it was matched with.
LEMMA FillBidFacts ==
    ASSUME BidsKnown, NEW b \in Bids, NEW amount, FillBid(b, amount)
    PROVE  BidsKnown' /\ \A o \in Bids : bid'[o].matched = bid[o].matched
<1> DEFINE less == [bid[b] EXCEPT !.amount = @ - amount, !.locked = FALSE]
           gone == [bid[b] EXCEPT !.state = "deleted"]
<1>1. bid' = [bid EXCEPT ![b] = less] \/ bid' = [bid EXCEPT ![b] = gone]
  BY DEF FillBid
<1>2. DOMAIN less = DOMAIN bid[b] /\ less.matched = bid[b].matched
  BY DEF BidsKnown
<1>3. DOMAIN gone = DOMAIN bid[b] /\ gone.matched = bid[b].matched
  BY DEF BidsKnown
<1> HIDE DEF less, gone
<1> QED
  BY <1>1, <1>2, <1>3 DEF BidsKnown

\* The buyer stored its contract and commanded COMMIT.
LEMMA CoordinatorDone ==
    ASSUME Owed, NEW n \in Nodes, NEW p \in Nodes, NEW item \in Range(net[p][n]),
           NEW id \in TxIds, Token(item, id), item.phase = "VOTE_YES",
           Owner[id[2]] = n, NextHop[n][id[1]] = p, MayUndo(n, id),
           NEW new, new.phase = "COMMIT", new.tx = id, Carries(net', id, n, p, new),
           NewManager(n, id, NoTM), NEW b, NewBook(n, b), Spares(books[n], b, id),
           b.stored = books[n].stored \cup
                {[tx |-> id, party |-> "sender", peer |-> p,
                  amount |-> item.amount, btcTx |-> id]},
           BidsKnown', \A o \in Bids : bid'[o].matched = bid[o].matched,
           UNCHANGED <<tunnels, chain>>
    PROVE  Owed'
<1>0. PICK amount : amount = item.amount
  OBVIOUS
<1> DEFINE pays == [tx |-> id, party |-> "sender", peer |-> p, amount |-> amount, btcTx |-> id]
<1>1. b.stored = books[n].stored \cup {pays}
  BY <1>0
<1>2. /\ pays.tx = id /\ pays.party = "sender" /\ pays.amount = amount
      /\ pays = [tx |-> id, party |-> "sender", peer |-> p, amount |-> amount, btcTx |-> id]
  OBVIOUS
<1>3. Leads(n, p, id)
  <2>1. id[1] \in Asks
    BY DEF TxIds
  <2> QED
    BY <2>1, FromFacts DEF Leads, Route
<1>4. id[1] \in bid[id[2]].matched /\ ~Waits(p, id)
  BY ItemTells
<1>5. \A m \in Nodes : NextHop[n][id[1]] = m =>
          ~Waits(m, id) /\ (Voted(m, id) => AmountOf(m, id) = amount)
  BY <1>0, <1>4 DEF Owed, OwedFor, VotesAgree
<1>6. Acts(n, id) /\ OnlyItem(id, n, p, new) /\ Elsewhere(n)
  BY SameTunnels, Handles
<1>7. currentTX'[n][id] = NoTM /\ books'[n] = b
  BY DEF NewManager, NewBook
<1>8. IsManager(n, id, currentTX[n][id])' /\ ~Voted(n, id)' /\ ~Waits(n, id)' /\ ~MayUndo(n, id)'
  BY <1>7, NoManager
<1>9. id[1] \in bid'[id[2]].matched
  BY <1>4 DEF TxIds
<1> HIDE DEF pays
<1>10. pays \in books'[n].stored /\ pays.tx = id /\ Covers(n, p, id, pays.amount)'
  <2>1. Promise(n, id, "sender", p, amount)'
    BY <1>1, <1>2, <1>7 DEF Promise
  <2>2. Covers(n, p, id, amount)'
    BY <1>8, <2>1 DEF Covers
  <2> QED
    BY <1>1, <1>2, <1>7, <2>2
<1>11. /\ \A x \in books'[n].stored : x \in books[n].stored \/ x.amount = amount
       /\ \A x \in books[n].stored : x \in books'[n].stored
       /\ \A x \in Receipts(n)' : x \in Receipts(n)
  BY <1>1, <1>2, <1>7 DEF Receipts
<1>12. Commits(n, id, p, new, amount)
  BY <1>3, <1>4, <1>5, <1>6, <1>8, <1>9, <1>10, <1>11 DEF Commits
<1>13. OwedFor(id)'
  BY <1>12, CommitsKeeps
<1> QED
  BY <1>6, <1>13, ActsKeeps

LEMMA CoordinatorYesKeeps ==
    ASSUME Owed, NEW n \in Nodes, NEW p \in Nodes, CoordinatorYes(n, p)
    PROVE  Owed'
<1>0. PICK item, id : item = Head(net[p][n]) /\ id = item.tx
  OBVIOUS
<1> DEFINE b0 == books[n]
           b1 == SetBtcAmount(b0, Payer(id), item.amount)
           b2 == SetBtcTxId(b1, Payer(id), item.btcTx)
           b3 == Activate(b2, Payer(id))
           b4 == Persist(b3, Payer(id))
           pays == RowOf(Payer(id), b3.contract[Payer(id)])
           next == b0.contract[Payer(id)].peer
           commit == Order("COMMIT", id)
           abort == Order("ABORT", id)
           committed == Sent(Taken(n, p), n, next, commit)
           hop == NextHop[n][id[1]]
<1> HIDE DEF b0, b1, b2, b3, b4, pays, next, commit, abort, committed, hop
<1>1. /\ net[p][n] # <<>> /\ id \in TxIds /\ Token(item, id) /\ item.phase = "VOTE_YES"
      /\ Tm(n, p) = currentTX[n][id] /\ item \in Range(net[p][n]) /\ item.tx = id
  <2>1. Receives(n, p, {"VOTE_YES"})
    BY DEF CoordinatorYes
  <2> QED
    BY <1>0, <2>1, HeadFacts
<1>2. /\ currentTX[n][id].role = "coordinator" /\ SetTM(n, id, NoTM)
      /\ UNCHANGED <<tunnels, chain>>
  BY <1>0, <1>1 DEF CoordinatorYes, Forget
<1>3. \/ /\ books' = [books EXCEPT ![n] = b4] /\ FillBid(id[2], item.amount)
         /\ net' = committed \/ net' = Sent(committed, n, hop, abort)
      \/ /\ books' = [books EXCEPT ![n] = b3] /\ UNCHANGED bid
         /\ net' = Sent(Taken(n, p), n, hop, abort)
  BY <1>0 DEF CoordinatorYes, AcceptVote, b0, b1, b2, b3, b4, next, commit, abort, committed, hop
<1>4. /\ Owner[id[2]] = n /\ MayUndo(n, id) /\ Payer(id) \in DOMAIN b0.contract
      /\ b0.contract[Payer(id)].peer = NextHop[n][id[1]]
  BY <1>1, <1>2, ManagerHas DEF IsManager, PaysNext, MayUndo, b0
<1>5. NextHop[n][id[1]] = p /\ item.btcTx = id /\ next = p
  BY <1>1, <1>4, ItemTells DEF IsOnRoute, next
<1>6. IsBook(b0) /\ DOMAIN books = Nodes /\ ManagersKnown /\ BidsKnown
  BY DEF Owed, Shape, b0
<1>7. Edited(b0, b3, Payer(id), item.amount, id)
  <2>1. Edited(b0, b1, Payer(id), item.amount, b0.contract[Payer(id)].btcTx)
    BY <1>4, <1>6, SetAmountFacts DEF b1
  <2>2. IsBook(b1) /\ Payer(id) \in DOMAIN b1.contract /\ b1.contract[Payer(id)].amount = item.amount
    BY <1>4, <2>1 DEF Edited
  <2>3. Edited(b1, b2, Payer(id), item.amount, id)
    BY <1>1, <1>5, <2>2, TheRefs, SetBtcTxFacts DEF b2
  <2>4. /\ IsBook(b2) /\ Payer(id) \in DOMAIN b2.contract
        /\ b2.contract[Payer(id)].amount = item.amount /\ b2.contract[Payer(id)].btcTx = id
    BY <2>2, <2>3 DEF Edited
  <2>5. Edited(b2, b3, Payer(id), item.amount, id)
    BY <2>4, ActivateFacts DEF b3
  <2>6. Edited(b0, b2, Payer(id), item.amount, id)
    BY <1>4, <2>1, <2>3, EditedTwice
  <2> QED
    BY <1>4, <2>5, <2>6, EditedTwice
<1>8. /\ Spares(b0, b3, id) /\ b3.stored = b0.stored /\ IsBook(b3)
      /\ Payer(id) \in DOMAIN b3.contract /\ b3.contract[Payer(id)].peer = p
      /\ b3.contract[Payer(id)].amount = item.amount /\ b3.contract[Payer(id)].btcTx = id
  <2>1. Payer(id).tx = id
    BY <1>1, TheRefs
  <2>2. Spares(b0, b3, id)
    BY <1>7, <2>1, SparesFacts
  <2> QED
    BY <1>4, <1>5, <1>7, <2>2 DEF Edited
<1>9. abort.tx \in TxIds /\ abort.phase \in {"ABORT", "ABORT_REQUEST"}
  BY <1>1 DEF Order, Item, abort
<1>10. CASE /\ books' = [books EXCEPT ![n] = b4] /\ FillBid(id[2], item.amount)
            /\ net' = committed \/ net' = Sent(committed, n, hop, abort)
  <2>1. BidsKnown' /\ \A o \in Bids : bid'[o].matched = bid[o].matched
    BY <1>1, <1>6, <1>10, FillBidFacts DEF TxIds
  <2>2. commit.phase = "COMMIT" /\ commit.tx = id
    BY DEF commit, Order, Item
  <2>3. Carries(committed, id, n, p, commit)
    <3>1. commit.phase \in Phases
      BY <2>2 DEF Phases
    <3> QED
      BY <1>0, <1>1, <1>5, <2>2, <3>1, TakeAndSendCarries DEF committed
  <2>4. Carries(net', id, n, p, commit)
    BY <1>9, <1>10, <2>3, SendCarries
  <2>5. NewBook(n, b4) /\ NewManager(n, id, NoTM)
    BY <1>1, <1>2, <1>6, <1>10, ManagersFit, NewBookFacts, SetTMFacts
  <2>6. /\ Spares(b3, b4, id) /\ b4.stored = b3.stored \cup {pays}
        /\ pays = [tx |-> id, party |-> "sender", peer |-> p, amount |-> item.amount, btcTx |-> id]
    <3>1. Payer(id).tx = id /\ Payer(id).party = "sender"
      BY <1>1, TheRefs
    <3>2. Spares(b3, b4, id) /\ b4.stored = b3.stored \cup {pays}
      BY <1>8, <3>1, StoredOnce DEF b4, pays
    <3>3. pays = [tx |-> id, party |-> "sender", peer |-> p, amount |-> item.amount, btcTx |-> id]
      BY <1>8, <3>1 DEF pays, RowOf
    <3> QED
      BY <3>2, <3>3
  <2>7. Spares(books[n], b4, id)
    BY <1>8, <2>6, SparesFacts DEF b0
  <2>8. b4.stored = books[n].stored \cup
             {[tx |-> id, party |-> "sender", peer |-> p, amount |-> item.amount, btcTx |-> id]}
    BY <1>8, <2>6 DEF b0
  <2> QED
    BY <1>1, <1>2, <1>4, <1>5, <2>1, <2>2, <2>4, <2>5, <2>7, <2>8, CoordinatorDone
<1>11. CASE /\ books' = [books EXCEPT ![n] = b3] /\ UNCHANGED bid
            /\ net' = Sent(Taken(n, p), n, hop, abort)
  <2>1. NewBook(n, b3) /\ NewManager(n, id, NoTM)
    BY <1>1, <1>2, <1>6, <1>11, ManagersFit, NewBookFacts, SetTMFacts
  <2>2. ManagerFades(n, id, currentTX[n][id], NoTM)
    BY DEF ManagerFades, NoTM
  <2>3. Dwindle(net')
    BY <1>1, <1>9, <1>11, TakeDwindles, SendDwindles
  <2>4. Spares(books[n], b3, id) /\ b3.stored = books[n].stored
    BY <1>8 DEF b0
  <2> QED
    BY <1>1, <1>2, <1>11, <2>1, <2>2, <2>3, <2>4, GivesUp
<1> QED
  BY <1>3, <1>10, <1>11

-----------------------------------------------------------------------------
(* A match begins several transactions at once.                            *)

\* An item of two links put together is of the one or of the other.
Joins(q, r, c) ==
    \A i \in DOMAIN c : \/ i \in DOMAIN q /\ c[i] = q[i]
                       \/ \E k \in DOMAIN r : i = Len(q) + k /\ c[i] = r[k]

LEMMA PutTogether ==
    ASSUME NEW S, NEW q \in Seq(S), NEW T, NEW r \in Seq(T)
    PROVE  q \o r \in Seq(Range(q \o r)) /\ Joins(q, r, q \o r)
<1> DEFINE U == S \cup T
           c == q \o r
<1>1. q \in Seq(U) /\ r \in Seq(U)
  BY SeqMonotonic
<1> HIDE DEF U
<1>2. /\ c \in Seq(U) /\ Len(c) = Len(q) + Len(r)
      /\ \A i \in 1..(Len(q) + Len(r)) : c[i] = IF i <= Len(q) THEN q[i] ELSE r[i - Len(q)]
  BY <1>1, ConcatProperties
<1> HIDE DEF c
<1>3. /\ DOMAIN c = 1..Len(c) /\ DOMAIN q = 1..Len(q) /\ DOMAIN r = 1..Len(r)
      /\ Len(q) \in Nat /\ Len(r) \in Nat
  BY <1>1, <1>2, LenProperties
<1>4. c \in Seq(Range(c))
  BY <1>2, OwnRange
<1>5. ASSUME NEW i \in DOMAIN c
      PROVE  \/ i \in DOMAIN q /\ c[i] = q[i]
             \/ \E k \in DOMAIN r : i = Len(q) + k /\ c[i] = r[k]
  <2>1. i \in 1..(Len(q) + Len(r))
    BY <1>2, <1>3
  <2>2. CASE i <= Len(q)
    BY <1>2, <1>3, <2>1, <2>2
  <2>3. CASE ~(i <= Len(q))
    <3>1. PICK k : k = i - Len(q)
      OBVIOUS
    <3>2. k \in 1..Len(r) /\ i = Len(q) + k
      BY <1>3, <2>1, <2>3, <3>1
    <3>3. c[i] = r[k]
      BY <1>2, <2>1, <2>3, <3>1
    <3> QED
      BY <1>3, <3>2, <3>3
  <2> QED
    BY <2>2, <2>3
<1> QED
  BY <1>4, <1>5 DEF Joins, c

\* Links to which n added items.
Adds(a, n, more, b) ==
    /\ \A t \in Nodes : /\ more[t] \in Seq(Range(more[t]))
                        /\ \A k \in DOMAIN more[t] :
                              more[t][k].tx \in TxIds /\ more[t][k].phase \in Phases
    /\ b = [a EXCEPT ![n] = [t \in Nodes |-> a[n][t] \o more[t]]]

LEMMA AddedLinks ==
    ASSUME NEW a, Known(a), NEW n \in Nodes, NEW more, NEW b, Adds(a, n, more, b)
    PROVE  /\ Known(b)
           /\ \A f, t \in Nodes : f # n => b[f][t] = a[f][t]
           /\ \A t \in Nodes : Joins(a[n][t], more[t], b[n][t])
<1>1. /\ DOMAIN b = Nodes /\ \A f \in Nodes : DOMAIN b[f] = Nodes
      /\ \A f, t \in Nodes : f # n => b[f][t] = a[f][t]
      /\ \A t \in Nodes : b[n][t] = a[n][t] \o more[t]
  BY DEF Known, Adds
<1>2. /\ \A f, t \in Nodes : a[f][t] \in Seq(Range(a[f][t]))
      /\ \A f, t \in Nodes : \A i \in DOMAIN a[f][t] :
            a[f][t][i].tx \in TxIds /\ a[f][t][i].phase \in Phases
  <2>1. \A f, t \in Nodes : \A i \in DOMAIN a[f][t] : a[f][t][i] \in Range(a[f][t])
    BY DEF Range
  <2> QED
    BY <2>1 DEF Known
<1>3. \A t \in Nodes : more[t] \in Seq(Range(more[t]))
  BY DEF Adds
<1>4. \A t \in Nodes : \A k \in DOMAIN more[t] :
          more[t][k].tx \in TxIds /\ more[t][k].phase \in Phases
  BY DEF Adds
<1>5. ASSUME NEW t \in Nodes
      PROVE  b[n][t] \in Seq(Range(b[n][t])) /\ Joins(a[n][t], more[t], b[n][t])
  <2>1. PICK q, r : q = a[n][t] /\ r = more[t]
    OBVIOUS
  <2>2. q \in Seq(Range(q)) /\ r \in Seq(Range(r))
    BY <1>2, <1>3, <2>1
  <2>3. q \o r \in Seq(Range(q \o r)) /\ Joins(q, r, q \o r)
    BY <2>2, PutTogether
  <2>4. b[n][t] = q \o r
    BY <1>1, <2>1
  <2> QED
    BY <2>1, <2>3, <2>4
<1>6. ASSUME NEW f \in Nodes, NEW t \in Nodes
      PROVE  b[f][t] \in Seq(Range(b[f][t]))
  <2>1. CASE f = n
    BY <1>5, <2>1
  <2>2. CASE f # n
    <3>1. b[f][t] = a[f][t]
      BY <1>1, <2>2
    <3> QED
      BY <1>2, <3>1
  <2> QED
    BY <2>1, <2>2
<1>7. ASSUME NEW f \in Nodes, NEW t \in Nodes, NEW item \in Range(b[f][t])
      PROVE  item.tx \in TxIds /\ item.phase \in Phases
  <2>1. PICK i \in DOMAIN b[f][t] : item = b[f][t][i]
    BY DEF Range
  <2>2. CASE f = n
    <3>1. Joins(a[n][t], more[t], b[n][t])
      BY <1>5
    <3>2. \/ i \in DOMAIN a[n][t] /\ b[n][t][i] = a[n][t][i]
          \/ \E k \in DOMAIN more[t] : b[n][t][i] = more[t][k]
      BY <2>1, <2>2, <3>1 DEF Joins
    <3> QED
      BY <1>2, <1>4, <2>1, <2>2, <3>2
  <2>3. CASE f # n
    <3>1. b[f][t] = a[f][t]
      BY <1>1, <2>3
    <3>2. i \in DOMAIN a[f][t] /\ item = a[f][t][i]
      BY <2>1, <3>1
    <3> QED
      BY <1>2, <3>2
  <2> QED
    BY <2>2, <2>3
<1> QED
  BY <1>1, <1>5, <1>6, <1>7 DEF Known

\* The QUERYs for a friend: each is about an ask of its own.
Asked(n, b, t, asks, r) ==
    /\ r \in Seq(Range(r))
    /\ \A k \in DOMAIN r : \E a \in asks : NextHop[n][a] = t /\ r[k] = Query(n, b, a)
    /\ \A k, l \in DOMAIN r : r[k].tx = r[l].tx => k = l

LEMMA QueriesFacts ==
    ASSUME NEW n, NEW b \in Bids, NEW t, NEW asks \in SUBSET Asks
    PROVE  Asked(n, b, t, asks, Queries(n, b, t, asks))
<1> DEFINE S == {a \in asks : NextHop[n][a] = t /\ up[t]}
           those == Ranked(S)
           e(k) == Query(n, b, those[k])
           r == [k \in DOMAIN those |-> e(k)]
<1>1. Queries(n, b, t, asks) = r
  BY DEF Queries
<1>2. those \in Seq(S) /\ IsInjective(those)
  BY RankedFacts
<1>3. \A a \in S : a \in asks /\ NextHop[n][a] = t
  OBVIOUS
<1>4. \A a : Query(n, b, a).tx = <<a, b>>
  BY DEF Query, Item
<1> HIDE DEF S, those
<1>5. /\ DOMAIN those = 1..Len(those) /\ Len(those) \in Nat
      /\ \A k \in DOMAIN those : those[k] \in S
  BY <1>2, LenProperties
<1>6. \A k \in DOMAIN those : r[k].tx = <<those[k], b>>
  BY <1>4
<1>7. \A k, l \in DOMAIN those : those[k] = those[l] => k = l
  BY <1>2 DEF IsInjective
<1>8. DOMAIN r = DOMAIN those /\ \A k \in DOMAIN those : r[k] = Query(n, b, those[k])
  OBVIOUS
<1> HIDE DEF r
<1>9. \A k, l \in DOMAIN r : r[k].tx = r[l].tx => k = l
  BY <1>6, <1>7, <1>8
<1>10. \A k \in DOMAIN r : \E a \in asks : NextHop[n][a] = t /\ r[k] = Query(n, b, a)
  BY <1>3, <1>5, <1>8
<1>11. r \in Seq(Range(r))
  <2>1. \A k \in 1..Len(those) : r[k] \in Range(r)
    BY <1>5, <1>8 DEF Range
  <2>2. r = [k \in 1..Len(those) |-> r[k]]
    BY <1>5 DEF r
  <2>3. r \in [1..Len(those) -> Range(r)]
    BY <2>1, <2>2
  <2> QED
    BY <1>5, <2>3, SeqDef
<1> QED
  BY <1>1, <1>9, <1>10, <1>11 DEF Asked

LEMMA MatchLinks ==
    ASSUME Owed, NEW n \in Nodes, NEW b \in Bids, NEW asks \in SUBSET Asks,
           \A a \in asks : NoToken(net, <<a, b>>),
           net' = [net EXCEPT ![n] = [t \in Nodes |-> net[n][t] \o Queries(n, b, t, asks)]]
    PROVE  /\ Known(net')
           /\ \A id \in TxIds :
                 /\ ~(id[2] = b /\ id[1] \in asks) => ItemsFade(id)
                 /\ id[2] = b /\ id[1] \in asks =>
                       OnlyItem(id, n, NextHop[n][id[1]], Query(n, b, id[1]))
<1> DEFINE more == [t \in Nodes |-> Queries(n, b, t, asks)]
<1>1. PICK new : new = net'
  OBVIOUS
<1>2. \A a : Query(n, b, a).tx = <<a, b>> /\ Query(n, b, a).phase = "QUERY"
  BY DEF Query, Item
<1>3. ASSUME NEW t \in Nodes
      PROVE  /\ more[t] \in Seq(Range(more[t]))
             /\ \A k \in DOMAIN more[t] :
                   \E a \in asks : NextHop[n][a] = t /\ more[t][k] = Query(n, b, a)
             /\ \A k, l \in DOMAIN more[t] : more[t][k].tx = more[t][l].tx => k = l
  <2>1. more[t] = Queries(n, b, t, asks)
    OBVIOUS
  <2> HIDE DEF more
  <2>2. Asked(n, b, t, asks, Queries(n, b, t, asks))
    BY QueriesFacts
  <2>3. Asked(n, b, t, asks, more[t])
    BY <2>1, <2>2
  <2> QED
    BY <2>3 DEF Asked
<1>4. \A a \in asks : <<a, b>> \in TxIds
  BY DEF TxIds
<1>5. \A t \in Nodes : \A k \in DOMAIN more[t] :
          more[t][k].tx \in TxIds /\ more[t][k].phase \in Phases
  <2> HIDE DEF more
  <2>1. "QUERY" \in Phases
    BY DEF Phases
  <2> SUFFICES ASSUME NEW t \in Nodes, NEW k \in DOMAIN more[t]
               PROVE  more[t][k].tx \in TxIds /\ more[t][k].phase \in Phases
    OBVIOUS
  <2>2. PICK a \in asks : more[t][k] = Query(n, b, a)
    BY <1>3
  <2> QED
    BY <1>2, <1>4, <2>1, <2>2
<1>6. Adds(net, n, more, new)
  <2>1. new = [net EXCEPT ![n] = [t \in Nodes |-> net[n][t] \o more[t]]]
    BY <1>1
  <2> HIDE DEF more
  <2> QED
    BY <1>3, <1>5, <2>1 DEF Adds
<1> HIDE DEF more
<1>7. /\ Known(new)
      /\ \A f, t \in Nodes : f # n => new[f][t] = net[f][t]
      /\ \A t \in Nodes : Joins(net[n][t], more[t], new[n][t])
  <2>1. Known(net)
    BY DEF Owed, Shape
  <2> QED
    BY <1>6, <2>1, AddedLinks
<1>8. ASSUME NEW f \in Nodes, NEW t \in Nodes, NEW i \in DOMAIN new[f][t]
      PROVE  \/ i \in DOMAIN net[f][t] /\ new[f][t][i] = net[f][t][i]
             \/ /\ f = n
                /\ \E k \in DOMAIN more[t], a \in asks :
                      /\ i = Len(net[n][t]) + k /\ new[f][t][i] = more[t][k]
                      /\ NextHop[n][a] = t /\ more[t][k] = Query(n, b, a)
  <2>1. CASE f = n
    <3>1. Joins(net[n][t], more[t], new[n][t])
      BY <1>7
    <3>2. \/ i \in DOMAIN net[n][t] /\ new[n][t][i] = net[n][t][i]
          \/ \E k \in DOMAIN more[t] : i = Len(net[n][t]) + k /\ new[n][t][i] = more[t][k]
      BY <2>1, <3>1 DEF Joins
    <3> QED
      BY <1>3, <2>1, <3>2
  <2>2. CASE f # n
    BY <1>7, <2>2
  <2> QED
    BY <2>1, <2>2
<1>9. \A id \in TxIds : OneToken(net, id)
  BY DEF Owed, OwedFor
<1>10. ASSUME NEW id \in TxIds, ~(id[2] = b /\ id[1] \in asks)
       PROVE  ItemsFade(id)
  <2>1. ASSUME NEW f \in Nodes, NEW t \in Nodes, NEW i \in DOMAIN new[f][t],
               Token(new[f][t][i], id)
        PROVE  i \in DOMAIN net[f][t] /\ new[f][t][i] = net[f][t][i]
    <3>1. \A a \in asks : Query(n, b, a).tx # id
      BY <1>2, <1>10
    <3>2. \A a \in asks : new[f][t][i] # Query(n, b, a)
      BY <2>1, <3>1 DEF Token
    <3> QED
      BY <1>8, <3>2
  <2>2. OneToken(new, id)
    <3> SUFFICES ASSUME NEW f \in Nodes, NEW t \in Nodes, NEW g \in Nodes, NEW u \in Nodes,
                        NEW i \in DOMAIN new[f][t], NEW k \in DOMAIN new[g][u],
                        Token(new[f][t][i], id), Token(new[g][u][k], id)
                 PROVE  f = g /\ t = u /\ i = k
      BY DEF OneToken
    <3>1. /\ i \in DOMAIN net[f][t] /\ Token(net[f][t][i], id)
          /\ k \in DOMAIN net[g][u] /\ Token(net[g][u][k], id)
      BY <2>1
    <3> QED
      BY <1>9, <3>1, TheToken
  <2>3. ASSUME NEW f \in Nodes, NEW t \in Nodes, NEW item \in Range(new[f][t]), Token(item, id)
        PROVE  item \in Range(net[f][t])
    <3>1. PICK i \in DOMAIN new[f][t] : item = new[f][t][i]
      BY DEF Range
    <3>2. i \in DOMAIN net[f][t] /\ item = net[f][t][i]
      BY <2>1, <2>3, <3>1
    <3> QED
      BY <3>2 DEF Range
  <2> QED
    BY <1>1, <2>2, <2>3 DEF ItemsFade
<1>11. ASSUME NEW id \in TxIds, id[2] = b, id[1] \in asks
       PROVE  OnlyItem(id, n, NextHop[n][id[1]], Query(n, b, id[1]))
  <2>1. id = <<id[1], b>>
    BY <1>11 DEF TxIds
  <2>2. NoToken(net, id)
    <3>1. NoToken(net, <<id[1], b>>)
      BY <1>11
    <3> QED
      BY <2>1, <3>1
  <2>3. \A a \in asks : Query(n, b, a).tx = id => a = id[1]
    BY <1>2, <2>1
  <2>4. ASSUME NEW f \in Nodes, NEW t \in Nodes, NEW i \in DOMAIN new[f][t],
               Token(new[f][t][i], id)
        PROVE  /\ f = n /\ t = NextHop[n][id[1]] /\ new[f][t][i] = Query(n, b, id[1])
               /\ \E k \in DOMAIN more[t] : /\ i = Len(net[n][t]) + k
                                            /\ more[t][k] = Query(n, b, id[1])
    <3>1. ~(i \in DOMAIN net[f][t] /\ new[f][t][i] = net[f][t][i])
      <4>1. \A x \in DOMAIN net[f][t] : ~Token(net[f][t][x], id)
        BY <2>2 DEF NoToken, Range
      <4> QED
        BY <2>4, <4>1
    <3>2. PICK k \in DOMAIN more[t], a \in asks :
             /\ i = Len(net[n][t]) + k /\ new[f][t][i] = more[t][k]
             /\ NextHop[n][a] = t /\ more[t][k] = Query(n, b, a)
      BY <1>8, <3>1
    <3>3. Query(n, b, a).tx = id
      BY <2>4, <3>2 DEF Token
    <3>4. a = id[1]
      BY <2>3, <3>3
    <3>5. f = n
      BY <1>8, <3>1
    <3> QED
      BY <3>2, <3>4, <3>5
  <2>5. OneToken(new, id)
    <3> SUFFICES ASSUME NEW f \in Nodes, NEW t \in Nodes, NEW g \in Nodes, NEW u \in Nodes,
                        NEW i \in DOMAIN new[f][t], NEW k \in DOMAIN new[g][u],
                        Token(new[f][t][i], id), Token(new[g][u][k], id)
                 PROVE  f = g /\ t = u /\ i = k
      BY DEF OneToken
    <3>1. f = g /\ t = u
      BY <2>4
    <3>2. PICK x \in DOMAIN more[t] : i = Len(net[n][t]) + x /\ more[t][x] = Query(n, b, id[1])
      BY <2>4
    <3>3. PICK y \in DOMAIN more[t] : k = Len(net[n][t]) + y /\ more[t][y] = Query(n, b, id[1])
      BY <2>4, <3>1
    <3>4. more[t][x].tx = more[t][y].tx
      BY <3>2, <3>3
    <3>5. x = y
      BY <1>3, <3>4
    <3> QED
      BY <3>1, <3>2, <3>3, <3>5
  <2>6. ASSUME NEW f \in Nodes, NEW t \in Nodes, NEW item \in Range(new[f][t]), Token(item, id)
        PROVE  f = n /\ t = NextHop[n][id[1]] /\ item = Query(n, b, id[1])
    <3>1. PICK i \in DOMAIN new[f][t] : item = new[f][t][i]
      BY DEF Range
    <3> QED
      BY <2>4, <2>6, <3>1
  <2> QED
    BY <1>1, <2>5, <2>6 DEF OnlyItem
<1> QED
  BY <1>1, <1>7, <1>10, <1>11

\* The contracts of a match.
LEMMA NewSendersFacts ==
    ASSUME NEW b, IsBook(b), NEW refs, NEW made, DOMAIN made \subseteq Refs,
           \A ref \in DOMAIN made : IsContract(ref, made[ref])
    PROVE  LET c == NewSenders(b, refs, made)
           IN /\ IsBook(c) /\ c.stored = b.stored
              /\ DOMAIN c.contract = DOMAIN b.contract \cup DOMAIN made
              /\ \A ref \in DOMAIN made : c.contract[ref] = made[ref]
              /\ \A ref \in DOMAIN b.contract \ DOMAIN made :
                    c.contract[ref] = b.contract[ref]
<1> DEFINE c == NewSenders(b, refs, made)
           all == [ref \in DOMAIN b.contract \cup DOMAIN made |->
                      IF ref \in DOMAIN made THEN made[ref] ELSE b.contract[ref]]
<1>1. DOMAIN c = DOMAIN b /\ c.stored = b.stored /\ c.contract = all
  BY DEF NewSenders, IsBook
<1>2. /\ DOMAIN all = DOMAIN b.contract \cup DOMAIN made
      /\ \A ref \in DOMAIN made : all[ref] = made[ref]
      /\ \A ref \in DOMAIN b.contract \ DOMAIN made : all[ref] = b.contract[ref]
  OBVIOUS
<1> HIDE DEF all, c
<1>3. IsBook(c)
  BY <1>1, <1>2 DEF IsBook
<1> QED
  BY <1>1, <1>2, <1>3 DEF c

\* What match() tries, and what its transactions were before.
LEMMA TriedFacts ==
    ASSUME Owed, NEW n \in Nodes, NEW b \in Bids, Owner[b] = n, NEW a \in Tried(n, b)
    PROVE  /\ a \in Asks /\ <<a, b>> \in TxIds /\ NextHop[n][a] \in Nodes
           /\ Untouched(<<a, b>>) /\ NoToken(net, <<a, b>>)
           /\ Leads(n, NextHop[n][a], <<a, b>>)
<1> DEFINE id == <<a, b>>
<1>1. a \in Asks /\ Owner[a] # n /\ a \notin bid[b].matched
  BY DEF Tried, Candidates
<1>2. id \in TxIds /\ id[1] = a /\ id[2] = b
  BY <1>1 DEF TxIds
<1>3. NextHop[n][a] \in Nodes
  BY <1>1, OrdersAssumption
<1> HIDE DEF id
<1>4. NothingBeforeMatch(id)
  BY <1>2 DEF Owed, OwedFor
<1>5. n \in Route(id)
  <2>1. n \in From(n, a)
    BY DEF From
  <2> QED
    BY <1>2, <2>1 DEF Route
<1> QED
  BY <1>1, <1>2, <1>3, <1>4, <1>5 DEF NothingBeforeMatch, Leads, id

\* The buyer's book after match().
AfterMatch(n, b, tried, c) ==
    /\ IsBook(c) /\ c.stored = books[n].stored
    /\ \A a \in tried : /\ Payer(<<a, b>>) \in DOMAIN c.contract
                        /\ c.contract[Payer(<<a, b>>)].peer = NextHop[n][a]
    /\ \A ref \in DOMAIN books[n].contract :
          ref \in DOMAIN c.contract /\ (c.contract[ref] = books[n].contract[ref]
              \/ \E a \in tried : ref = Payer(<<a, b>>))

LEMMA MatchBook ==
    ASSUME Owed, NEW n \in Nodes, NEW b \in Bids, NEW tried \in SUBSET Asks, NEW refs
    PROVE  AfterMatch(n, b, tried,
                  NewSenders(books[n], refs,
                             [ref \in {Payer(<<a, b>>) : a \in tried} |->
                                 Contract(NextHop[n][ref.tx[1]], Buy(n, b, ref.tx[1]))]))
<1> DEFINE deal(ref) == Contract(NextHop[n][ref.tx[1]], Buy(n, b, ref.tx[1]))
           these == {Payer(<<a, b>>) : a \in tried}
           made == [ref \in these |-> deal(ref)]
           c == NewSenders(books[n], refs, made)
<1>1. IsBook(books[n])
  BY DEF Owed, Shape
<1>2. ASSUME NEW a \in tried
      PROVE  /\ Payer(<<a, b>>) \in Refs
             /\ Payer(<<a, b>>).tx[1] = a
  <2>1. <<a, b>> \in TxIds
    BY DEF TxIds
  <2>2. Payer(<<a, b>>) \in Refs /\ Payer(<<a, b>>).tx = <<a, b>>
    BY <2>1, TheRefs
  <2> QED
    BY <2>2
<1>3. \A ref : /\ DOMAIN deal(ref) = {"peer", "amount", "btcTx", "active"}
               /\ deal(ref).btcTx = NoBtcTx /\ deal(ref).peer = NextHop[n][ref.tx[1]]
  BY DEF Contract
<1> HIDE DEF deal
<1>4. these \subseteq Refs
  BY <1>2
<1>5. DOMAIN made = these /\ \A ref \in these : made[ref] = deal(ref)
  OBVIOUS
<1>6. \A a \in tried : Payer(<<a, b>>) \in these
  OBVIOUS
<1>7. \A ref \in these : \E a \in tried : ref = Payer(<<a, b>>)
  OBVIOUS
<1> HIDE DEF made, these
<1>8. \A ref \in DOMAIN made : IsContract(ref, made[ref])
  BY <1>3, <1>5 DEF IsContract
<1>9. /\ IsBook(c) /\ c.stored = books[n].stored
      /\ DOMAIN c.contract = DOMAIN books[n].contract \cup DOMAIN made
      /\ \A ref \in DOMAIN made : c.contract[ref] = made[ref]
      /\ \A ref \in DOMAIN books[n].contract \ DOMAIN made :
            c.contract[ref] = books[n].contract[ref]
  BY <1>1, <1>4, <1>5, <1>8, NewSendersFacts
<1> HIDE DEF c
<1>10. ASSUME NEW a \in tried
       PROVE  /\ Payer(<<a, b>>) \in DOMAIN c.contract
              /\ c.contract[Payer(<<a, b>>)].peer = NextHop[n][a]
  <2> DEFINE ref == Payer(<<a, b>>)
  <2>1. ref \in these /\ ref.tx[1] = a
    BY <1>2, <1>6
  <2> HIDE DEF ref
  <2>2. ref \in DOMAIN c.contract /\ c.contract[ref].peer = NextHop[n][a]
    BY <1>3, <1>5, <1>9, <2>1
  <2> QED
    BY <2>2 DEF ref
<1>11. ASSUME NEW ref \in DOMAIN books[n].contract
       PROVE  ref \in DOMAIN c.contract /\ (c.contract[ref] = books[n].contract[ref]
                  \/ \E a \in tried : ref = Payer(<<a, b>>))
  BY <1>5, <1>7, <1>9
<1>12. AfterMatch(n, b, tried, c)
  BY <1>9, <1>10, <1>11 DEF AfterMatch
<1> QED
  BY <1>12 DEF c, made, these, deal

\* The managers of a match.
LEMMA MatchManagers ==
    ASSUME ManagersKnown, NEW n \in Nodes, NEW b \in Bids, NEW asks \in SUBSET Asks,
           currentTX' = [currentTX EXCEPT ![n] = [id \in TxIds |->
               IF id[1] \in asks /\ id[2] = b THEN Coordinator("book") ELSE @[id]]]
    PROVE  /\ ManagersKnown' /\ \A m \in Nodes : m # n => currentTX'[m] = currentTX[m]
           /\ \A id \in TxIds :
                 currentTX'[n][id] = IF id[1] \in asks /\ id[2] = b THEN Coordinator("book")
                                     ELSE currentTX[n][id]
<1> DEFINE new == [id \in TxIds |-> IF id[1] \in asks /\ id[2] = b THEN Coordinator("book")
                                    ELSE currentTX[n][id]]
<1>1. Coordinator("book") \in Managers
  BY DEF Coordinator, Managers
<1>2. new \in [TxIds -> Managers]
  BY <1>1 DEF ManagersKnown
<1>3. currentTX' = [currentTX EXCEPT ![n] = new]
  BY DEF ManagersKnown
<1> HIDE DEF new
<1>4. /\ ManagersKnown' /\ \A m \in Nodes : m # n => currentTX'[m] = currentTX[m]
      /\ currentTX'[n] = new
  BY <1>2, <1>3 DEF ManagersKnown
<1> QED
  BY <1>4 DEF new

\* A transaction that a match begins, whether or not it got an address.
LEMMA MatchBegins ==
    ASSUME Owed, NEW n \in Nodes, NEW b \in Bids, Owner[b] = n, NEW a \in Tried(n, b),
           Elsewhere(n), AfterMatch(n, b, Tried(n, b), books'[n]),
           currentTX'[n][<<a, b>>] \in {Coordinator("book"), currentTX[n][<<a, b>>]},
           \/ ItemsFade(<<a, b>>)
           \/ OnlyItem(<<a, b>>, n, NextHop[n][a], Query(n, b, a)),
           a \in bid'[b].matched, UNCHANGED chain
    PROVE  OwedFor(<<a, b>>)'
<1>1. PICK id : id = <<a, b>>
  OBVIOUS
<1>2. PICK u \in Nodes : u = NextHop[n][a]
  BY TriedFacts
<1>3. PICK new : new = Query(n, b, a)
  OBVIOUS
<1>4. /\ id \in TxIds /\ id[1] = a /\ id[2] = b
      /\ Untouched(id) /\ NoToken(net, id) /\ Leads(n, u, id)
  BY <1>1, <1>2, TriedFacts
<1>5. new.tx = id /\ new.phase = "QUERY"
  BY <1>1, <1>3 DEF Query, Item
<1>6. OnlyItem(id, n, u, new)
  <2>1. CASE OnlyItem(<<a, b>>, n, NextHop[n][a], Query(n, b, a))
    BY <1>1, <1>2, <1>3, <2>1
  <2>2. CASE ItemsFade(id)
    BY <1>4, <2>2 DEF ItemsFade, OnlyItem, NoToken
  <2> QED
    BY <1>1, <2>1, <2>2
<1>7. IsOnRoute(n, u, new)'
  <2>1. Leads(n, u, id)'
    BY <1>4, RouteStays
  <2> QED
    BY <1>5, <2>1 DEF IsOnRoute
<1>8. PICK old, tm : /\ old = currentTX[n][id] /\ tm = currentTX'[n][id]
                     /\ tm = old \/ tm = Coordinator("book")
  BY <1>1
<1>9. Coordinator("book").role = "coordinator"
  BY DEF Coordinator
<1>10. IsManager(n, id, old) /\ HasVoted(n, id, books[n].contract)
  BY <1>4, <1>8, ManagerHas
<1>11. PICK c : c = books'[n]
  OBVIOUS
<1>12. /\ c.stored = books[n].stored
       /\ Payer(id) \in DOMAIN c.contract /\ c.contract[Payer(id)].peer = u
       /\ Payee(id) \in DOMAIN books[n].contract =>
             Payee(id) \in DOMAIN c.contract /\ c.contract[Payee(id)] = books[n].contract[Payee(id)]
  <2>1. \A x : Payee(id) # Payer(<<x, b>>)
    BY DEF Payer, Payee, Ref
  <2> QED
    BY <1>1, <1>2, <1>11, <2>1 DEF AfterMatch
<1>13. PaysNext(n, id)' /\ (GetsPaid(n, id) => GetsPaid(n, id)')
  <2>1. PaysNext(n, id)'
    BY <1>2, <1>4, <1>11, <1>12 DEF PaysNext, Payer
  <2>2. GetsPaid(n, id) => GetsPaid(n, id)'
    BY <1>11, <1>12, RouteStays DEF GetsPaid, Payee
  <2> QED
    BY <2>1, <2>2
<1>14. IsManager(n, id, tm)'
  <2>1. IsManager(n, id, old)'
    BY <1>10, <1>13, RouteStays DEF IsManager
  <2>2. IsManager(n, id, Coordinator("book"))'
    BY <1>4, <1>9, <1>13 DEF IsManager
  <2> QED
    BY <1>8, <2>1, <2>2
<1>15. IsManager(n, id, currentTX[n][id])'
  BY <1>8, <1>14
<1>16. ~Voted(n, id)' /\ (Waits(n, id)' => Waits(n, id) /\ currentTX'[n][id] = currentTX[n][id])
  BY <1>4, <1>8, <1>9 DEF Untouched, Voted, PassedVote, Waits
<1>17. HasVoted(n, id, books[n].contract)'
  BY <1>10, <1>16 DEF HasVoted, Voted
<1>18. \A row \in books'[n].stored : row.tx # id
  BY <1>4, <1>11, <1>12 DEF Untouched, HasRow
<1>19. id[1] \in bid'[id[2]].matched /\ (id \in chain' => id \in chain)
  BY <1>4
<1>20. Begins(n, id, u, new)
  BY <1>4, <1>5, <1>6, <1>7, <1>15, <1>16, <1>17, <1>18, <1>19 DEF Begins
<1>21. OwedFor(id)'
  BY <1>4, <1>20, BeginsKeeps
<1> QED
  BY <1>1, <1>21

\* The others.
LEMMA MatchSpares ==
    ASSUME Owed, NEW n \in Nodes, NEW b \in Bids, NEW tried, Elsewhere(n),
           AfterMatch(n, b, tried, books'[n]),
           NEW j \in TxIds, ~(j[2] = b /\ j[1] \in tried),
           currentTX'[n][j] = currentTX[n][j], ItemsFade(j),
           \A o \in Bids : bid[o].matched \subseteq bid'[o].matched, UNCHANGED chain
    PROVE  OwedFor(j)'
<1>1. \A party : \A a \in tried : Ref(j, party) # Payer(<<a, b>>)
  BY DEF Ref, Payer
<1>2. DealsStay(j, books[n].contract, books'[n].contract) /\ RowsFade(n, j)
  BY <1>1 DEF DealsStay, SameTerms, RowsFade, AfterMatch
<1>3. ASSUME NEW m \in Nodes
      PROVE  /\ ManagerFades(m, j, currentTX[m][j], currentTX'[m][j])
             /\ DealsStay(j, books[m].contract, books'[m].contract)
             /\ RowsFade(m, j)
  <2>1. CASE m = n
    BY <1>2, <2>1 DEF ManagerFades
  <2>2. CASE m # n
    <3>1. books'[m] = books[m] /\ currentTX'[m] = currentTX[m]
      BY <2>2 DEF Elsewhere
    <3> QED
      BY <3>1, SameDealsStay DEF ManagerFades
  <2> QED
    BY <2>1, <2>2
<1>4. j[2] \in Bids
  BY DEF TxIds
<1>5. Fades(j)
  BY <1>3, <1>4 DEF Fades
<1> QED
  BY <1>5, FadesKeeps DEF Owed

LEMMA MatchKeeps ==
    ASSUME Owed, NEW n \in Nodes, NEW b \in Bids, Match(n, b)
    PROVE  Owed'
<1>1. PICK tried : tried = Tried(n, b)
  OBVIOUS
<1>2. PICK asks \in SUBSET tried :
         /\ currentTX' = [currentTX EXCEPT ![n] = [id \in TxIds |->
                IF id[1] \in asks /\ id[2] = b THEN Coordinator("book") ELSE @[id]]]
         /\ net' = [net EXCEPT ![n] = [t \in Nodes |-> @[t] \o Queries(n, b, t, asks)]]
  BY <1>1 DEF Match
<1>3. PICK refs :
         books' = [books EXCEPT ![n] = NewSenders(@, refs,
                      [ref \in {Payer(<<a, b>>) : a \in tried} |->
                          Contract(NextHop[n][ref.tx[1]], Buy(n, b, ref.tx[1]))])]
  BY <1>1 DEF Match
<1>4. /\ Owner[b] = n
      /\ bid' = [bid EXCEPT ![b].locked = TRUE, ![b].matched = @ \cup tried]
      /\ UNCHANGED <<tunnels, chain>>
  BY <1>1 DEF Match
<1>5. \A a \in tried : /\ a \in Asks /\ <<a, b>> \in TxIds /\ NoToken(net, <<a, b>>)
                       /\ NextHop[n][a] \in Nodes
  BY <1>1, <1>4, TriedFacts
<1>6. tried \in SUBSET Asks /\ asks \in SUBSET Asks
  BY <1>5
<1>7. /\ Known(net')
      /\ \A id \in TxIds :
            /\ ~(id[2] = b /\ id[1] \in asks) => ItemsFade(id)
            /\ id[2] = b /\ id[1] \in asks =>
                  OnlyItem(id, n, NextHop[n][id[1]], Query(n, b, id[1]))
  <2>1. \A a \in asks : NoToken(net, <<a, b>>)
    BY <1>5
  <2>2. net' = [net EXCEPT ![n] = [t \in Nodes |-> net[n][t] \o Queries(n, b, t, asks)]]
    BY <1>2 DEF Owed, Shape, Known
  <2> QED
    BY <1>6, <2>1, <2>2, MatchLinks
<1>8. /\ ManagersKnown' /\ \A m \in Nodes : m # n => currentTX'[m] = currentTX[m]
      /\ \A id \in TxIds :
            currentTX'[n][id] = IF id[1] \in asks /\ id[2] = b THEN Coordinator("book")
                                ELSE currentTX[n][id]
  <2>1. ManagersKnown
    BY DEF Owed, Shape
  <2>2. currentTX' = [currentTX EXCEPT ![n] = [id \in TxIds |->
            IF id[1] \in asks /\ id[2] = b THEN Coordinator("book") ELSE @[id]]]
    BY <1>2
  <2> QED
    BY <1>6, <2>1, <2>2, MatchManagers
<1>9. /\ DOMAIN books' = Nodes /\ \A m \in Nodes : m # n => books'[m] = books[m]
      /\ AfterMatch(n, b, tried, books'[n])
  <2> DEFINE c == NewSenders(books[n], refs,
                      [ref \in {Payer(<<a, b>>) : a \in tried} |->
                          Contract(NextHop[n][ref.tx[1]], Buy(n, b, ref.tx[1]))])
  <2>1. DOMAIN books = Nodes
    BY DEF Owed, Shape
  <2>2. books' = [books EXCEPT ![n] = c]
    BY <1>3, <2>1
  <2>3. AfterMatch(n, b, tried, c)
    BY <1>6, MatchBook
  <2> HIDE DEF c
  <2> QED
    BY <2>1, <2>2, <2>3
<1>10. /\ BidsKnown' /\ \A o \in Bids : bid[o].matched \subseteq bid'[o].matched
       /\ tried \subseteq bid'[b].matched
  BY <1>4 DEF Owed, Shape, BidsKnown
<1>11. Elsewhere(n)
  BY <1>8, <1>9 DEF Elsewhere
<1>12. ASSUME NEW j \in TxIds
       PROVE  OwedFor(j)'
  <2>1. CASE j[2] = b /\ j[1] \in tried
    <3>1. PICK a \in Tried(n, b) : a = j[1] /\ j = <<a, b>>
      BY <1>1, <2>1 DEF TxIds
    <3>2. currentTX'[n][<<a, b>>] \in {Coordinator("book"), currentTX[n][<<a, b>>]}
      BY <1>8, <3>1
    <3>3. ItemsFade(<<a, b>>) \/ OnlyItem(<<a, b>>, n, NextHop[n][a], Query(n, b, a))
      BY <1>7, <2>1, <3>1
    <3>4. a \in bid'[b].matched
      BY <1>10, <2>1, <3>1
    <3>5. OwedFor(<<a, b>>)'
      BY <1>1, <1>4, <1>9, <1>11, <3>2, <3>3, <3>4, MatchBegins
    <3> QED
      BY <3>1, <3>5
  <2>2. CASE ~(j[2] = b /\ j[1] \in tried)
    <3>1. ~(j[2] = b /\ j[1] \in asks)
      BY <2>2
    <3> QED
      BY <1>4, <1>7, <1>8, <1>9, <1>10, <1>11, <2>2, <3>1, MatchSpares
  <2> QED
    BY <2>1, <2>2
<1>13. ASSUME NEW m \in Nodes
       PROVE  IsBook(books'[m])
  <2>1. CASE m = n
    BY <1>9, <2>1 DEF AfterMatch
  <2>2. CASE m # n
    BY <1>9, <2>2 DEF Owed, Shape
  <2> QED
    BY <2>1, <2>2
<1>14. Shape'
  BY <1>4, <1>7, <1>8, <1>9, <1>10, <1>13, SameTunnels DEF Shape
<1>15. (chain \subseteq TxIds)'
  BY <1>4 DEF Owed
<1> QED
  BY <1>12, <1>14, <1>15 DEF Owed

-----------------------------------------------------------------------------
(* The theorems.                                                           *)

LEMMA OwedAtFirst ==
    ASSUME Init
    PROVE  Owed
<1>1. /\ DOMAIN net = Nodes /\ \A f \in Nodes : DOMAIN net[f] = Nodes
      /\ \A f, t \in Nodes : net[f][t] = <<>>
  BY DEF Init
<1>2. \A f, t \in Nodes : Range(net[f][t]) = {} /\ DOMAIN net[f][t] = {}
  BY <1>1 DEF Range
<1>3. Known(net)
  <2>1. <<>> \in Seq({})
    OBVIOUS
  <2>2. \A f, t \in Nodes : net[f][t] \in Seq(Range(net[f][t]))
    <3>1. ASSUME NEW f \in Nodes, NEW t \in Nodes
          PROVE  net[f][t] = <<>> /\ Range(net[f][t]) = {}
      BY <1>1, <1>2
    <3> QED
      BY <2>1, <3>1
  <2> QED
    BY <1>1, <1>2, <2>2 DEF Known
<1>4. /\ DOMAIN books = Nodes
      /\ \A n \in Nodes : /\ DOMAIN books[n] = {"contract", "list", "stored", "credit"}
                          /\ DOMAIN books[n].contract = {} /\ books[n].stored = {}
  BY DEF Init
<1>5. \A n \in Nodes : IsBook(books[n])
  BY <1>4 DEF IsBook
<1>6. ManagersKnown /\ \A n \in Nodes, id \in TxIds : currentTX[n][id] = NoTM
  BY ManagersFit DEF Init, ManagersKnown
<1>7. TunnelsLead
  BY DEF Init, TunnelsLead, IsTunnel
<1>8. BidsKnown
  BY DEF Init, BidsKnown
<1>9. ASSUME NEW id \in TxIds
      PROVE  OwedFor(id)
  <2>1. \A n \in Nodes : /\ ~MayUndo(n, id) /\ ~Voted(n, id) /\ ~PassedVote(n, id)
                         /\ ~Waits(n, id) /\ ~HasRow(n, id)
                         /\ IsManager(n, id, currentTX[n][id])
    BY <1>4, <1>6 DEF NoTM, MayUndo, Voted, PassedVote, Waits, HasRow, IsManager
  <2>2. ItemsOnRoute(id) /\ OneToken(net, id) /\ NoToken(net, id)
    BY <1>2 DEF ItemsOnRoute, OneToken, NoToken
  <2>3. ManagersOnRoute(id)
    BY <2>1 DEF ManagersOnRoute, HasVoted
  <2>4. NothingBeforeMatch(id) /\ NothingBeforeVote(id) /\ NobodyWaitsBehind(id)
    BY <1>2, <2>1, <2>2
       DEF NothingBeforeMatch, NothingBeforeVote, NobodyWaitsBehind, Untouched
  <2>5. VotesAgree(id) /\ CommitsAreCovered(id)
    BY <1>2, <2>1 DEF VotesAgree, CommitsAreCovered
  <2>6. ReceiptsAreCovered(id)
    BY <1>4 DEF ReceiptsAreCovered, Receipts
  <2>7. ChainIsCovered(id)
    BY DEF Init, ChainIsCovered
  <2> QED
    BY <2>2, <2>3, <2>4, <2>5, <2>6, <2>7 DEF OwedFor
<1>10. chain \subseteq TxIds
  BY DEF Init
<1> QED
  BY <1>3, <1>4, <1>5, <1>6, <1>7, <1>8, <1>9, <1>10 DEF Owed, Shape

LEMMA HandlerKeeps ==
    ASSUME Owed, NEW n \in Nodes, NEW p \in Nodes, HandleTxItem(n, p)
    PROVE  Owed'
<1>1. CASE CoordinatorNo(n, p)
  BY <1>1, CoordinatorNoKeeps
<1>2. CASE CoordinatorYes(n, p)
  BY <1>2, CoordinatorYesKeeps
<1>3. CASE PayeeQuery(n, p)
  BY <1>3, PayeeQueryKeeps
<1>4. CASE PayeeCommit(n, p)
  BY <1>4, PayeeCommitKeeps
<1>5. CASE PayeeAbort(n, p)
  BY <1>5, PayeeAbortKeeps
<1>6. CASE PayeeUninitialised(n, p)
  BY <1>6, PayeeUninitialisedKeeps, DieKeeps
<1>7. CASE PayeeGone(n, p)
  BY <1>7, PayeeGoneKeeps
<1>8. CASE HopQuery(n, p)
  BY <1>8, HopQueryKeeps
<1>9. CASE HopVote(n, p)
  BY <1>9, HopVoteKeeps
<1>10. CASE HopCommit(n, p)
  BY <1>10, HopCommitKeeps
<1>11. CASE HopOutOfPhase(n, p)
  BY <1>11, HopOutOfPhaseKeeps
<1>12. CASE HopAbort(n, p)
  BY <1>12, HopAbortKeeps
<1>13. CASE HopAbortRequest(n, p)
  BY <1>13, HopAbortRequestKeeps
<1>14. CASE UseAfterFree(n, p)
  <2>1. Die(n)
    BY <1>14 DEF UseAfterFree
  <2> QED
    BY <2>1, DieKeeps
<1>15. CASE PayeeUnknownPhase(n, p)
  BY <1>15, PayeeUnknownPhaseKeeps
<1> QED
  BY <1>1, <1>2, <1>3, <1>4, <1>5, <1>6, <1>7, <1>8, <1>9, <1>10, <1>11, <1>12, <1>13,
     <1>14, <1>15 DEF HandleTxItem

LEMMA TimeoutKeeps ==
    ASSUME Owed, NEW n \in Nodes, NEW id \in TxIds, Timeout(n, id)
    PROVE  Owed'
<1>1. CASE Die(n)
  BY <1>1, DieKeeps
<1>2. CASE RollBackOnTimeout(n, id) /\ UNCHANGED <<tunnels, net, chain, outside>>
  BY <1>2, RollBackOnTimeoutKeeps
<1> QED
  BY <1>1, <1>2 DEF Timeout

LEMMA StepKeeps ==
    ASSUME Owed, Next
    PROVE  Owed'
<1>1. PICK n \in Nodes :
          \/ \E b \in Bids : Match(n, b)
          \/ \E p \in Nodes : HandleTxItem(n, p)
          \/ \E a \in Asks : LearnOrder(n, a)
          \/ \E o \in Asks \cup Bids : CancelOrder(n, o)
          \/ \E id \in TxIds : Timeout(n, id)
          \/ \E p \in Nodes : DropLink(n, p)
          \/ Crash(n)
  BY DEF Next
<1>2. CASE \E b \in Bids : Match(n, b)
  BY <1>2, MatchKeeps
<1>3. CASE \E p \in Nodes : HandleTxItem(n, p)
  BY <1>3, HandlerKeeps
<1>4. CASE \E a \in Asks : LearnOrder(n, a)
  BY <1>4, LearnOrderKeeps
<1>5. CASE \E o \in Asks \cup Bids : CancelOrder(n, o)
  BY <1>5, CancelOrderKeeps
<1>6. CASE \E id \in TxIds : Timeout(n, id)
  BY <1>6, TimeoutKeeps
<1>7. CASE \E p \in Nodes : DropLink(n, p)
  BY <1>7, DropLinkKeeps
<1>8. CASE Crash(n)
  <2>1. Die(n)
    BY <1>8 DEF Crash
  <2> QED
    BY <2>1, DieKeeps
<1> QED
  BY <1>1, <1>2, <1>3, <1>4, <1>5, <1>6, <1>7, <1>8

LEMMA StutterKeeps ==
    ASSUME Owed, UNCHANGED vars
    PROVE  Owed'
<1>1. /\ UNCHANGED <<books, tunnels, chain, bid, currentTX, net>>
  BY DEF vars
<1>2. Dwindle(net') /\ ManagersKnown' /\ BidsKnown'
  BY <1>1, SameLinks DEF Owed, Shape, ManagersKnown, BidsKnown
<1> QED
  BY <1>1, <1>2, QuietStep DEF ManagerFades

\* Owed is inductive: whatever happens in between, timeouts, crashes, lost
\* links and failing databases included, what a node stored about a payment
\* it is to receive rests on what the friend before it stored.
THEOREM OwedInvariant == Spec => []Owed
<1>1. Init => Owed
  BY OwedAtFirst
<1>2. Owed /\ [Next]_vars => Owed'
  BY StepKeeps, StutterKeeps
<1> QED
  BY <1>1, <1>2, PTL DEF Spec

LEMMA OwedGives ==
    ASSUME Owed
    PROVE  OwedAlongTheRoute
<1>1. ASSUME NEW id \in chain
      PROVE  \E row \in Receipts(Owner[id[1]]) : row.tx = id
  BY DEF Owed, OwedFor, ChainIsCovered
<1>2. ASSUME NEW n \in Nodes, NEW row \in Receipts(n)
      PROVE  /\ Promise(row.peer, row.tx, "sender", n, row.amount)
             /\ \/ Owner[row.tx[2]] = row.peer
                \/ \E before \in Nodes :
                      Promise(row.peer, row.tx, "receiver", before, row.amount)
  <2>1. PICK id : id = row.tx
    OBVIOUS
  <2>2. id \in TxIds
    BY <2>1 DEF Receipts, Owed, Shape, IsBook
  <2>3. Covers(row.peer, n, id, row.amount)
    BY <2>1, <2>2 DEF Owed, OwedFor, ReceiptsAreCovered
  <2> QED
    BY <2>1, <2>3 DEF Covers
<1> QED
  BY <1>1, <1>2 DEF OwedAlongTheRoute

\* Nobody in the chain of a transaction pays alone, for any number of friends,
\* orders and routes without circles, whatever fails: see OwedAlongTheRoute.
THEOREM NobodyPaysAlone == Spec => []OwedAlongTheRoute
<1>1. Owed => OwedAlongTheRoute
  BY OwedGives
<1> QED
  BY <1>1, OwedInvariant, PTL
=============================================================================
