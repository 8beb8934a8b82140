------------------------- MODULE SettlementFriends -------------------------
(***************************************************************************)
(* Why friends agree on their balance, whatever is granted, spent,         *)
(* settled, lost and reloaded in between, as long as they have no reason   *)
(* to differ and deals go one way between them: FriendsConcur is inductive *)
(* together with what AlwaysSound says.                                    *)
(***************************************************************************)
EXTENDS SettlementProofs

-----------------------------------------------------------------------------
(* Deals between two friends.                                              *)

\* A deal in which n pays p, as p sees it, and its two contracts.
LEMMA Partners ==
    ASSUME NEW n \in Nodes, NEW p \in Nodes, NEW d \in Deals
    PROVE  /\ d \in Bought(n, p) <=> IsPayee(p, d) /\ Prev(p, d) = n
           /\ d \in Bought(n, p) =>
                 /\ OwnRef(n, Debt(d)) /\ PeerOf(n, Debt(d)) = p
                 /\ OwnRef(p, Claim(d)) /\ PeerOf(p, Claim(d)) = n
                 /\ p \in Friends[n]
<1>1. Route[d] \in Seq(Nodes) /\ IsInjective(Route[d])
  BY RouteAssumption
<1> DEFINE i == Position(n, d)
           j == Position(p, d)
<1>2. On(n, d) => i \in 1..Len(Route[d]) /\ Route[d][i] = n
  BY PositionFacts
<1>3. On(p, d) => j \in 1..Len(Route[d]) /\ Route[d][j] = p
  BY PositionFacts
<1>4. ASSUME d \in Bought(n, p)
      PROVE  IsPayee(p, d) /\ Prev(p, d) = n
  <2>1. i \in 1..(Len(Route[d]) - 1) /\ Route[d][i] = n /\ Route[d][i + 1] = p
    BY <1>1, <1>2, <1>4 DEF Bought, IsPayer, Following
  <2>2. i + 1 \in DOMAIN Route[d] /\ On(p, d)
    BY <1>1, <2>1 DEF On, Range
  <2>3. j = i + 1
    BY <1>1, <1>3, <2>1, <2>2 DEF IsInjective
  <2>4. j > 1 /\ j - 1 = i
    BY <2>1, <2>3
  <2> QED
    BY <2>1, <2>2, <2>4 DEF IsPayee, Prev
<1>5. ASSUME IsPayee(p, d), Prev(p, d) = n
      PROVE  d \in Bought(n, p)
  <2>1. j \in 2..Len(Route[d]) /\ Route[d][j] = p /\ Route[d][j - 1] = n
    BY <1>1, <1>3, <1>5 DEF IsPayee, Prev
  <2>2. j - 1 \in DOMAIN Route[d] /\ On(n, d)
    BY <1>1, <2>1 DEF On, Range
  <2>3. i = j - 1
    BY <1>1, <1>2, <2>1, <2>2 DEF IsInjective
  <2>4. i < Len(Route[d]) /\ i + 1 = j
    BY <1>1, <2>1, <2>3
  <2> QED
    BY <2>1, <2>2, <2>4 DEF Bought, IsPayer, Following
<1>6. Debt(d).party = "sender" /\ Claim(d).party = "receiver"
      /\ Debt(d).tx = d /\ Claim(d).tx = d
  BY DEF Debt, Claim, Ref
<1>7. ASSUME d \in Bought(n, p)
      PROVE  /\ OwnRef(n, Debt(d)) /\ PeerOf(n, Debt(d)) = p
             /\ OwnRef(p, Claim(d)) /\ PeerOf(p, Claim(d)) = n
             /\ p \in Friends[n]
  <2>1. IsPayer(n, d) /\ Following(n, d) = p
    BY <1>7 DEF Bought
  <2> QED
    BY <1>4, <1>6, <1>7, <2>1, OwnRefs, Neighbours DEF PeerOf, Debt, Claim
<1> QED
  BY <1>4, <1>5, <1>7

\* Contracts with a friend are contracts of a deal with it.
LEMMA WithFriend ==
    ASSUME NEW n \in Nodes, NEW ref, OwnRef(n, ref)
    PROVE  LET p == PeerOf(n, ref)
               d == ref.tx
           IN /\ p \in Nodes /\ p \in Friends[n] /\ d \in Deals /\ ref \in AllRefs
              /\ ref.party = "sender" => ref = Debt(d) /\ d \in Bought(n, p)
              /\ ref.party = "receiver" => ref = Claim(d) /\ d \in Bought(p, n)
              /\ ref.party = "sender" \/ ref.party = "receiver"
<1>1. ref \in AllRefs /\ PeerOf(n, ref) \in Friends[n]
  BY OwnRefFacts DEF OwnRef
<1>2. PeerOf(n, ref) \in Nodes
  BY <1>1, FriendsAssumption
<1>3. ref.tx \in Deals /\ ref.party \in Parties /\ ref = Ref(ref.tx, ref.party)
  BY <1>1, RefFacts
<1>4. ref.party = "sender" => ref = Debt(ref.tx) /\ ref.tx \in Bought(n, PeerOf(n, ref))
  BY <1>3, OwnRefs DEF Debt, Bought, PeerOf
<1>5. ref.party = "receiver" => ref = Claim(ref.tx) /\ ref.tx \in Bought(PeerOf(n, ref), n)
  BY <1>2, <1>3, OwnRefs, Partners DEF Claim, PeerOf
<1> QED
  BY <1>1, <1>2, <1>3, <1>4, <1>5 DEF Parties

LEMMA BoughtFinite ==
    ASSUME NEW n, NEW p
    PROVE  IsFiniteSet(Bought(n, p)) /\ Bought(n, p) \subseteq Deals
<1>1. Bought(n, p) \subseteq Deals
  BY DEF Bought
<1> QED
  BY <1>1, RouteAssumption, FS_Subset

\* Contracts of different deals are different.
LEMMA ContractsDiffer ==
    ASSUME NEW d, NEW o
    PROVE  /\ Debt(d) = Debt(o) => d = o
           /\ Claim(d) = Claim(o) => d = o
           /\ Debt(d) # Claim(o)
           /\ Debt(d).tx = d /\ Claim(d).tx = d
           /\ Debt(d).party = "sender" /\ Claim(d).party = "receiver"
  BY DEF Debt, Claim, Ref

-----------------------------------------------------------------------------
(* What is added up for a pair.                                            *)

\* A desk as a round keeps it, whatever was agreed on.
Tidy(n, x) ==
    /\ SoundBook(n, x.book)
    /\ Explained(n, x.book, x.left)
    /\ \A q \in Nodes : x.left[q] \in Int
    /\ \A ref \in AllRefs : x.paid[ref] \in Nat /\ (IsTaken(x, ref) => ~IsOpen(x, ref))

LEMMA DeskIsTidy ==
    ASSUME NEW n \in Nodes, NEW x, DeskOK(n, x)
    PROVE  Tidy(n, x)
  BY DEF DeskOK, Tidy, PaidIsGone, IsTaken, IsOpen

\* What contracts are worth, and what is not open is worth nothing.
LEMMA ValueFacts ==
    ASSUME NEW n \in Nodes, NEW x, Tidy(n, x), NEW ref
    PROVE  Value(x, ref) \in Nat /\ (~IsOpen(x, ref) => Value(x, ref) = 0)
  BY OpenFacts DEF Tidy, Value, IsOpen

LEMMA RowTypes ==
    ASSUME NEW n \in Nodes, NEW x, Tidy(n, x), NEW q \in DOMAIN x.book.credit
    PROVE  /\ x.book.credit[q] \in CreditRecord
           /\ x.book.credit[q].balance \in Int /\ x.book.credit[q].allocation \in Int
           /\ x.book.credit[q].credit \in Int /\ x.book.credit[q].our_credit \in Int
           /\ MyAvailable(x.book.credit[q]) \in Int
           /\ PeerAvailable(x.book.credit[q]) \in Int
<1>1. x.book.credit[q] \in CreditRecord
  BY DEF Tidy, SoundBook, IsBook
<1> QED
  BY <1>1 DEF CreditRecord, MyAvailable, PeerAvailable

LEMMA DealFacts ==
    ASSUME NEW n \in Nodes, NEW p \in Nodes, NEW a, NEW b, Tidy(n, a), Tidy(p, b),
           NEW d \in Bought(n, p)
    PROVE  Lag(d, a, b) \in Int /\ Pending(d, a, b) \in Nat
<1>1. Value(a, Debt(d)) \in Nat /\ Value(b, Claim(d)) \in Nat
  BY ValueFacts
<1> QED
  BY <1>1 DEF Lag, Pending

LEMMA SumsFacts ==
    ASSUME NEW n \in Nodes, NEW p \in Nodes, NEW a, NEW b, Tidy(n, a), Tidy(p, b)
    PROVE  /\ Lags(n, p, a, b) \in Int /\ Pendings(n, p, a, b) \in Nat
           /\ \A d \in Bought(n, p) : Pending(d, a, b) <= Pendings(n, p, a, b)
<1> DEFINE S == Bought(n, p)
           f == [d \in S |-> Lag(d, a, b)]
           g == [d \in S |-> Pending(d, a, b)]
<1>1. IsFiniteSet(S)
  BY BoughtFinite
<1>2. /\ \A d \in S : f[d] \in Int /\ g[d] \in Nat /\ g[d] = Pending(d, a, b)
      /\ Lags(n, p, a, b) = SumFunctionOnSet(f, S)
      /\ Pendings(n, p, a, b) = SumFunctionOnSet(g, S)
  BY DealFacts DEF Lags, Pendings
<1> HIDE DEF S, f, g
<1>3. SumFunctionOnSet(f, S) \in Int /\ SumFunctionOnSet(g, S) \in Nat
  BY <1>1, <1>2, SumType, SumNat
<1>4. \A d \in S : g[d] <= SumFunctionOnSet(g, S)
  BY <1>1, <1>2, SumMember
<1> QED
  BY <1>2, <1>3, <1>4 DEF S

\* The desks of n and p before and after something happens.
BothTidy(n, p, a, b, c, e) == Tidy(n, a) /\ Tidy(p, b) /\ Tidy(n, c) /\ Tidy(p, e)

\* No lag changes, and nothing more is pending.
LEMMA SumsKept ==
    ASSUME NEW n \in Nodes, NEW p \in Nodes, NEW a, NEW b, NEW c, NEW e,
           BothTidy(n, p, a, b, c, e),
           \A d \in Bought(n, p) : /\ Lag(d, c, e) = Lag(d, a, b)
                                   /\ Pending(d, c, e) <= Pending(d, a, b)
    PROVE  /\ Lags(n, p, c, e) = Lags(n, p, a, b)
           /\ Pendings(n, p, c, e) <= Pendings(n, p, a, b)
<1> DEFINE S == Bought(n, p)
           f == [d \in S |-> Lag(d, a, b)]
           g == [d \in S |-> Lag(d, c, e)]
           k == [d \in S |-> Pending(d, a, b)]
           l == [d \in S |-> Pending(d, c, e)]
<1>1. IsFiniteSet(S)
  BY BoughtFinite
<1>2. \A d \in S : f[d] = g[d]
  OBVIOUS
<1>3. \A d \in S : k[d] \in Int /\ l[d] \in Int /\ l[d] <= k[d]
  <2>1. \A d \in S : Pending(d, a, b) \in Nat /\ Pending(d, c, e) \in Nat
    BY DealFacts DEF BothTidy
  <2> QED
    BY <2>1
<1>4. /\ Lags(n, p, a, b) = SumFunctionOnSet(f, S)
      /\ Lags(n, p, c, e) = SumFunctionOnSet(g, S)
      /\ Pendings(n, p, a, b) = SumFunctionOnSet(k, S)
      /\ Pendings(n, p, c, e) = SumFunctionOnSet(l, S)
  BY DEF Lags, Pendings
<1> HIDE DEF S, f, g, k, l
<1>5. SumFunctionOnSet(f, S) = SumFunctionOnSet(g, S)
  BY <1>1, <1>2, SumSame
<1>6. SumFunctionOnSet(l, S) <= SumFunctionOnSet(k, S)
  BY <1>1, <1>3, SumLeq
<1> QED
  BY <1>4, <1>5, <1>6

\* One deal changes.
LEMMA SumsMove ==
    ASSUME NEW n \in Nodes, NEW p \in Nodes, NEW a, NEW b, NEW c, NEW e,
           BothTidy(n, p, a, b, c, e), NEW x \in Bought(n, p),
           \A d \in Bought(n, p) : d # x => /\ Lag(d, c, e) = Lag(d, a, b)
                                            /\ Pending(d, c, e) = Pending(d, a, b)
    PROVE  /\ Lags(n, p, c, e) = Lags(n, p, a, b) + Lag(x, c, e) - Lag(x, a, b)
           /\ Pendings(n, p, c, e) =
                 Pendings(n, p, a, b) + Pending(x, c, e) - Pending(x, a, b)
<1> DEFINE S == Bought(n, p)
           f == [d \in S |-> Lag(d, a, b)]
           g == [d \in S |-> Lag(d, c, e)]
           k == [d \in S |-> Pending(d, a, b)]
           l == [d \in S |-> Pending(d, c, e)]
<1>1. IsFiniteSet(S)
  BY BoughtFinite
<1>2. \A d \in S : /\ f[d] \in Int /\ g[d] \in Int /\ (d # x => g[d] = f[d])
                   /\ k[d] \in Int /\ l[d] \in Int /\ (d # x => l[d] = k[d])
  <2>1. \A d \in S : /\ Pending(d, a, b) \in Nat /\ Pending(d, c, e) \in Nat
                     /\ Lag(d, a, b) \in Int /\ Lag(d, c, e) \in Int
    BY DealFacts DEF BothTidy
  <2> QED
    BY <2>1
<1>3. /\ Lags(n, p, a, b) = SumFunctionOnSet(f, S)
      /\ Lags(n, p, c, e) = SumFunctionOnSet(g, S)
      /\ Pendings(n, p, a, b) = SumFunctionOnSet(k, S)
      /\ Pendings(n, p, c, e) = SumFunctionOnSet(l, S)
  BY DEF Lags, Pendings
<1>4. /\ f[x] = Lag(x, a, b) /\ g[x] = Lag(x, c, e)
      /\ k[x] = Pending(x, a, b) /\ l[x] = Pending(x, c, e) /\ x \in S
  OBVIOUS
<1> HIDE DEF S, f, g, k, l
<1>5. SumFunctionOnSet(g, S) = SumFunctionOnSet(f, S) + g[x] - f[x]
  <2>1. \A d \in S : f[d] \in Int /\ g[d] \in Int /\ (d # x => g[d] = f[d])
    BY <1>2
  <2> QED
    BY <1>1, <1>4, <2>1, SumChange
<1>6. SumFunctionOnSet(l, S) = SumFunctionOnSet(k, S) + l[x] - k[x]
  <2>1. \A d \in S : k[d] \in Int /\ l[d] \in Int /\ (d # x => l[d] = k[d])
    BY <1>2
  <2> QED
    BY <1>1, <1>4, <2>1, SumChange
<1> QED
  BY <1>3, <1>4, <1>5, <1>6

\* What p has reserved for n is what the open claims are worth.
LEMMA ReservedForClaims ==
    ASSUME NEW n \in Nodes, NEW p \in Nodes, NEW b, Tidy(p, b)
    PROVE  Reserved(p, b.book, n) =
               SumFunctionOnSet([d \in Bought(n, p) |-> Value(b, Claim(d))], Bought(n, p))
<1> DEFINE S == Bought(n, p)
           R == ReceiversFrom(p, b.book, n)
           f == [d \in S |-> Value(b, Claim(d))]
           c == [d \in S |-> Claim(d)]
           g == [ref \in AllRefs |-> Value(b, ref)]
           h == [ref \in R |-> AmountOf(b.book, ref)]
           C == {c[d] : d \in S}
<1>1. IsFiniteSet(S) /\ S \subseteq Deals
  BY BoughtFinite
<1>2. \A d \in S : /\ Claim(d) \in AllRefs /\ PeerOf(p, Claim(d)) = n
                   /\ Claim(d).party = "receiver"
  BY <1>1, Partners, ContractsDiffer DEF OwnRef
<1>3. C \subseteq AllRefs
  BY <1>2
<1>4. IsFiniteSet(C)
  <2> HIDE DEF C
  <2> QED
    BY <1>3, AllRefsFinite, FS_Subset
<1>5. SumFunctionOnSet(g, C) = SumFunctionOnSet(f, S)
  <2>1. \A d \in S : f[d] \in Int /\ g[c[d]] = f[d]
    BY <1>2, ValueFacts
  <2>2. \A d, o \in S : c[d] = c[o] => d = o
    BY ContractsDiffer
  <2>3. IsFiniteSet({c[d] : d \in S})
    BY <1>4
  <2> HIDE DEF c, f, g, S
  <2> QED
    BY <1>1, <2>1, <2>2, <2>3, SumRenamed
<1>6. R \subseteq C
  <2> SUFFICES ASSUME NEW ref \in R
               PROVE  ref \in C
    OBVIOUS
  <2>1. ref \in Open(b.book) /\ ref.party = "receiver" /\ PeerOf(p, ref) = n
    BY DEF ReceiversFrom
  <2>2. OwnRef(p, ref)
    BY <2>1, OpenFacts DEF Tidy
  <2>3. ref = Claim(ref.tx) /\ ref.tx \in S
    BY <2>1, <2>2, WithFriend
  <2>4. c[ref.tx] = Claim(ref.tx)
    BY <2>3
  <2> HIDE DEF c, S
  <2> QED
    BY <2>3, <2>4
<1>7. \A ref \in R : g[ref] = h[ref] /\ IsOpen(b, ref)
  <2> SUFFICES ASSUME NEW ref \in R
               PROVE  g[ref] = h[ref] /\ IsOpen(b, ref)
    OBVIOUS
  <2>1. ref \in Open(b.book)
    BY DEF ReceiversFrom
  <2>2. ref \in AllRefs
    BY <2>1, OpenFacts DEF Tidy
  <2> QED
    BY <2>1, <2>2 DEF Value, IsOpen
<1>8. \A ref \in C \ R : g[ref] = 0
  <2> SUFFICES ASSUME NEW d \in S, Claim(d) \notin R
               PROVE  g[Claim(d)] = 0
    OBVIOUS
  <2>1. ~IsOpen(b, Claim(d))
    BY <1>2 DEF ReceiversFrom, IsOpen
  <2> QED
    BY <1>2, <2>1, ValueFacts
<1>9. Reserved(p, b.book, n) = SumFunctionOnSet(h, R)
  BY DEF Reserved, Worth
<1>10. \A ref \in C : g[ref] \in Int
  BY <1>3, ValueFacts
<1> HIDE DEF S, R, f, c, g, h, C
<1>11. SumFunctionOnSet(h, R) = SumFunctionOnSet(g, R)
  BY <1>4, <1>6, <1>7, FS_Subset, SumSame
<1>12. SumFunctionOnSet(g, C) = SumFunctionOnSet(g, R) + SumFunctionOnSet(g, C \ R)
  BY <1>4, <1>6, <1>10, SumSplit
<1>13. SumFunctionOnSet(g, C \ R) = 0
  <2>1. IsFiniteSet(C \ R)
    BY <1>4, FS_Subset, C \ R \subseteq C
  <2> QED
    BY <1>8, <2>1, SumZero
<1>14. SumFunctionOnSet(g, R) \in Int
  BY <1>4, <1>6, <1>10, FS_Subset, SumType
<1>15. Reserved(p, b.book, n) = SumFunctionOnSet(f, S)
  BY <1>5, <1>9, <1>11, <1>12, <1>13, <1>14
<1> QED
  BY <1>15 DEF f, S

\* Both see the same line: the payer can pay what is pending, and besides
\* what the payee finds is available.
LEMMA FundsSuffice ==
    ASSUME NEW n \in Nodes, NEW p \in Nodes, NEW a, NEW b, Tidy(n, a), Tidy(p, b),
           Matches(n, p, a, b), Bought(p, n) = {},
           a.book.credit[p].our_credit = b.book.credit[n].credit
    PROVE  PeerAvailable(b.book.credit[n]) + Pendings(n, p, a, b)
               <= MyAvailable(a.book.credit[p])
<1> DEFINE S == Bought(n, p)
           v == [d \in S |-> Value(b, Claim(d))]
           l == [d \in S |-> Lag(d, a, b)]
           k == [d \in S |-> Pending(d, a, b)]
           h == [d \in S |-> v[d] + l[d]]
           mine == a.book.credit[p]
           other == b.book.credit[n]
<1>1. IsFiniteSet(S) /\ S \subseteq Deals
  BY BoughtFinite
<1>2. ASSUME NEW d \in S
      PROVE  /\ v[d] \in Int /\ l[d] \in Int /\ k[d] \in Int
             /\ k[d] <= v[d] + l[d]
  <2> DEFINE x == Value(a, Debt(d))
             y == Value(b, Claim(d))
  <2>1. /\ x \in Nat /\ (~IsOpen(a, Debt(d)) => x = 0)
        /\ y \in Nat /\ (~IsOpen(b, Claim(d)) => y = 0)
    BY ValueFacts
  <2>2. IsOpen(a, Debt(d)) /\ IsOpen(b, Claim(d)) => x = y
    BY DEF Matches
  <2>3. /\ IsTaken(a, Debt(d)) => ~IsOpen(a, Debt(d))
        /\ IsTaken(b, Claim(d)) => ~IsOpen(b, Claim(d))
    <3>1. Debt(d) \in AllRefs /\ Claim(d) \in AllRefs
      BY <1>1, Partners DEF OwnRef
    <3> QED
      BY <3>1 DEF Tidy
  <2>4. v[d] = y /\ l[d] = Lag(d, a, b) /\ k[d] = Pending(d, a, b)
    OBVIOUS
  <2>5. Lag(d, a, b) = (IF IsTaken(b, Claim(d)) THEN x ELSE 0)
                           - (IF IsTaken(a, Debt(d)) THEN y ELSE 0)
    BY DEF Lag
  <2>6. Pending(d, a, b) = IF IsOpen(a, Debt(d)) /\ (IsOpen(b, Claim(d)) \/ IsTaken(b, Claim(d)))
                           THEN x ELSE 0
    BY DEF Pending, IsDue
  <2> HIDE DEF x, y, v, l, k
  <2> QED
    BY <2>1, <2>2, <2>3, <2>4, <2>5, <2>6
<1>3. \A d \in S : h[d] = v[d] + l[d]
  OBVIOUS
<1>4. /\ Reserved(p, b.book, n) = SumFunctionOnSet(v, S)
      /\ Lags(n, p, a, b) = SumFunctionOnSet(l, S)
      /\ Pendings(n, p, a, b) = SumFunctionOnSet(k, S)
  BY ReservedForClaims DEF Lags, Pendings
<1> HIDE DEF S, v, l, k, h
<1>5. SumFunctionOnSet(h, S) = SumFunctionOnSet(v, S) + SumFunctionOnSet(l, S)
  BY <1>1, <1>2, <1>3, SumLinear
<1>6. SumFunctionOnSet(k, S) <= SumFunctionOnSet(h, S)
  <2>1. \A d \in S : k[d] \in Int /\ h[d] \in Int /\ k[d] <= h[d]
    BY <1>2, <1>3
  <2> QED
    BY <1>1, <2>1, SumLeq
<1>7. SumFunctionOnSet(v, S) \in Int /\ SumFunctionOnSet(l, S) \in Int
      /\ SumFunctionOnSet(k, S) \in Int
  BY <1>1, <1>2, SumType
<1>8. p \in DOMAIN a.book.credit /\ n \in DOMAIN b.book.credit /\ b.left[n] >= 0
      /\ mine.balance + other.balance = SumFunctionOnSet(l, S)
  BY <1>4 DEF Matches, Covers
<1>9. other.allocation = SumFunctionOnSet(v, S) + b.left[n]
  BY <1>4, <1>8 DEF Tidy, Explained
<1>10. /\ mine.balance \in Int /\ mine.our_credit \in Int /\ other.balance \in Int
       /\ other.credit \in Int /\ other.allocation \in Int /\ b.left[n] \in Int
  BY <1>8, RowTypes DEF Tidy
<1>11. mine.our_credit = other.credit
  OBVIOUS
<1> HIDE DEF mine, other
<1>12. PeerAvailable(other) + SumFunctionOnSet(k, S) <= MyAvailable(mine)
  BY <1>5, <1>6, <1>7, <1>8, <1>9, <1>10, <1>11 DEF PeerAvailable, MyAvailable
<1> QED
  BY <1>4, <1>12 DEF mine, other

-----------------------------------------------------------------------------
(* What steps do to a pair.                                                *)

\* A contract is in y what it was in x, or it is no longer there.
Alike(x, y, ref) ==
    /\ IsOpen(y, ref) <=> IsOpen(x, ref)
    /\ IsTaken(y, ref) <=> IsTaken(x, ref)
    /\ Value(y, ref) = Value(x, ref)
Closes(x, y, ref) == ~IsTaken(x, ref) /\ ~IsTaken(y, ref) /\ ~IsOpen(y, ref)

\* A deal of which nobody took anything may lose its contracts, and others stay.
DealKept(d, a, b, c, e) ==
    \/ Alike(a, c, Debt(d)) /\ Alike(b, e, Claim(d))
    \/ /\ Alike(a, c, Debt(d)) \/ Closes(a, c, Debt(d))
       /\ Alike(b, e, Claim(d)) \/ Closes(b, e, Claim(d))
       /\ ~IsTaken(a, Debt(d)) /\ ~IsTaken(b, Claim(d))
RowsThere(n, p, c, e) ==
    /\ p \in DOMAIN c.book.credit /\ n \in DOMAIN e.book.credit
    /\ e.left[n] >= 0
FundsKept(n, p, a, b, c, e) ==
    LET mine == a.book.credit[p]
        other == b.book.credit[n]
        mineNow == c.book.credit[p]
        otherNow == e.book.credit[n]
    IN /\ mineNow.balance + otherNow.balance = mine.balance + other.balance
       /\ MyAvailable(mineNow) >= MyAvailable(mine)
       /\ PeerAvailable(otherNow) >= PeerAvailable(other)
Fades(n, p, a, b, c, e) ==
    /\ BothTidy(n, p, a, b, c, e)
    /\ RowsThere(n, p, c, e)
    /\ \A d \in Bought(n, p) : DealKept(d, a, b, c, e)
    /\ Bought(p, n) = {} => FundsKept(n, p, a, b, c, e)

\* For a deal that was kept, nothing more is late, pending or due.
LEMMA DealKeptFacts ==
    ASSUME NEW n \in Nodes, NEW p \in Nodes, NEW a, NEW b, NEW c, NEW e,
           BothTidy(n, p, a, b, c, e), Matches(n, p, a, b),
           NEW d \in Bought(n, p), DealKept(d, a, b, c, e)
    PROVE  /\ Lag(d, c, e) = Lag(d, a, b)
           /\ Pending(d, c, e) <= Pending(d, a, b)
           /\ IsDue(d, c, e) => IsDue(d, a, b)
           /\ IsOpen(e, Claim(d)) => IsOpen(b, Claim(d))
           /\ IsOpen(c, Debt(d)) /\ IsOpen(e, Claim(d)) =>
                 Value(c, Debt(d)) = Value(e, Claim(d))
<1>1. /\ Value(a, Debt(d)) \in Nat /\ (~IsOpen(a, Debt(d)) => Value(a, Debt(d)) = 0)
      /\ Value(b, Claim(d)) \in Nat /\ (~IsOpen(b, Claim(d)) => Value(b, Claim(d)) = 0)
      /\ Value(c, Debt(d)) \in Nat /\ (~IsOpen(c, Debt(d)) => Value(c, Debt(d)) = 0)
      /\ Value(e, Claim(d)) \in Nat /\ (~IsOpen(e, Claim(d)) => Value(e, Claim(d)) = 0)
  BY ValueFacts DEF BothTidy
<1>2. IsOpen(a, Debt(d)) /\ IsOpen(b, Claim(d)) => Value(a, Debt(d)) = Value(b, Claim(d))
  BY DEF Matches
<1> QED
  BY <1>1, <1>2 DEF DealKept, Alike, Closes, Lag, Pending, IsDue

LEMMA PairFades ==
    ASSUME NEW n \in Nodes, NEW p \in Nodes, NEW a, NEW b, NEW c, NEW e,
           Matches(n, p, a, b), Fades(n, p, a, b, c, e)
    PROVE  Matches(n, p, c, e)
<1> DEFINE mine == a.book.credit[p]
           other == b.book.credit[n]
           mineNow == c.book.credit[p]
           otherNow == e.book.credit[n]
<1>1. BothTidy(n, p, a, b, c, e) /\ RowsThere(n, p, c, e)
      /\ \A d \in Bought(n, p) : DealKept(d, a, b, c, e)
  BY DEF Fades
<1>2. \A d \in Bought(n, p) :
           /\ Lag(d, c, e) = Lag(d, a, b)
           /\ Pending(d, c, e) <= Pending(d, a, b)
           /\ IsDue(d, c, e) => IsDue(d, a, b)
           /\ IsOpen(e, Claim(d)) => IsOpen(b, Claim(d))
           /\ IsOpen(c, Debt(d)) /\ IsOpen(e, Claim(d)) =>
                 Value(c, Debt(d)) = Value(e, Claim(d))
  BY <1>1, DealKeptFacts
<1>3. /\ Lags(n, p, c, e) = Lags(n, p, a, b)
      /\ Pendings(n, p, c, e) <= Pendings(n, p, a, b)
  BY <1>1, <1>2, SumsKept
<1>4. Pendings(n, p, a, b) \in Nat /\ Pendings(n, p, c, e) \in Nat
  BY <1>1, SumsFacts DEF BothTidy
<1>5. ASSUME Bought(p, n) = {}
      PROVE  Covers(n, p, c, e)
  <2>1. Covers(n, p, a, b) /\ FundsKept(n, p, a, b, c, e)
    BY <1>5 DEF Matches, Fades
  <2>2. /\ MyAvailable(mine) \in Int /\ MyAvailable(mineNow) \in Int
        /\ PeerAvailable(other) \in Int /\ PeerAvailable(otherNow) \in Int
    BY <1>1, RowTypes DEF BothTidy, Matches, RowsThere
  <2>3. /\ mineNow.balance + otherNow.balance = Lags(n, p, a, b)
        /\ MyAvailable(mineNow) >= MyAvailable(mine)
        /\ PeerAvailable(otherNow) >= PeerAvailable(other)
        /\ (\E d \in Bought(n, p) : IsOpen(b, Claim(d))) => PeerAvailable(other) >= 0
        /\ (\E d \in Bought(n, p) : IsDue(d, a, b)) =>
              Pendings(n, p, a, b) <= MyAvailable(mine)
    BY <2>1 DEF Covers, FundsKept
  <2> HIDE DEF mine, other, mineNow, otherNow
  <2>4. (\E d \in Bought(n, p) : IsOpen(e, Claim(d))) => PeerAvailable(otherNow) >= 0
    BY <1>2, <2>2, <2>3
  <2>5. (\E d \in Bought(n, p) : IsDue(d, c, e)) =>
              Pendings(n, p, c, e) <= MyAvailable(mineNow)
    BY <1>2, <1>3, <1>4, <2>2, <2>3
  <2> QED
    BY <1>3, <2>3, <2>4, <2>5 DEF Covers, mineNow, otherNow
<1> QED
  BY <1>1, <1>2, <1>5 DEF Matches, RowsThere

\* p books what n owes it for x.
PayeeBooks(n, p, a, b, e, x) ==
    /\ BothTidy(n, p, a, b, a, e)
    /\ RowsThere(n, p, a, e)
    /\ \A d \in Bought(n, p) : d # x => Alike(b, e, Claim(d))
    /\ x \in Bought(n, p) /\ IsOpen(b, Claim(x)) /\ IsTaken(e, Claim(x))
    /\ IsOpen(a, Debt(x)) \/ IsTaken(a, Debt(x))
    /\ e.book.credit[n].balance = b.book.credit[n].balance + Value(b, Claim(x))
    /\ PeerAvailable(b.book.credit[n]) >= 0 => PeerAvailable(e.book.credit[n]) >= 0

LEMMA PayeeTakes ==
    ASSUME NEW n \in Nodes, NEW p \in Nodes, NEW a, NEW b, NEW e, NEW x,
           Matches(n, p, a, b), PayeeBooks(n, p, a, b, e, x)
    PROVE  Matches(n, p, a, e)
<1> DEFINE mine == a.book.credit[p]
           other == b.book.credit[n]
           otherNow == e.book.credit[n]
           v == Value(a, Debt(x))
           w == Value(b, Claim(x))
<1>1. /\ BothTidy(n, p, a, b, a, e) /\ x \in Bought(n, p) /\ x \in Deals
      /\ Debt(x) \in AllRefs /\ Claim(x) \in AllRefs
  BY BoughtFinite, Partners DEF PayeeBooks, OwnRef
<1>2. /\ v \in Nat /\ (~IsOpen(a, Debt(x)) => v = 0)
      /\ w \in Nat
      /\ Value(e, Claim(x)) = 0
      /\ IsOpen(b, Claim(x)) /\ IsTaken(e, Claim(x)) /\ ~IsOpen(e, Claim(x))
      /\ ~IsTaken(b, Claim(x))
      /\ IsTaken(a, Debt(x)) <=> ~IsOpen(a, Debt(x))
  BY <1>1, ValueFacts DEF BothTidy, PayeeBooks, Tidy
<1>3. IsOpen(a, Debt(x)) => v = w
  BY <1>1, <1>2 DEF Matches
<1>4. /\ Lag(x, a, e) = Lag(x, a, b) + w
      /\ Pending(x, a, e) = Pending(x, a, b)
      /\ IsDue(x, a, e) => IsDue(x, a, b)
  BY <1>2, <1>3 DEF Lag, Pending, IsDue
<1>5. \A d \in Bought(n, p) : d # x =>
           /\ Lag(d, a, e) = Lag(d, a, b)
           /\ Pending(d, a, e) = Pending(d, a, b)
           /\ IsDue(d, a, e) => IsDue(d, a, b)
           /\ IsOpen(e, Claim(d)) => IsOpen(b, Claim(d))
           /\ IsOpen(e, Claim(d)) => Value(e, Claim(d)) = Value(b, Claim(d))
  BY DEF PayeeBooks, Alike, Lag, Pending, IsDue
<1>6. /\ Lags(n, p, a, e) = Lags(n, p, a, b) + Lag(x, a, e) - Lag(x, a, b)
      /\ Pendings(n, p, a, e) = Pendings(n, p, a, b) + Pending(x, a, e) - Pending(x, a, b)
  BY <1>1, <1>5, SumsMove
<1>7. /\ Pendings(n, p, a, b) \in Nat /\ Lags(n, p, a, b) \in Int
      /\ Lag(x, a, b) \in Int /\ Pending(x, a, b) \in Int
  BY <1>1, SumsFacts, DealFacts DEF BothTidy
<1>8. ASSUME Bought(p, n) = {}
      PROVE  Covers(n, p, a, e)
  <2>1. /\ mine.balance + other.balance = Lags(n, p, a, b)
        /\ (\E d \in Bought(n, p) : IsOpen(b, Claim(d))) => PeerAvailable(other) >= 0
        /\ (\E d \in Bought(n, p) : IsDue(d, a, b)) =>
              Pendings(n, p, a, b) <= MyAvailable(mine)
    BY <1>8 DEF Matches, Covers
  <2>2. /\ otherNow.balance = other.balance + w
        /\ PeerAvailable(other) >= 0 => PeerAvailable(otherNow) >= 0
    BY DEF PayeeBooks
  <2>3. mine.balance \in Int /\ other.balance \in Int
    BY <1>1, RowTypes DEF BothTidy, Matches
  <2>4. (\E d \in Bought(n, p) : IsDue(d, a, e)) => (\E d \in Bought(n, p) : IsDue(d, a, b))
    BY <1>4, <1>5
  <2> HIDE DEF mine, other, otherNow, w
  <2>5. mine.balance + otherNow.balance = Lags(n, p, a, e)
    BY <1>2, <1>4, <1>6, <1>7, <2>1, <2>2, <2>3
  <2>6. Pendings(n, p, a, e) = Pendings(n, p, a, b)
    BY <1>4, <1>6, <1>7
  <2>7. PeerAvailable(otherNow) >= 0
    BY <1>1, <1>2, <2>1, <2>2
  <2> QED
    BY <2>1, <2>4, <2>5, <2>6, <2>7 DEF Covers, mine, otherNow
<1>9. \A d \in Bought(n, p) : IsOpen(a, Debt(d)) /\ IsOpen(e, Claim(d)) =>
           Value(a, Debt(d)) = Value(e, Claim(d))
  BY <1>2, <1>5 DEF Matches
<1> QED
  BY <1>8, <1>9 DEF Matches, PayeeBooks, RowsThere

\* n books what it owes p for x.
PayerBooks(n, p, a, b, c, x) ==
    /\ BothTidy(n, p, a, b, c, b)
    /\ RowsThere(n, p, c, b)
    /\ \A d \in Bought(n, p) : d # x => Alike(a, c, Debt(d))
    /\ x \in Bought(n, p) /\ IsOpen(a, Debt(x)) /\ IsTaken(c, Debt(x))
    /\ IsOpen(b, Claim(x)) \/ IsTaken(b, Claim(x))
    /\ c.book.credit[p].balance = a.book.credit[p].balance - Value(a, Debt(x))
    /\ c.book.credit[p].our_credit = a.book.credit[p].our_credit

LEMMA PayerTakes ==
    ASSUME NEW n \in Nodes, NEW p \in Nodes, NEW a, NEW b, NEW c, NEW x,
           Matches(n, p, a, b), PayerBooks(n, p, a, b, c, x)
    PROVE  Matches(n, p, c, b)
<1> DEFINE mine == a.book.credit[p]
           other == b.book.credit[n]
           mineNow == c.book.credit[p]
           v == Value(a, Debt(x))
           w == Value(b, Claim(x))
<1>1. /\ BothTidy(n, p, a, b, c, b) /\ x \in Bought(n, p) /\ x \in Deals
      /\ Debt(x) \in AllRefs /\ Claim(x) \in AllRefs
  BY BoughtFinite, Partners DEF PayerBooks, OwnRef
<1>2. /\ w \in Nat /\ (~IsOpen(b, Claim(x)) => w = 0)
      /\ v \in Nat
      /\ Value(c, Debt(x)) = 0
      /\ IsOpen(a, Debt(x)) /\ IsTaken(c, Debt(x)) /\ ~IsOpen(c, Debt(x))
      /\ ~IsTaken(a, Debt(x))
      /\ IsTaken(b, Claim(x)) <=> ~IsOpen(b, Claim(x))
  BY <1>1, ValueFacts DEF BothTidy, PayerBooks, Tidy
<1>3. IsOpen(b, Claim(x)) => v = w
  BY <1>1, <1>2 DEF Matches
<1>4. /\ Lag(x, c, b) = Lag(x, a, b) - v
      /\ Pending(x, c, b) = 0 /\ Pending(x, a, b) = v
      /\ IsDue(x, a, b) /\ ~IsDue(x, c, b)
  BY <1>2, <1>3 DEF Lag, Pending, IsDue
<1>5. \A d \in Bought(n, p) : d # x =>
           /\ Lag(d, c, b) = Lag(d, a, b)
           /\ Pending(d, c, b) = Pending(d, a, b)
           /\ IsDue(d, c, b) => IsDue(d, a, b)
           /\ IsOpen(c, Debt(d)) => IsOpen(a, Debt(d))
           /\ IsOpen(c, Debt(d)) => Value(c, Debt(d)) = Value(a, Debt(d))
  BY DEF PayerBooks, Alike, Lag, Pending, IsDue
<1>6. /\ Lags(n, p, c, b) = Lags(n, p, a, b) + Lag(x, c, b) - Lag(x, a, b)
      /\ Pendings(n, p, c, b) = Pendings(n, p, a, b) + Pending(x, c, b) - Pending(x, a, b)
  BY <1>1, <1>5, SumsMove
<1>7. /\ Pendings(n, p, a, b) \in Nat /\ Lags(n, p, a, b) \in Int
      /\ Lag(x, a, b) \in Int
  BY <1>1, SumsFacts, DealFacts DEF BothTidy
<1>8. ASSUME Bought(p, n) = {}
      PROVE  Covers(n, p, c, b)
  <2>1. /\ mine.balance + other.balance = Lags(n, p, a, b)
        /\ (\E d \in Bought(n, p) : IsOpen(b, Claim(d))) => PeerAvailable(other) >= 0
        /\ Pendings(n, p, a, b) <= MyAvailable(mine)
    BY <1>1, <1>4, <1>8 DEF Matches, Covers
  <2>2. /\ mineNow.balance = mine.balance - v
        /\ mineNow.our_credit = mine.our_credit
    BY DEF PayerBooks
  <2>3. mine.balance \in Int /\ other.balance \in Int /\ mine.our_credit \in Int
    BY <1>1, RowTypes DEF BothTidy, Matches
  <2> HIDE DEF mine, other, mineNow, v
  <2>4. mineNow.balance + other.balance = Lags(n, p, c, b)
    BY <1>2, <1>4, <1>6, <1>7, <2>1, <2>2, <2>3
  <2>5. Pendings(n, p, c, b) <= MyAvailable(mineNow)
    BY <1>2, <1>4, <1>6, <1>7, <2>1, <2>2, <2>3 DEF MyAvailable
  <2> QED
    BY <2>1, <2>4, <2>5 DEF Covers, mineNow, other
<1>9. \A d \in Bought(n, p) : IsOpen(c, Debt(d)) /\ IsOpen(b, Claim(d)) =>
           Value(c, Debt(d)) = Value(b, Claim(d))
  BY <1>2, <1>5 DEF Matches
<1> QED
  BY <1>8, <1>9 DEF Matches, PayerBooks, RowsThere

\* n and p make contracts for a deal x over amount.
MakesDeal(n, p, a, b, c, e, x, amount) ==
    /\ BothTidy(n, p, a, b, c, e)
    /\ RowsThere(n, p, c, e)
    /\ \A d \in Bought(n, p) : d # x => Alike(a, c, Debt(d)) /\ Alike(b, e, Claim(d))
    /\ x \in Bought(n, p)
    /\ ~IsOpen(a, Debt(x)) /\ ~IsTaken(a, Debt(x))
    /\ ~IsOpen(b, Claim(x)) /\ ~IsTaken(b, Claim(x))
    /\ IsOpen(c, Debt(x)) /\ ~IsTaken(c, Debt(x)) /\ Value(c, Debt(x)) = amount
    /\ IsOpen(e, Claim(x)) /\ ~IsTaken(e, Claim(x)) /\ Value(e, Claim(x)) = amount
    /\ c.book.credit[p] = a.book.credit[p]
    /\ e.book.credit[n].balance = b.book.credit[n].balance
    /\ PeerAvailable(e.book.credit[n]) = PeerAvailable(b.book.credit[n]) - amount
    /\ amount <= PeerAvailable(b.book.credit[n])
    /\ a.book.credit[p].our_credit = b.book.credit[n].credit

LEMMA DealMade ==
    ASSUME NEW n \in Nodes, NEW p \in Nodes, NEW a, NEW b, NEW c, NEW e, NEW x,
           NEW amount, Matches(n, p, a, b), MakesDeal(n, p, a, b, c, e, x, amount)
    PROVE  Matches(n, p, c, e)
<1> DEFINE mine == a.book.credit[p]
           other == b.book.credit[n]
           otherNow == e.book.credit[n]
<1>1. BothTidy(n, p, a, b, c, e) /\ x \in Bought(n, p) /\ amount \in Nat
  BY ValueFacts DEF MakesDeal, BothTidy
<1>2. /\ Lag(x, a, b) = 0 /\ Lag(x, c, e) = 0
      /\ Pending(x, a, b) = 0 /\ Pending(x, c, e) = amount
  BY DEF MakesDeal, Lag, Pending, IsDue
<1>3. \A d \in Bought(n, p) : d # x =>
           /\ Lag(d, c, e) = Lag(d, a, b)
           /\ Pending(d, c, e) = Pending(d, a, b)
  BY DEF MakesDeal, Alike, Lag, Pending, IsDue
<1>4. /\ Lags(n, p, c, e) = Lags(n, p, a, b) + Lag(x, c, e) - Lag(x, a, b)
      /\ Pendings(n, p, c, e) = Pendings(n, p, a, b) + Pending(x, c, e) - Pending(x, a, b)
  BY <1>1, <1>3, SumsMove
<1>5. Pendings(n, p, a, b) \in Nat /\ Lags(n, p, a, b) \in Int
  BY <1>1, SumsFacts DEF BothTidy
<1>6. ASSUME Bought(p, n) = {}
      PROVE  Covers(n, p, c, e)
  <2>1. /\ mine.balance + other.balance = Lags(n, p, a, b)
        /\ otherNow.balance = other.balance
        /\ PeerAvailable(otherNow) = PeerAvailable(other) - amount
        /\ amount <= PeerAvailable(other)
        /\ mine.our_credit = other.credit /\ c.book.credit[p] = mine
    BY <1>6 DEF Matches, Covers, MakesDeal
  <2>2. PeerAvailable(other) + Pendings(n, p, a, b) <= MyAvailable(mine)
    BY <1>1, <1>6, <2>1, FundsSuffice DEF BothTidy
  <2>3. PeerAvailable(other) \in Int /\ MyAvailable(mine) \in Int
    BY <1>1, RowTypes DEF BothTidy, Matches
  <2> HIDE DEF mine, other, otherNow
  <2>4. PeerAvailable(otherNow) >= 0
    BY <1>1, <2>1, <2>3
  <2>5. Pendings(n, p, c, e) <= MyAvailable(mine)
    BY <1>1, <1>2, <1>4, <1>5, <2>1, <2>2, <2>3
  <2>6. mine.balance + otherNow.balance = Lags(n, p, c, e)
    BY <1>2, <1>4, <1>5, <2>1
  <2> QED
    BY <2>1, <2>4, <2>5, <2>6 DEF Covers, otherNow
<1>7. \A d \in Bought(n, p) : IsOpen(c, Debt(d)) /\ IsOpen(e, Claim(d)) =>
           Value(c, Debt(d)) = Value(e, Claim(d))
  BY DEF Matches, MakesDeal, Alike
<1> QED
  BY <1>6, <1>7 DEF Matches, MakesDeal, RowsThere

\* n pays p something beside the deals.
Pays(n, p, a, b, c, e, amount) ==
    /\ BothTidy(n, p, a, b, c, e)
    /\ RowsThere(n, p, c, e)
    /\ \A d \in Bought(n, p) : Alike(a, c, Debt(d)) /\ Alike(b, e, Claim(d))
    /\ amount \in Int
    /\ c.book.credit[p] = Spent(a.book.credit[p], amount)
    /\ e.book.credit[n] = Received(b.book.credit[n], amount)
    /\ amount <= PeerAvailable(b.book.credit[n])
    /\ a.book.credit[p].our_credit = b.book.credit[n].credit

LEMMA PairPays ==
    ASSUME NEW n \in Nodes, NEW p \in Nodes, NEW a, NEW b, NEW c, NEW e,
           NEW amount, Matches(n, p, a, b), Pays(n, p, a, b, c, e, amount)
    PROVE  Matches(n, p, c, e)
<1> DEFINE mine == a.book.credit[p]
           other == b.book.credit[n]
           mineNow == c.book.credit[p]
           otherNow == e.book.credit[n]
<1>1. BothTidy(n, p, a, b, c, e) /\ amount \in Int
  BY DEF Pays
<1>2. \A d \in Bought(n, p) : DealKept(d, a, b, c, e)
  BY DEF Pays, DealKept
<1>3. \A d \in Bought(n, p) :
           /\ Lag(d, c, e) = Lag(d, a, b)
           /\ Pending(d, c, e) <= Pending(d, a, b)
           /\ IsOpen(c, Debt(d)) /\ IsOpen(e, Claim(d)) =>
                 Value(c, Debt(d)) = Value(e, Claim(d))
  BY <1>1, <1>2, DealKeptFacts
<1>4. /\ Lags(n, p, c, e) = Lags(n, p, a, b)
      /\ Pendings(n, p, c, e) <= Pendings(n, p, a, b)
  BY <1>1, <1>3, SumsKept
<1>5. Pendings(n, p, a, b) \in Nat /\ Pendings(n, p, c, e) \in Nat
  BY <1>1, SumsFacts DEF BothTidy
<1>6. ASSUME Bought(p, n) = {}
      PROVE  Covers(n, p, c, e)
  <2>1. /\ mine.balance + other.balance = Lags(n, p, a, b)
        /\ mineNow = Spent(mine, amount) /\ otherNow = Received(other, amount)
        /\ amount <= PeerAvailable(other)
        /\ mine.our_credit = other.credit
    BY <1>6 DEF Matches, Covers, Pays
  <2>2. PeerAvailable(other) + Pendings(n, p, a, b) <= MyAvailable(mine)
    BY <1>1, <1>6, <2>1, FundsSuffice DEF BothTidy
  <2>3. mine \in CreditRecord /\ other \in CreditRecord
    BY <1>1, RowTypes DEF BothTidy, Matches
  <2> HIDE DEF mine, other, mineNow, otherNow
  <2>4. /\ mineNow.balance = mine.balance - amount
        /\ mineNow.our_credit = mine.our_credit
        /\ otherNow.balance = other.balance + amount
        /\ otherNow.credit = other.credit /\ otherNow.allocation = other.allocation
    BY <2>1, <2>3 DEF Spent, Received, CreditRecord
  <2>5. /\ mine.balance \in Int /\ mine.our_credit \in Int /\ other.balance \in Int
        /\ other.credit \in Int /\ other.allocation \in Int
    BY <2>3 DEF CreditRecord
  <2>6. PeerAvailable(otherNow) >= 0
    BY <1>1, <2>1, <2>4, <2>5 DEF PeerAvailable
  <2>7. Pendings(n, p, c, e) <= MyAvailable(mineNow)
    BY <1>1, <1>4, <1>5, <2>1, <2>2, <2>4, <2>5 DEF PeerAvailable, MyAvailable
  <2>8. mineNow.balance + otherNow.balance = Lags(n, p, c, e)
    BY <1>1, <1>4, <2>1, <2>4, <2>5
  <2> QED
    BY <2>6, <2>7, <2>8 DEF Covers, mineNow, otherNow
<1> QED
  BY <1>3, <1>6 DEF Matches, Pays, RowsThere

-----------------------------------------------------------------------------
(* What one desk does to a pair.                                           *)

\* The books of n and p, either of whom may pay the other.
Agreeing(n, p, x, y, became) ==
    /\ Matches(n, p, x, y) /\ AreFirm(n, p, x, y, became)
    /\ Matches(p, n, y, x) /\ AreFirm(p, n, y, x, became)

LEMMA AgreeingBothWays ==
    ASSUME NEW n, NEW p, NEW x, NEW y, NEW became, Agreeing(n, p, x, y, became)
    PROVE  Agreeing(p, n, y, x, became)
  BY DEF Agreeing

\* What is taken was paid for in Bitcoins.
IsPaidFor(x, became) == \A ref \in AllRefs : IsTaken(x, ref) => became[ref.tx] # "waiting"

\* n's contracts with p.
WithPeer(n, p) == {ref \in AllRefs : OwnRef(n, ref) /\ PeerOf(n, ref) = p}

\* Nothing of what n has with p got worse, but that contracts went of which
\* nobody took anything.
RowFades(x, y, p) ==
    /\ p \in DOMAIN y.book.credit
    /\ LET old == x.book.credit[p]
           new == y.book.credit[p]
       IN /\ new.balance = old.balance
          /\ MyAvailable(new) >= MyAvailable(old)
          /\ PeerAvailable(new) >= PeerAvailable(old)
Stays(x, y, ref) == Alike(x, y, ref) /\ (IsFirm(x, ref) => IsFirm(y, ref))
Quiet(n, p, x, y, became) ==
    /\ p \in DOMAIN x.book.credit => RowFades(x, y, p)
    /\ y.left[p] >= x.left[p]
    /\ \A ref \in WithPeer(n, p) :
          \/ Stays(x, y, ref)
          \/ Closes(x, y, ref) /\ became[ref.tx] = "waiting"

\* n booked ref, a contract with p.
Takes(n, p, x, y, ref, became) ==
    /\ ref \in WithPeer(n, p) /\ IsOpen(x, ref) /\ IsTaken(y, ref)
    /\ became[ref.tx] # "waiting"
    /\ \A r \in WithPeer(n, p) : r # ref => Stays(x, y, r)
    /\ y.left[p] >= x.left[p] /\ p \in DOMAIN y.book.credit
    /\ LET old == x.book.credit[p]
           new == y.book.credit[p]
       IN \/ /\ ref.party = "sender"
             /\ new.balance = old.balance - Value(x, ref)
             /\ new.our_credit = old.our_credit
          \/ /\ ref.party = "receiver"
             /\ new.balance = old.balance + Value(x, ref)
             /\ PeerAvailable(old) >= 0 => PeerAvailable(new) >= 0

\* Contracts of deals are contracts with the friend.
LEMMA DealRefs ==
    ASSUME NEW n \in Nodes, NEW p \in Nodes, NEW d \in Bought(n, p)
    PROVE  /\ d \in Deals /\ Debt(d) \in WithPeer(n, p) /\ Claim(d) \in WithPeer(p, n)
           /\ Debt(d).tx = d /\ Claim(d).tx = d
  BY BoughtFinite, Partners, ContractsDiffer DEF WithPeer, OwnRef

LEMMA QuietStep ==
    ASSUME NEW n \in Nodes, NEW p \in Nodes, NEW x, NEW y, NEW o, NEW became,
           BothTidy(n, p, x, o, y, o), IsPaidFor(o, became),
           Agreeing(n, p, x, o, became), Quiet(n, p, x, y, became)
    PROVE  Agreeing(n, p, y, o, became)
<1> DEFINE old == x.book.credit[p]
           new == y.book.credit[p]
<1>1. /\ Matches(n, p, x, o) /\ Matches(p, n, o, x)
      /\ AreFirm(n, p, x, o, became) /\ AreFirm(p, n, o, x, became)
  BY DEF Agreeing
<1>2. /\ p \in DOMAIN x.book.credit /\ p \in DOMAIN y.book.credit
      /\ n \in DOMAIN o.book.credit /\ o.left[n] >= 0 /\ y.left[p] >= 0
      /\ new.balance = old.balance
      /\ MyAvailable(new) >= MyAvailable(old) /\ PeerAvailable(new) >= PeerAvailable(old)
  <2>1. /\ p \in DOMAIN x.book.credit /\ n \in DOMAIN o.book.credit
        /\ o.left[n] >= 0 /\ x.left[p] >= 0
    BY <1>1 DEF Matches
  <2>2. x.left[p] \in Int /\ y.left[p] \in Int
    BY DEF BothTidy, Tidy
  <2> QED
    BY <2>1, <2>2 DEF Quiet, RowFades
<1>3. /\ MyAvailable(o.book.credit[n]) \in Int /\ PeerAvailable(o.book.credit[n]) \in Int
      /\ MyAvailable(old) \in Int /\ PeerAvailable(old) \in Int
      /\ MyAvailable(new) \in Int /\ PeerAvailable(new) \in Int
      /\ old.balance \in Int /\ o.book.credit[n].balance \in Int
  BY <1>2, RowTypes DEF BothTidy
<1>4. ASSUME NEW d \in Bought(n, p)
      PROVE  /\ Alike(o, o, Claim(d))
             /\ Stays(x, y, Debt(d)) \/ (Closes(x, y, Debt(d)) /\ became[d] = "waiting")
             /\ became[d] = "waiting" => ~IsTaken(o, Claim(d))
  <2>1. Debt(d) \in WithPeer(n, p) /\ Claim(d) \in AllRefs
        /\ Debt(d).tx = d /\ Claim(d).tx = d
    BY DealRefs DEF WithPeer
  <2> QED
    BY <2>1 DEF Quiet, IsPaidFor, Alike
<1>5. ASSUME NEW d \in Bought(p, n)
      PROVE  /\ Alike(o, o, Debt(d))
             /\ Stays(x, y, Claim(d)) \/ (Closes(x, y, Claim(d)) /\ became[d] = "waiting")
             /\ became[d] = "waiting" => ~IsTaken(o, Debt(d))
  <2>1. Claim(d) \in WithPeer(n, p) /\ Debt(d) \in AllRefs
        /\ Debt(d).tx = d /\ Claim(d).tx = d
    BY DealRefs DEF WithPeer
  <2> QED
    BY <2>1 DEF Quiet, IsPaidFor, Alike
<1>6. Matches(n, p, y, o)
  <2>1. BothTidy(n, p, x, o, y, o) /\ RowsThere(n, p, y, o)
    BY <1>2 DEF RowsThere
  <2>2. \A d \in Bought(n, p) : DealKept(d, x, o, y, o)
    BY <1>4 DEF DealKept, Stays, Closes
  <2>3. FundsKept(n, p, x, o, y, o)
    BY <1>2, <1>3 DEF FundsKept
  <2>4. Fades(n, p, x, o, y, o)
    BY <2>1, <2>2, <2>3 DEF Fades
  <2> QED
    BY <1>1, <2>4, PairFades
<1>7. Matches(p, n, o, y)
  <2>1. BothTidy(p, n, o, x, o, y) /\ RowsThere(p, n, o, y)
    BY <1>2 DEF RowsThere, BothTidy
  <2>2. \A d \in Bought(p, n) : DealKept(d, o, x, o, y)
    BY <1>5 DEF DealKept, Stays, Closes
  <2>3. FundsKept(p, n, o, x, o, y)
    BY <1>2, <1>3 DEF FundsKept
  <2>4. Fades(p, n, o, x, o, y)
    BY <2>1, <2>2, <2>3 DEF Fades
  <2> QED
    BY <1>1, <2>4, PairFades
<1>8. AreFirm(n, p, y, o, became) /\ AreFirm(p, n, o, y, became)
  BY <1>1, <1>4, <1>5 DEF AreFirm, Stays
<1> QED
  BY <1>6, <1>7, <1>8 DEF Agreeing

LEMMA TakeStep ==
    ASSUME OneWay, NEW n \in Nodes, NEW p \in Nodes, NEW x, NEW y, NEW o, NEW became,
           NEW ref, BothTidy(n, p, x, o, y, o),
           Agreeing(n, p, x, o, became), Takes(n, p, x, y, ref, became)
    PROVE  Agreeing(n, p, y, o, became)
<1>1. /\ Matches(n, p, x, o) /\ Matches(p, n, o, x)
      /\ AreFirm(n, p, x, o, became) /\ AreFirm(p, n, o, x, became)
  BY DEF Agreeing
<1>2. /\ p \in DOMAIN x.book.credit /\ p \in DOMAIN y.book.credit
      /\ n \in DOMAIN o.book.credit /\ o.left[n] >= 0 /\ y.left[p] >= 0
  <2>1. /\ p \in DOMAIN x.book.credit /\ n \in DOMAIN o.book.credit
        /\ o.left[n] >= 0 /\ x.left[p] >= 0
    BY <1>1 DEF Matches
  <2>2. x.left[p] \in Int /\ y.left[p] \in Int
    BY DEF BothTidy, Tidy
  <2> QED
    BY <2>1, <2>2 DEF Takes
<1>3. RowsThere(n, p, y, o) /\ RowsThere(p, n, o, y)
  BY <1>2 DEF RowsThere
<1>4. /\ ref \in WithPeer(n, p) /\ OwnRef(n, ref) /\ PeerOf(n, ref) = p
      /\ \A r \in WithPeer(n, p) : r # ref => Stays(x, y, r)
      /\ IsFirm(y, ref) /\ became[ref.tx] # "waiting"
  BY DEF Takes, WithPeer, IsFirm
<1>5. \A r \in WithPeer(n, p) : IsFirm(x, r) => IsFirm(y, r)
  BY <1>4 DEF Stays
<1>6. AreFirm(n, p, y, o, became) /\ AreFirm(p, n, o, y, became)
  BY <1>1, <1>5, DealRefs DEF AreFirm
<1>7. CASE ref.party = "sender"
  <2>1. ref = Debt(ref.tx) /\ ref.tx \in Bought(n, p)
    BY <1>4, <1>7, WithFriend
  <2> DEFINE d == ref.tx
  <2>2. Bought(p, n) = {} /\ Bought(n, p) # {}
    BY <2>1 DEF OneWay
  <2>3. IsOpen(o, Claim(d)) \/ IsTaken(o, Claim(d))
    BY <1>1, <1>4, <2>1 DEF AreFirm, IsFirm, IsOpen, Open
  <2>4. \A e \in Bought(n, p) : e # d => Alike(x, y, Debt(e))
    BY <1>4, <2>1, DealRefs, ContractsDiffer DEF Stays
  <2>5. PayerBooks(n, p, x, o, y, d)
    BY <1>3, <1>7, <2>1, <2>3, <2>4 DEF PayerBooks, Takes
  <2>6. Matches(n, p, y, o)
    BY <1>1, <2>5, PayerTakes
  <2>7. Matches(p, n, o, y)
    BY <1>2, <2>2 DEF Matches
  <2> QED
    BY <1>6, <2>6, <2>7 DEF Agreeing
<1>8. CASE ref.party = "receiver"
  <2>1. ref = Claim(ref.tx) /\ ref.tx \in Bought(p, n)
    BY <1>4, <1>8, WithFriend
  <2> DEFINE d == ref.tx
  <2>2. Bought(n, p) = {} /\ Bought(p, n) # {}
    BY <2>1 DEF OneWay
  <2>3. IsOpen(o, Debt(d)) \/ IsTaken(o, Debt(d))
    BY <1>1, <1>4, <2>1 DEF AreFirm, IsFirm, IsOpen, Open
  <2>4. \A e \in Bought(p, n) : e # d => Alike(x, y, Claim(e))
    BY <1>4, <2>1, DealRefs, ContractsDiffer DEF Stays
  <2>5. PayeeBooks(p, n, o, x, y, d)
    BY <1>3, <1>8, <2>1, <2>3, <2>4 DEF PayeeBooks, Takes, BothTidy
  <2>6. Matches(p, n, o, y)
    BY <1>1, <2>5, PayeeTakes
  <2>7. Matches(n, p, y, o)
    BY <1>2, <2>2 DEF Matches
  <2> QED
    BY <1>6, <2>6, <2>7 DEF Agreeing
<1> QED
  BY <1>4, <1>7, <1>8, WithFriend

-----------------------------------------------------------------------------
(* One contract of a round, for the pairs of a node.                       *)

\* Only the contract ref changes, and what there is with its friend.
Beside(n, x, y, ref) ==
    /\ \A r \in AllRefs : r # ref => Stays(x, y, r)
    /\ OthersKept(x.book, y.book, PeerOf(n, ref))
    /\ \A q \in Nodes : q # PeerOf(n, ref) => y.left[q] = x.left[q]

\* The other friends notice nothing.
LEMMA OthersQuiet ==
    ASSUME NEW n \in Nodes, NEW x, NEW y, Tidy(n, x), Tidy(n, y), NEW ref,
           Beside(n, x, y, ref), NEW q \in Nodes, q # PeerOf(n, ref), NEW became
    PROVE  Quiet(n, q, x, y, became)
<1>1. ASSUME q \in DOMAIN x.book.credit
      PROVE  RowFades(x, y, q)
  <2>1. q \in DOMAIN y.book.credit /\ y.book.credit[q] = x.book.credit[q]
    BY <1>1 DEF Beside, OthersKept
  <2>2. MyAvailable(x.book.credit[q]) \in Int /\ PeerAvailable(x.book.credit[q]) \in Int
    BY <1>1, RowTypes
  <2> QED
    BY <2>1, <2>2 DEF RowFades
<1>2. \A r \in WithPeer(n, q) : Stays(x, y, r)
  BY DEF WithPeer, Beside
<1>3. y.left[q] >= x.left[q]
  BY DEF Beside, Tidy
<1> QED
  BY <1>1, <1>2, <1>3 DEF Quiet

\* Nothing changes but for contracts that stay what they are.
StoredAlike(x, y) ==
    /\ \A r \in AllRefs : Stays(x, y, r)
    /\ y.book.credit = x.book.credit /\ y.left = x.left

LEMMA AllQuiet ==
    ASSUME NEW n \in Nodes, NEW x, NEW y, Tidy(n, x), Tidy(n, y), StoredAlike(x, y),
           NEW q \in Nodes, NEW became
    PROVE  Quiet(n, q, x, y, became)
<1>1. ASSUME q \in DOMAIN x.book.credit
      PROVE  RowFades(x, y, q)
  <2>1. MyAvailable(x.book.credit[q]) \in Int /\ PeerAvailable(x.book.credit[q]) \in Int
    BY <1>1, RowTypes
  <2> QED
    BY <1>1, <2>1 DEF RowFades, StoredAlike
<1>2. \A r \in WithPeer(n, q) : Stays(x, y, r)
  BY DEF WithPeer, StoredAlike
<1>3. y.left[q] >= x.left[q]
  BY DEF StoredAlike, Tidy
<1> QED
  BY <1>1, <1>2, <1>3 DEF Quiet

\* ref goes from x, and c is the book with what was written before.
Goes(n, x, y, ref, c) ==
    /\ CreditOnly(n, x.book, c) /\ OthersKept(x.book, c, PeerOf(n, ref))
    /\ y.book = Gone(c, ref)
    /\ y.paid = x.paid \/ y.paid = Counted(x.paid, ref)
    /\ \A q \in Nodes : q # PeerOf(n, ref) => y.left[q] = x.left[q]

LEMMA GoesFacts ==
    ASSUME NEW n \in Nodes, NEW x, DeskOK(n, x), NEW ref \in Range(x.book.list),
           NEW y, NEW c, Goes(n, x, y, ref, c)
    PROVE  /\ Beside(n, x, y, ref)
           /\ IsOpen(x, ref) /\ ~IsOpen(y, ref) /\ ~IsTaken(x, ref)
           /\ ref \in AllRefs /\ Value(x, ref) = x.book.contract[ref].amount
           /\ Range(y.book.list) = Range(x.book.list) \ {ref}
           /\ StoredRefs(y.book) = StoredRefs(x.book) \ {ref}
           /\ y.book.credit = c.credit /\ y.book.contract = x.book.contract
           /\ y.paid = x.paid => Closes(x, y, ref)
           /\ y.paid = Counted(x.paid, ref) => IsTaken(y, ref)
<1>1. /\ SoundBook(n, c) /\ c.contract = x.book.contract /\ c.list = x.book.list
      /\ c.stored = x.book.stored
  BY DEF Goes, CreditOnly
<1>2. /\ Open(c) = Open(x.book) /\ StoredRefs(c) = StoredRefs(x.book)
      /\ \A r : AmountOf(c, r) = AmountOf(x.book, r)
  BY <1>1, SameContracts
<1>3. Without(n, ref, c, y.book)
  <2>1. ref \in Range(c.list)
    BY <1>1
  <2>2. Without(n, ref, c, Gone(c, ref))
    BY <1>1, <2>1, GoneFacts
  <2> QED
    BY <2>2 DEF Goes
<1>4. /\ Range(y.book.list) = Range(x.book.list) \ {ref}
      /\ Open(y.book) = Open(x.book) \ {ref}
      /\ StoredRefs(y.book) = StoredRefs(x.book) \ {ref}
      /\ \A r \in Open(y.book) : AmountOf(y.book, r) = AmountOf(x.book, r)
      /\ y.book.credit = c.credit /\ y.book.contract = x.book.contract
  BY <1>1, <1>2, <1>3 DEF Without, AmountsKept
<1>5. /\ ref \in AllRefs /\ ref \in Open(x.book) /\ x.paid \in [AllRefs -> Nat]
      /\ x.paid[ref] = 0 /\ AmountOf(x.book, ref) = x.book.contract[ref].amount
  BY ListedFacts DEF DeskOK, PaidIsGone, Open
<1>6. ASSUME NEW r \in AllRefs, r # ref
      PROVE  Stays(x, y, r)
  <2>1. y.paid[r] = x.paid[r]
    BY <1>5, <1>6 DEF Goes, Counted
  <2>2. IsOpen(y, r) <=> IsOpen(x, r)
    BY <1>4, <1>6 DEF IsOpen
  <2>3. Value(y, r) = Value(x, r)
    BY <1>4, <2>2 DEF Value, IsOpen
  <2>4. IsFirm(x, r) => IsFirm(y, r)
    BY <1>4, <1>6, <2>1 DEF IsFirm, IsTaken
  <2> QED
    BY <2>1, <2>2, <2>3, <2>4 DEF Stays, Alike, IsTaken
<1>7. OthersKept(x.book, y.book, PeerOf(n, ref))
  BY <1>4 DEF Goes, OthersKept
<1>8. Beside(n, x, y, ref)
  BY <1>6, <1>7 DEF Beside, Goes
<1>9. /\ y.paid = x.paid => y.paid[ref] = 0
      /\ y.paid = Counted(x.paid, ref) => y.paid[ref] = 1
  BY <1>5 DEF Counted
<1>10. IsOpen(x, ref) /\ ~IsOpen(y, ref) /\ ~IsTaken(x, ref)
  BY <1>4, <1>5 DEF IsOpen, IsTaken
<1>11. /\ y.paid = x.paid => Closes(x, y, ref)
       /\ y.paid = Counted(x.paid, ref) => IsTaken(y, ref)
  BY <1>9, <1>10 DEF Closes, IsTaken
<1> QED
  BY <1>4, <1>5, <1>8, <1>10, <1>11 DEF Value, IsOpen

\* A contract that is a day old.
LEMMA ExpireOutcome ==
    ASSUME NEW n \in Nodes, NEW d, DeskOK(n, d), NEW ref \in Range(d.book.list)
    PROVE  LET e == Expire(n, d, ref)
               p == PeerOf(n, ref)
           IN /\ Goes(n, d, e, ref, d.book) /\ e.paid = d.paid
              /\ e.left[p] >= d.left[p]
              /\ e.broken = IF btc[ref.tx] = "waiting" THEN d.broken
                            ELSE d.broken \cup {{n, p}}
<1> DEFINE b == d.book
           p == b.contract[ref].peer
           amount == b.contract[ref].amount
           f == [d EXCEPT !.book = Gone(b, ref)]
           e == LeftBehind(f, ref, p, amount)
<1>1. /\ SoundBook(n, b) /\ d.left \in [Nodes -> Int]
      /\ d = [book |-> d.book, paid |-> d.paid, left |-> d.left, broken |-> d.broken]
  BY DEF DeskOK
<1>2. /\ ref \in AllRefs /\ p = PeerOf(n, ref) /\ p \in Nodes /\ amount \in Nat
      /\ b.contract[ref].btcTx = BtcTx(ref.tx)
  BY <1>1, ListedFacts, FriendsAssumption
<1>3. Expire(n, d, ref) = IF btc[ref.tx] = "waiting" THEN e ELSE Parted(e, n, p)
  BY <1>2 DEF Expire, Gone
<1>4. /\ f = [book |-> f.book, paid |-> f.paid, left |-> f.left, broken |-> f.broken]
      /\ f.book = Gone(b, ref) /\ f.paid = d.paid /\ f.left = d.left
      /\ f.broken = d.broken
  <2>1. f = [book |-> Gone(b, ref), paid |-> d.paid, left |-> d.left,
             broken |-> d.broken]
    BY <1>1
  <2> HIDE DEF f
  <2> QED
    BY <2>1
<1> HIDE DEF f, amount, p
<1>5. /\ e = [book |-> Gone(b, ref), paid |-> d.paid, left |-> e.left,
              broken |-> d.broken]
      /\ \A q \in Nodes : e.left[q] = d.left[q] + Share(n, ref, amount, q)
  <2>1. f.left \in [Nodes -> Int] /\ amount \in Int
    BY <1>1, <1>2, <1>4
  <2>2. /\ e = [book |-> f.book, paid |-> f.paid, left |-> e.left,
                broken |-> f.broken]
        /\ \A q \in Nodes : e.left[q] = f.left[q] + Share(n, ref, amount, q)
    BY <1>2, <1>4, <2>1, LeftBehindFacts
  <2> QED
    BY <1>4, <2>2
<1> HIDE DEF e
<1>6. CreditOnly(n, b, b) /\ OthersKept(b, b, PeerOf(n, ref))
  BY <1>1 DEF CreditOnly, SameLines, OthersKept
<1>7. \A q \in Nodes : d.left[q] \in Int /\ Share(n, ref, amount, q) \in Nat
                       /\ (q # p => Share(n, ref, amount, q) = 0)
  BY <1>1, <1>2 DEF Share
<1>8. /\ e.book = Gone(b, ref) /\ e.paid = d.paid /\ e.broken = d.broken
      /\ \A q \in Nodes : e.left[q] >= d.left[q] /\ (q # p => e.left[q] = d.left[q])
  BY <1>5, <1>7
<1>9. ASSUME NEW x, x = Parted(e, n, p)
      PROVE  /\ x.book = e.book /\ x.paid = e.paid /\ x.left = e.left
             /\ x.broken = d.broken \cup {{n, p}}
  <2> DEFINE more == e.broken \cup {{n, p}}
  <2>1. x = [e EXCEPT !.broken = more]
    BY <1>9 DEF Parted
  <2> HIDE DEF more
  <2>2. x = [book |-> e.book, paid |-> e.paid, left |-> e.left, broken |-> more]
    BY <1>5, <2>1
  <2> QED
    BY <1>8, <2>2 DEF more
<1>10. PICK x : x = Expire(n, d, ref)
  OBVIOUS
<1>11. /\ x.book = e.book /\ x.paid = e.paid /\ x.left = e.left
       /\ x.broken = IF btc[ref.tx] = "waiting" THEN d.broken ELSE d.broken \cup {{n, p}}
  BY <1>3, <1>8, <1>9, <1>10
<1>12. Goes(n, d, x, ref, b)
  BY <1>2, <1>6, <1>8, <1>11 DEF Goes
<1> QED
  BY <1>2, <1>8, <1>10, <1>11, <1>12

\* What becomes of the book before the contract goes.
IsMade(b, ref, fails) == Covered(Freed(b, ref, fails), ref) /\ fails # "balance"
SettledBook(b, ref, fails) ==
    IF IsMade(b, ref, fails) THEN Booked(Freed(b, ref, fails), ref) ELSE Freed(b, ref, fails)

\* The row of a contract's friend after what is written for it.
SettledRow(row, ref, amount, fails, made) ==
    LET freed == IF ref.party = "sender" \/ fails = "allocation" THEN row
                 ELSE Deallocated(row, amount)
    IN IF ~made THEN freed
       ELSE IF ref.party = "sender" THEN Spent(freed, amount) ELSE Received(freed, amount)

LEMMA SettledRowFacts ==
    ASSUME NEW n \in Nodes, NEW b, SoundBook(n, b), NEW ref \in Range(b.list), NEW fails
    PROVE  LET c == SettledBook(b, ref, fails)
               p == PeerOf(n, ref)
           IN /\ CreditOnly(n, b, c) /\ OthersKept(b, c, p)
              /\ p \in DOMAIN b.credit =>
                    c.credit[p] = SettledRow(b.credit[p], ref, b.contract[ref].amount,
                                             fails, IsMade(b, ref, fails))
<1> DEFINE freed == Freed(b, ref, fails)
           p == PeerOf(n, ref)
           amount == b.contract[ref].amount
           booked == Booked(freed, ref)
           row == IF ref.party = "sender" \/ fails = "allocation" THEN b.credit[p]
                  ELSE Deallocated(b.credit[p], amount)
<1>1. /\ CreditOnly(n, b, freed) /\ OthersKept(b, freed, p)
      /\ p \in DOMAIN b.credit => freed.credit[p] = row
  BY FreedFacts
<1>2. /\ SoundBook(n, freed) /\ ref \in Range(freed.list)
      /\ freed.contract = b.contract /\ DOMAIN freed.credit = DOMAIN b.credit
  BY <1>1 DEF CreditOnly, SameLines
<1> HIDE DEF freed, p, amount, row
<1>3. /\ CreditOnly(n, freed, booked) /\ OthersKept(freed, booked, p)
      /\ p \in DOMAIN freed.credit =>
            booked.credit[p] = IF ref.party = "sender"
                               THEN Spent(freed.credit[p], freed.contract[ref].amount)
                               ELSE Received(freed.credit[p], freed.contract[ref].amount)
  BY <1>2, BookedFacts DEF p
<1> HIDE DEF booked
<1>4. /\ CreditOnly(n, b, booked) /\ OthersKept(b, booked, p)
      /\ p \in DOMAIN b.credit =>
            booked.credit[p] = IF ref.party = "sender" THEN Spent(row, amount)
                               ELSE Received(row, amount)
  <2>1. CreditOnly(n, b, booked)
    BY <1>1, <1>3, CreditOnlyTwice
  <2>2. OthersKept(b, booked, p)
    BY <1>1, <1>3 DEF OthersKept
  <2> QED
    BY <1>1, <1>2, <1>3, <2>1, <2>2 DEF amount
<1>5. SettledBook(b, ref, fails) = IF IsMade(b, ref, fails) THEN booked ELSE freed
  BY DEF SettledBook, booked, freed
<1>6. SettledRow(b.credit[p], ref, amount, fails, IsMade(b, ref, fails)) =
          IF ~IsMade(b, ref, fails) THEN row
          ELSE IF ref.party = "sender" THEN Spent(row, amount) ELSE Received(row, amount)
  BY DEF SettledRow, row
<1> HIDE DEF row
<1>7. CASE IsMade(b, ref, fails)
  BY <1>4, <1>5, <1>6, <1>7 DEF p, amount
<1>8. CASE ~IsMade(b, ref, fails)
  BY <1>1, <1>5, <1>6, <1>8 DEF p, amount
<1> QED
  BY <1>7, <1>8

LEMMA SettleOutcome ==
    ASSUME NEW n \in Nodes, NEW d, DeskOK(n, d), NEW ref \in Range(d.book.list),
           NEW fails, fails # "removal"
    PROVE  LET e == Settle(n, d, ref, fails)
               p == PeerOf(n, ref)
               made == IsMade(d.book, ref, fails)
           IN /\ Goes(n, d, e, ref, SettledBook(d.book, ref, fails))
              /\ e.paid = IF made THEN Counted(d.paid, ref) ELSE d.paid
              /\ e.left[p] >= d.left[p]
              /\ e.broken = IF made \/ fails = "none" THEN d.broken
                            ELSE d.broken \cup {{n, p}}
<1> DEFINE b == d.book
           p == b.contract[ref].peer
           amount == b.contract[ref].amount
           made == IsMade(b, ref, fails)
           c == SettledBook(b, ref, fails)
           f == Written(d, ref, Gone(c, ref),
                        IF made THEN d.paid[ref] + 1 ELSE d.paid[ref])
           e == IF fails = "allocation" THEN LeftBehind(f, ref, p, amount) ELSE f
<1>1. /\ SoundBook(n, b) /\ d.left \in [Nodes -> Int] /\ d.paid \in [AllRefs -> Nat]
      /\ d = [book |-> d.book, paid |-> d.paid, left |-> d.left, broken |-> d.broken]
  BY DEF DeskOK
<1>2. /\ ref \in AllRefs /\ p = PeerOf(n, ref) /\ p \in Nodes /\ amount \in Nat
      /\ b.contract[ref].btcTx = BtcTx(ref.tx)
  BY <1>1, ListedFacts, FriendsAssumption
<1>3. Settle(n, d, ref, fails) = IF made \/ fails = "none" THEN e ELSE Parted(e, n, p)
  BY <1>2 DEF Settle, Gone, Written, SettledBook, IsMade
<1>4. CreditOnly(n, b, c) /\ OthersKept(b, c, PeerOf(n, ref))
  BY <1>1, SettledRowFacts
<1> HIDE DEF p, amount, made, c
<1>5. /\ f = [book |-> f.book, paid |-> f.paid, left |-> f.left, broken |-> f.broken]
      /\ f.book = Gone(c, ref) /\ f.left = d.left /\ f.broken = d.broken
      /\ f.paid = IF made THEN Counted(d.paid, ref) ELSE d.paid
  <2> DEFINE x == IF made THEN d.paid[ref] + 1 ELSE d.paid[ref]
             g == Gone(c, ref)
  <2>1. f = Written(d, ref, g, x)
    OBVIOUS
  <2>2. /\ made => x = d.paid[ref] + 1
        /\ ~made => x = d.paid[ref]
    OBVIOUS
  <2> HIDE DEF f, x, g
  <2>3. /\ f = [book |-> f.book, paid |-> f.paid, left |-> f.left, broken |-> f.broken]
        /\ f.book = g /\ f.left = d.left /\ f.broken = d.broken
        /\ f.paid = [d.paid EXCEPT ![ref] = x]
    BY <1>2, <2>1, DeskWritten
  <2>4. f.paid = IF made THEN Counted(d.paid, ref) ELSE d.paid
    <3>1. CASE made
      BY <2>2, <2>3, <3>1 DEF Counted
    <3>2. CASE ~made
      BY <1>1, <1>2, <2>2, <2>3, <3>2
    <3> QED
      BY <3>1, <3>2
  <2> QED
    BY <2>3, <2>4 DEF g
<1> HIDE DEF f
<1>6. \A q \in Nodes : d.left[q] \in Int /\ Share(n, ref, amount, q) \in Nat
                       /\ (q # p => Share(n, ref, amount, q) = 0)
  BY <1>1, <1>2 DEF Share
<1>7. /\ e = [book |-> f.book, paid |-> f.paid, left |-> e.left, broken |-> f.broken]
      /\ \A q \in Nodes : e.left[q] >= d.left[q] /\ (q # p => e.left[q] = d.left[q])
  <2>1. f.left \in [Nodes -> Int] /\ amount \in Int
    BY <1>1, <1>2, <1>5
  <2>2. LET l == LeftBehind(f, ref, p, amount)
        IN /\ l = [book |-> f.book, paid |-> f.paid, left |-> l.left,
                   broken |-> f.broken]
           /\ \A q \in Nodes : l.left[q] = f.left[q] + Share(n, ref, amount, q)
    BY <1>2, <1>5, <2>1, LeftBehindFacts
  <2>3. CASE fails = "allocation"
    <3>1. \A q \in Nodes : e.left[q] = d.left[q] + Share(n, ref, amount, q)
      BY <1>5, <2>2, <2>3
    <3>2. \A q \in Nodes : e.left[q] >= d.left[q] /\ (q # p => e.left[q] = d.left[q])
      BY <1>6, <3>1
    <3> QED
      BY <2>2, <2>3, <3>2
  <2>4. CASE fails # "allocation"
    BY <1>1, <1>5, <2>4
  <2> QED
    BY <2>3, <2>4
<1> HIDE DEF e
<1>8. /\ e.book = Gone(c, ref) /\ e.broken = d.broken
      /\ e.paid = IF made THEN Counted(d.paid, ref) ELSE d.paid
  BY <1>5, <1>7
<1>9. ASSUME NEW x, x = Parted(e, n, p)
      PROVE  /\ x.book = e.book /\ x.paid = e.paid /\ x.left = e.left
             /\ x.broken = d.broken \cup {{n, p}}
  <2> DEFINE more == e.broken \cup {{n, p}}
  <2>1. x = [e EXCEPT !.broken = more]
    BY <1>9 DEF Parted
  <2>2. e = [book |-> e.book, paid |-> e.paid, left |-> e.left, broken |-> e.broken]
    BY <1>7
  <2> HIDE DEF more
  <2>3. x = [book |-> e.book, paid |-> e.paid, left |-> e.left, broken |-> more]
    BY <2>1, <2>2
  <2> QED
    BY <1>8, <2>3 DEF more
<1>10. PICK x : x = Settle(n, d, ref, fails)
  OBVIOUS
<1>11. /\ x.book = e.book /\ x.paid = e.paid /\ x.left = e.left
       /\ x.broken = IF made \/ fails = "none" THEN d.broken ELSE d.broken \cup {{n, p}}
  BY <1>3, <1>8, <1>9, <1>10
<1>12. Goes(n, d, x, ref, c)
  BY <1>2, <1>4, <1>7, <1>8, <1>11 DEF Goes
<1> QED
  BY <1>2, <1>7, <1>8, <1>10, <1>11, <1>12 DEF made, c

\* Friends who agree have what a settlement takes: it is made, and booked.
LEMMA SettleTakes ==
    ASSUME OneWay, NEW n \in Nodes, NEW d, DeskOK(n, d), NEW ref \in Range(d.book.list),
           NEW fails, fails # "removal", btc[ref.tx] # "waiting",
           NEW p, p = PeerOf(n, ref), NEW o, Tidy(p, o), Agreeing(n, p, d, o, btc),
           {n, p} \notin Settle(n, d, ref, fails).broken
    PROVE  Takes(n, p, d, Settle(n, d, ref, fails), ref, btc)
<1> DEFINE b == d.book
           amount == b.contract[ref].amount
           row == b.credit[p]
           freed == Freed(b, ref, fails)
           made == IsMade(b, ref, fails)
           c == SettledBook(b, ref, fails)
<1>1. PICK e : e = Settle(n, d, ref, fails)
  OBVIOUS
<1>2. /\ Goes(n, d, e, ref, c)
      /\ e.paid = IF made THEN Counted(d.paid, ref) ELSE d.paid
      /\ e.left[p] >= d.left[p]
      /\ made \/ fails = "none"
  <2>1. LET x == Settle(n, d, ref, fails)
            q == PeerOf(n, ref)
            m == IsMade(d.book, ref, fails)
        IN /\ Goes(n, d, x, ref, SettledBook(d.book, ref, fails))
           /\ x.paid = IF m THEN Counted(d.paid, ref) ELSE d.paid
           /\ x.left[q] >= d.left[q]
           /\ x.broken = IF m \/ fails = "none" THEN d.broken
                         ELSE d.broken \cup {{n, q}}
    BY SettleOutcome
  <2> QED
    BY <1>1, <2>1
<1>3. /\ SoundBook(n, b) /\ Tidy(n, d) /\ OwnRef(n, ref) /\ ref \in AllRefs /\ p \in Nodes
      /\ b.contract[ref].peer = p /\ amount \in Nat
  BY ListedFacts, FriendsAssumption, DeskIsTidy DEF DeskOK
<1>4. /\ Beside(n, d, e, ref) /\ IsOpen(d, ref) /\ Value(d, ref) = amount
      /\ e.book.credit = c.credit
      /\ e.paid = Counted(d.paid, ref) => IsTaken(e, ref)
  BY <1>2, GoesFacts
<1>5. /\ Matches(n, p, d, o) /\ Matches(p, n, o, d)
      /\ AreFirm(n, p, d, o, btc) /\ AreFirm(p, n, o, d, btc)
      /\ p \in DOMAIN b.credit
  BY DEF Agreeing, Matches
<1>6. /\ OthersKept(b, c, p)
      /\ c.credit[p] = SettledRow(row, ref, amount, fails, made)
      /\ DOMAIN c.credit = DOMAIN b.credit
  BY <1>3, <1>5, SettledRowFacts DEF CreditOnly, SameLines
<1>7. /\ row \in CreditRecord /\ row.balance \in Int /\ row.allocation \in Int
      /\ row.credit \in Int /\ row.our_credit \in Int
      /\ row = [our_credit |-> row.our_credit, credit |-> row.credit,
                balance |-> row.balance, allocation |-> row.allocation]
  BY <1>3, <1>5, RowTypes DEF CreditRecord
<1>8. /\ p \in DOMAIN freed.credit /\ freed.contract = b.contract
      /\ freed.credit[p] = IF ref.party = "sender" \/ fails = "allocation" THEN row
                           ELSE Deallocated(row, amount)
  BY <1>3, <1>5, FreedFacts DEF CreditOnly, SameLines
<1>9. Covered(freed, ref) <=>
          amount <= IF ref.party = "sender" THEN MyAvailable(freed.credit[p])
                    ELSE PeerAvailable(freed.credit[p])
  BY <1>3, <1>8 DEF Covered, Load
<1>10. made <=> Covered(freed, ref) /\ fails # "balance"
  BY DEF IsMade
<1> HIDE DEF b, amount, row, freed, made, c
<1>11. \A r \in WithPeer(n, p) : r # ref => Stays(d, e, r)
  BY <1>4 DEF WithPeer, Beside
<1>12. ref \in WithPeer(n, p) /\ p \in DOMAIN e.book.credit
  BY <1>3, <1>4, <1>5, <1>6 DEF WithPeer
<1>13. CASE ref.party = "sender"
  <2>1. ref = Debt(ref.tx) /\ ref.tx \in Bought(n, p)
    BY <1>3, <1>13, WithFriend
  <2>2. Bought(p, n) = {}
    BY <1>3, <2>1 DEF OneWay
  <2>3. IsOpen(o, Claim(ref.tx)) \/ IsTaken(o, Claim(ref.tx))
    BY <1>5, <2>1 DEF AreFirm, IsFirm, IsOpen, Open
  <2>4. IsDue(ref.tx, d, o) /\ Pending(ref.tx, d, o) = amount
    BY <1>4, <2>1, <2>3 DEF IsDue, Pending
  <2>5. amount <= Pendings(n, p, d, o) /\ Pendings(n, p, d, o) \in Nat
    BY <1>3, <2>1, <2>4, SumsFacts
  <2>6. Pendings(n, p, d, o) <= MyAvailable(row)
    BY <1>5, <2>1, <2>2, <2>4 DEF Matches, Covers, row, b
  <2>7. MyAvailable(row) \in Int
    BY <1>7 DEF MyAvailable
  <2>8. Covered(freed, ref)
    BY <1>3, <1>8, <1>9, <1>13, <2>5, <2>6, <2>7
  <2>9. made
    BY <1>2, <1>10, <2>8
  <2>10. e.book.credit[p] = Spent(row, amount)
    BY <1>4, <1>6, <1>13, <2>9 DEF SettledRow
  <2>11. /\ e.book.credit[p].balance = row.balance - amount
         /\ e.book.credit[p].our_credit = row.our_credit
    BY <1>7, <2>10 DEF Spent
  <2>12. IsTaken(e, ref)
    BY <1>2, <1>4, <2>9
  <2> QED
    BY <1>1, <1>2, <1>4, <1>11, <1>12, <1>13, <2>11, <2>12 DEF Takes, row, b
<1>14. CASE ref.party = "receiver"
  <2>1. ref = Claim(ref.tx) /\ ref.tx \in Bought(p, n)
    BY <1>3, <1>14, WithFriend
  <2>2. Bought(n, p) = {}
    BY <1>3, <2>1 DEF OneWay
  <2>3. IsOpen(d, Claim(ref.tx))
    BY <1>4, <2>1
  <2>4. PeerAvailable(row) >= 0
    BY <1>5, <2>1, <2>2, <2>3 DEF Matches, Covers, row, b
  <2>5. PICK given : given = Deallocated(row, amount)
    OBVIOUS
  <2>6. /\ given = [our_credit |-> row.our_credit, credit |-> row.credit,
                    balance |-> row.balance, allocation |-> row.allocation - amount]
    BY <1>7, <2>5 DEF Deallocated
  <2>7. PeerAvailable(given) = PeerAvailable(row) + amount /\ PeerAvailable(row) \in Int
    BY <1>3, <1>7, <2>6 DEF PeerAvailable
  <2>8. made
    <3>1. fails = "none" => Covered(freed, ref)
      BY <1>3, <1>8, <1>9, <1>14, <2>4, <2>5, <2>7
    <3> QED
      BY <1>2, <1>10, <3>1
  <2>9. IsTaken(e, ref)
    BY <1>2, <1>4, <2>8
  <2>10. /\ e.book.credit[p].balance = row.balance + amount
         /\ PeerAvailable(e.book.credit[p]) >= 0
    <3>1. CASE fails = "allocation"
      <4>1. e.book.credit[p] = Received(row, amount)
        BY <1>4, <1>6, <1>14, <2>8, <3>1 DEF SettledRow
      <4>2. amount <= PeerAvailable(row)
        BY <1>8, <1>9, <1>10, <1>14, <2>8, <3>1
      <4> QED
        BY <1>3, <1>7, <4>1, <4>2 DEF Received, PeerAvailable
    <3>2. CASE fails # "allocation"
      <4>1. e.book.credit[p] = Received(given, amount)
        BY <1>4, <1>6, <1>14, <2>5, <2>8, <3>2 DEF SettledRow
      <4> QED
        BY <1>3, <1>7, <2>4, <2>6, <4>1 DEF Received, PeerAvailable
    <3> QED
      BY <3>1, <3>2
  <2> QED
    BY <1>1, <1>2, <1>4, <1>11, <1>12, <1>14, <2>9, <2>10 DEF Takes, row, b
<1> QED
  BY <1>3, <1>13, <1>14, WithFriend

-----------------------------------------------------------------------------
(* A round, for the pairs of a node.                                       *)

\* n agrees with every friend that it has no reason to differ from.
DeskFine(n, x) ==
    \A p \in Friends[n] : {n, p} \notin x.broken => Agreeing(n, p, x, Desk(p), btc)

\* What the others have on their desks.
DesksSound == \A p \in Nodes : Tidy(p, Desk(p)) /\ IsPaidFor(Desk(p), btc)

\* Contracts leave the books only if they are old, or are seen and booked.
Follows(x, y, old, seen) ==
    /\ \A ref \in AllRefs : IsTaken(y, ref) => IsTaken(x, ref) \/ ref.tx \in seen
    /\ Range(y.book.list) \subseteq Range(x.book.list)
    /\ StoredRefs(y.book) \subseteq StoredRefs(x.book)
    /\ \A ref \in StoredRefs(x.book) : ref \notin StoredRefs(y.book) =>
          ref \notin Range(y.book.list) /\ (ref \in old \/ ref.tx \in seen)
    /\ x.broken \subseteq y.broken

LEMMA FollowsTwice ==
    ASSUME NEW x, NEW y, NEW z, NEW old, NEW seen,
           Follows(x, y, old, seen), Follows(y, z, old, seen)
    PROVE  Follows(x, z, old, seen)
  BY DEF Follows

\* A step after which every friend either notices nothing or saw n book the
\* contract.
LEMMA DeskStep ==
    ASSUME OneWay, DesksSound, NEW n \in Nodes, NEW x, NEW y, Tidy(n, x), Tidy(n, y),
           DeskFine(n, x), x.broken \subseteq y.broken, NEW ref,
           \A p \in Friends[n] : {n, p} \notin y.broken =>
               Quiet(n, p, x, y, btc) \/ Takes(n, p, x, y, ref, btc)
    PROVE  DeskFine(n, y)
<1> SUFFICES ASSUME NEW p \in Friends[n], {n, p} \notin y.broken
             PROVE  Agreeing(n, p, y, Desk(p), btc)
  BY DEF DeskFine
<1>1. p \in Nodes /\ Tidy(p, Desk(p)) /\ IsPaidFor(Desk(p), btc)
  BY FriendsAssumption DEF DesksSound
<1>2. PICK o : o = Desk(p)
  OBVIOUS
<1>3. Agreeing(n, p, x, o, btc)
  BY <1>2 DEF DeskFine
<1>4. BothTidy(n, p, x, o, y, o) /\ IsPaidFor(o, btc)
  BY <1>1, <1>2 DEF BothTidy
<1>5. Quiet(n, p, x, y, btc) => Agreeing(n, p, y, o, btc)
  BY <1>1, <1>3, <1>4, QuietStep
<1>6. Takes(n, p, x, y, ref, btc) => Agreeing(n, p, y, o, btc)
  BY <1>1, <1>3, <1>4, TakeStep
<1> QED
  BY <1>2, <1>5, <1>6

LEMMA ExpireFine ==
    ASSUME OneWay, DesksSound, NEW n \in Nodes, NEW d, DeskOK(n, d), DeskFine(n, d),
           NEW ref \in Range(d.book.list), NEW old, ref \in old, NEW seen
    PROVE  LET e == Expire(n, d, ref)
           IN DeskFine(n, e) /\ Follows(d, e, old, seen)
<1>1. PICK e : e = Expire(n, d, ref)
  OBVIOUS
<1>2. DeskOK(n, e) /\ Tidy(n, d) /\ Tidy(n, e) /\ PeerOf(n, ref) \in Nodes
  <2>1. DeskOK(n, e)
    BY <1>1, ExpireFacts
  <2>2. Tidy(n, d) /\ Tidy(n, e)
    BY <2>1, DeskIsTidy
  <2>3. PICK b : b = d.book
    OBVIOUS
  <2>4. SoundBook(n, b) /\ ref \in Range(b.list)
    BY <2>3 DEF DeskOK
  <2>5. PeerOf(n, ref) \in Friends[n]
    BY <2>4, ListedFacts
  <2> QED
    BY <2>1, <2>2, <2>5, FriendsAssumption
<1>3. /\ Goes(n, d, e, ref, d.book) /\ e.paid = d.paid
      /\ e.left[PeerOf(n, ref)] >= d.left[PeerOf(n, ref)]
      /\ e.broken = IF btc[ref.tx] = "waiting" THEN d.broken
                    ELSE d.broken \cup {{n, PeerOf(n, ref)}}
  BY <1>1, ExpireOutcome
<1>4. /\ Beside(n, d, e, ref) /\ Closes(d, e, ref)
      /\ Range(e.book.list) = Range(d.book.list) \ {ref}
      /\ StoredRefs(e.book) = StoredRefs(d.book) \ {ref}
      /\ e.book.credit = d.book.credit
  BY <1>3, GoesFacts
<1>5. Follows(d, e, old, seen)
  BY <1>3, <1>4 DEF Follows, IsTaken
<1>6. ASSUME NEW p \in Friends[n], {n, p} \notin e.broken
      PROVE  Quiet(n, p, d, e, btc)
  <2>1. p \in Nodes
    BY FriendsAssumption
  <2>2. CASE p # PeerOf(n, ref)
    BY <1>2, <1>4, <2>1, <2>2, OthersQuiet
  <2>3. CASE p = PeerOf(n, ref)
    <3>1. btc[ref.tx] = "waiting"
      BY <1>3, <1>6, <2>3
    <3>2. \A r \in WithPeer(n, p) :
              Stays(d, e, r) \/ (Closes(d, e, r) /\ btc[r.tx] = "waiting")
      <4>1. ASSUME NEW r \in WithPeer(n, p), r # ref
            PROVE  Stays(d, e, r)
        BY <1>4, <4>1 DEF WithPeer, Beside
      <4>2. Closes(d, e, ref) /\ btc[ref.tx] = "waiting"
        BY <1>4, <3>1
      <4>3. ASSUME NEW r \in WithPeer(n, p)
            PROVE  Stays(d, e, r) \/ (Closes(d, e, r) /\ btc[r.tx] = "waiting")
        <5>1. CASE r = ref
          BY <4>2, <5>1
        <5>2. CASE r # ref
          BY <4>1, <5>2
        <5> QED
          BY <5>1, <5>2
      <4> QED
        BY <4>3
    <3>3. p \in DOMAIN d.book.credit => RowFades(d, e, p)
      <4>1. ASSUME p \in DOMAIN d.book.credit
            PROVE  /\ MyAvailable(d.book.credit[p]) \in Int
                   /\ PeerAvailable(d.book.credit[p]) \in Int
        BY <1>2, <4>1, RowTypes
      <4> QED
        BY <1>4, <4>1 DEF RowFades
    <3> QED
      BY <1>3, <2>3, <3>2, <3>3 DEF Quiet
  <2> QED
    BY <2>2, <2>3
<1>7. DeskFine(n, e)
  BY <1>2, <1>5, <1>6, DeskStep DEF Follows
<1> QED
  BY <1>1, <1>5, <1>7

LEMMA RemovalFine ==
    ASSUME OneWay, DesksSound, NEW n \in Nodes, NEW d, DeskOK(n, d), DeskFine(n, d),
           NEW ref \in Range(d.book.list), d.book.contract[ref].active, NEW old, NEW seen
    PROVE  LET e == [d EXCEPT !.book = Delete(@, ref)]
           IN DeskFine(n, e) /\ Follows(d, e, old, seen)
<1> DEFINE b == d.book
           c == Delete(b, ref)
<1>1. PICK e : e = [d EXCEPT !.book = Delete(@, ref)]
  OBVIOUS
<1>2. DeskOK(n, e) /\ Tidy(n, d) /\ Tidy(n, e)
  BY <1>1, RemovalFails, DeskIsTidy
<1>3. SoundBook(n, b) /\ ref \in StoredRefs(b)
  BY DEF DeskOK, SoundBook, ObjectsMatchRows
<1>4. /\ Range(c.list) = Range(b.list) \ {ref} /\ c.credit = b.credit
      /\ StoredRefs(c) = StoredRefs(b) /\ AmountsKept(b, c) /\ Open(c) = Open(b)
  BY <1>3, ObjectLost
<1>5. e.book = c /\ e.paid = d.paid /\ e.left = d.left /\ e.broken = d.broken
  <2>1. d = [book |-> d.book, paid |-> d.paid, left |-> d.left, broken |-> d.broken]
    BY DEF DeskOK
  <2>2. e = [d EXCEPT !.book = c]
    BY <1>1
  <2> HIDE DEF c
  <2>3. e = [book |-> c, paid |-> d.paid, left |-> d.left, broken |-> d.broken]
    BY <2>1, <2>2
  <2> QED
    BY <2>3
<1> HIDE DEF c
<1>6. StoredAlike(d, e)
  <2>1. ASSUME NEW r \in AllRefs
        PROVE  Stays(d, e, r)
    BY <1>4, <1>5 DEF Stays, Alike, IsOpen, IsTaken, IsFirm, Value, AmountsKept
  <2> QED
    BY <1>4, <1>5, <2>1 DEF StoredAlike
<1>7. Follows(d, e, old, seen)
  BY <1>4, <1>5 DEF Follows, IsTaken
<1>8. \A p \in Friends[n] : Quiet(n, p, d, e, btc)
  BY <1>2, <1>6, AllQuiet, FriendsAssumption
<1>9. DeskFine(n, e)
  BY <1>2, <1>7, <1>8, DeskStep DEF Follows
<1> QED
  BY <1>1, <1>7, <1>9

LEMMA SettleFine ==
    ASSUME OneWay, DesksSound, NEW n \in Nodes, NEW d, DeskOK(n, d), DeskFine(n, d),
           NEW ref \in Range(d.book.list), d.book.contract[ref].active,
           NEW fails, fails # "removal", NEW old, NEW seen, ref.tx \in seen,
           btc[ref.tx] # "waiting"
    PROVE  LET e == Settle(n, d, ref, fails)
           IN DeskFine(n, e) /\ Follows(d, e, old, seen)
<1>1. PICK e : e = Settle(n, d, ref, fails)
  OBVIOUS
<1>2. DeskOK(n, e) /\ Tidy(n, d) /\ Tidy(n, e) /\ PeerOf(n, ref) \in Nodes
  <2>1. DeskOK(n, e)
    BY <1>1, SettleFacts
  <2>2. Tidy(n, d) /\ Tidy(n, e)
    BY <2>1, DeskIsTidy
  <2>3. PICK b : b = d.book
    OBVIOUS
  <2>4. SoundBook(n, b) /\ ref \in Range(b.list)
    BY <2>3 DEF DeskOK
  <2>5. PeerOf(n, ref) \in Friends[n]
    BY <2>4, ListedFacts
  <2> QED
    BY <2>1, <2>2, <2>5, FriendsAssumption
<1>3. PICK c : /\ Goes(n, d, e, ref, c)
               /\ e.paid = d.paid \/ e.paid = Counted(d.paid, ref)
               /\ d.broken \subseteq e.broken
  <2>1. LET x == Settle(n, d, ref, fails)
            m == IsMade(d.book, ref, fails)
        IN /\ Goes(n, d, x, ref, SettledBook(d.book, ref, fails))
           /\ x.paid = IF m THEN Counted(d.paid, ref) ELSE d.paid
           /\ x.broken = IF m \/ fails = "none" THEN d.broken
                         ELSE d.broken \cup {{n, PeerOf(n, ref)}}
    BY SettleOutcome
  <2>2. /\ Goes(n, d, e, ref, SettledBook(d.book, ref, fails))
        /\ e.paid = d.paid \/ e.paid = Counted(d.paid, ref)
        /\ \/ e.broken = d.broken
           \/ e.broken = d.broken \cup {{n, PeerOf(n, ref)}}
    BY <1>1, <2>1
  <2>3. d.broken \subseteq e.broken
    BY <2>2
  <2> QED
    BY <2>2, <2>3
<1>4. /\ Beside(n, d, e, ref)
      /\ Range(e.book.list) = Range(d.book.list) \ {ref}
      /\ StoredRefs(e.book) = StoredRefs(d.book) \ {ref}
  BY <1>3, GoesFacts
<1>5. Follows(d, e, old, seen)
  <2>1. ASSUME NEW r \in AllRefs, IsTaken(e, r)
        PROVE  IsTaken(d, r) \/ r.tx \in seen
    BY <1>4, <2>1 DEF Beside, Stays, Alike
  <2> QED
    BY <1>3, <1>4, <2>1 DEF Follows
<1>6. ASSUME NEW p \in Friends[n], {n, p} \notin e.broken
      PROVE  Quiet(n, p, d, e, btc) \/ Takes(n, p, d, e, ref, btc)
  <2>1. p \in Nodes /\ Tidy(p, Desk(p))
    BY FriendsAssumption DEF DesksSound
  <2>2. CASE p # PeerOf(n, ref)
    BY <1>2, <1>4, <2>1, <2>2, OthersQuiet
  <2>3. CASE p = PeerOf(n, ref)
    <3>1. PICK o : o = Desk(p)
      OBVIOUS
    <3>2. Agreeing(n, p, d, o, btc)
      BY <1>3, <1>6, <3>1 DEF DeskFine
    <3> QED
      BY <1>1, <1>6, <2>1, <2>3, <3>1, <3>2, SettleTakes
  <2> QED
    BY <2>2, <2>3
<1>7. DeskFine(n, e)
  BY <1>2, <1>3, <1>6, DeskStep
<1> QED
  BY <1>1, <1>5, <1>7

LEMMA PollOneFine ==
    ASSUME OneWay, DesksSound, NEW n \in Nodes, NEW d, DeskOK(n, d), DeskFine(n, d),
           NEW ref \in Range(d.book.list), NEW old, NEW seen,
           \A t \in seen : btc[t] # "waiting", NEW fails
    PROVE  LET e == PollOne(n, d, ref, old, seen, fails)
           IN DeskFine(n, e) /\ Follows(d, e, old, seen)
<1>1. PICK e : e = PollOne(n, d, ref, old, seen, fails)
  OBVIOUS
<1>2. CASE ref \in old
  <2>1. e = Expire(n, d, ref)
    BY <1>1, <1>2 DEF PollOne
  <2> QED
    BY <1>1, <1>2, <2>1, ExpireFine
<1>3. CASE ref \notin old /\ ~Due(d.book, ref, seen)
  <2>1. e = d
    BY <1>1, <1>3 DEF PollOne
  <2> QED
    BY <1>1, <2>1 DEF Follows
<1>4. CASE ref \notin old /\ Due(d.book, ref, seen)
  <2>1. e = Settle(n, d, ref, fails)
    BY <1>1, <1>4 DEF PollOne
  <2>2. d.book.contract[ref].active /\ ref.tx \in seen /\ btc[ref.tx] # "waiting"
    BY <1>4 DEF Due
  <2>3. CASE fails = "removal"
    <3>1. e = [d EXCEPT !.book = Delete(@, ref)]
      BY <2>1, <2>3 DEF Settle
    <3> QED
      BY <1>1, <2>2, <3>1, RemovalFine
  <2>4. CASE fails # "removal"
    BY <1>1, <2>1, <2>2, <2>4, SettleFine
  <2> QED
    BY <2>3, <2>4
<1> QED
  BY <1>2, <1>3, <1>4

\* A round over contracts of n's list.
LEMMA RoundFine ==
    ASSUME OneWay, DesksSound, NEW n \in Nodes, DeskOK(n, Desk(n)), DeskFine(n, Desk(n)),
           NEW list, Len(list) \in Nat, IsInjective(list), DOMAIN list = 1..Len(list),
           \A i \in DOMAIN list : list[i] \in Range(books[n].list),
           NEW old, NEW seen, \A t \in seen : btc[t] # "waiting", NEW failure
    PROVE  LET e == Round(n, list, old, seen, failure)
           IN DeskFine(n, e) /\ Follows(Desk(n), e, old, seen)
<1> DEFINE m == Len(list)
<1>1. PICK f : /\ Steps(f, n, m, list, old, seen, failure)
               /\ Round(n, list, old, seen, failure) = f[m]
  BY RoundSteps
<1>2. PICK dn : dn = Desk(n)
  OBVIOUS
<1> DEFINE P(x, i) == PollOne(n, x, list[i], old, seen, FailsFor(list[i], failure))
           Fine(x, k) ==
               /\ DeskOK(n, x) /\ DeskFine(n, x) /\ Follows(dn, x, old, seen)
               /\ \A j \in (k + 1)..m : list[j] \in Range(x.book.list)
           T == {k \in 0..m : Fine(f[k], k)}
<1>3. f = [i \in 0..m |-> IF i = 0 THEN dn ELSE P(f[i - 1], i)]
  BY <1>1, <1>2 DEF Steps
<1>4. 0 \in T
  <2>1. f[0] = dn /\ 0 \in 0..m
    BY <1>3
  <2>2. DeskOK(n, dn) /\ DeskFine(n, dn) /\ dn.book = books[n]
    BY <1>2 DEF Desk
  <2>3. Follows(dn, dn, old, seen)
    BY DEF Follows
  <2>4. \A j \in (0 + 1)..m : list[j] \in Range(dn.book.list)
    BY <2>2
  <2> QED
    BY <2>1, <2>2, <2>3, <2>4
<1>5. ASSUME NEW k \in 0..(m - 1), k \in T
      PROVE  k + 1 \in T
  <2> DEFINE x == f[k]
             y == f[k + 1]
  <2>1. /\ DeskOK(n, x) /\ DeskFine(n, x) /\ Follows(dn, x, old, seen)
        /\ \A j \in (k + 1)..m : list[j] \in Range(x.book.list)
    BY <1>5
  <2>2. y = P(x, k + 1)
    <3>1. k + 1 \in 0..m /\ k + 1 # 0 /\ (k + 1) - 1 = k
      OBVIOUS
    <3> HIDE DEF P
    <3> QED
      BY <1>3, <3>1
  <2>3. PICK ref : ref = list[k + 1]
    OBVIOUS
  <2>4. ref \in Range(x.book.list)
    BY <2>1, <2>3
  <2>5. PICK g : g = FailsFor(list[k + 1], failure)
    OBVIOUS
  <2>6. y = PollOne(n, x, ref, old, seen, g)
    BY <2>2, <2>3, <2>5
  <2> HIDE DEF x, y
  <2>7. DeskOK(n, y) /\ Passed(x, y, ref)
    BY <2>1, <2>4, <2>6, PollOneFacts
  <2>8. DeskFine(n, y) /\ Follows(x, y, old, seen)
    BY <2>1, <2>4, <2>6, PollOneFine
  <2>9. Follows(dn, y, old, seen)
    BY <2>1, <2>8, FollowsTwice
  <2>10. ASSUME NEW j \in (k + 2)..m
         PROVE  list[j] \in Range(y.book.list)
    <3>1. j \in DOMAIN list /\ k + 1 \in DOMAIN list /\ j # k + 1 /\ j \in (k + 1)..m
      OBVIOUS
    <3>2. list[j] \in Range(x.book.list) /\ list[j] # ref
      BY <2>1, <2>3, <3>1 DEF IsInjective
    <3> QED
      BY <2>7, <3>2 DEF Passed
  <2>11. Fine(y, k + 1)
    BY <2>7, <2>8, <2>9, <2>10
  <2> QED
    BY <2>11 DEF y
<1>6. m \in 0..m /\ m \in Nat
  OBVIOUS
<1> HIDE DEF T
<1>7. m \in T
  BY <1>4, <1>5, <1>6, InductionUpTo
<1> QED
  BY <1>1, <1>2, <1>7 DEF T

-----------------------------------------------------------------------------
(* What all steps preserve, in parts.                                      *)

PairsAgree ==
    \A n \in Nodes : \A p \in Friends[n] :
        {n, p} \notin broken => Agreeing(n, p, Desk(n), Desk(p), btc)
LinesRise ==
    \A n \in Nodes : \A p \in Friends[n] : {n, p} \notin broken => LineRises(n, p)
CInv == IInv /\ PaidIsConfirmed /\ SellersDecide /\ PairsAgree /\ LinesRise

LEMMA CInvIsConcord == CInv => Concord
<1> SUFFICES ASSUME CInv
             PROVE  Concord
  OBVIOUS
<1>1. Sound
  BY IInvIsSound DEF CInv
<1>2. FriendsConcur
  BY DEF CInv, PairsAgree, LinesRise, FriendsConcur, Agreeing
<1> QED
  BY <1>1, <1>2 DEF CInv, Concord

LEMMA DeskFacts ==
    ASSUME IInv, NEW n \in Nodes
    PROVE  /\ DeskOK(n, Desk(n)) /\ Tidy(n, Desk(n))
           /\ Desk(n).book = books[n] /\ Desk(n).paid = paid[n]
           /\ Desk(n).left = left[n] /\ Desk(n).broken = broken
<1>1. DeskOK(n, Desk(n))
  BY DEF IInv, NodeOK
<1> QED
  BY <1>1, DeskIsTidy DEF Desk

LEMMA DesksTidy == IInv => \A n \in Nodes : Tidy(n, Desk(n))
  BY DeskFacts

LEMMA DesksStayTidy == IInv' => \A n \in Nodes : Tidy(n, Desk(n)')
<1>1. IInv' => (\A n \in Nodes : Tidy(n, Desk(n)))'
  BY DesksTidy, PTL
<1> QED
  BY <1>1

LEMMA PaidForInBitcoins ==
    ASSUME PaidIsConfirmed, NEW n \in Nodes
    PROVE  IsPaidFor(Desk(n), btc)
  BY DEF PaidIsConfirmed, IsPaidFor, IsTaken, Desk

LEMMA AllDesksSound == IInv /\ PaidIsConfirmed => DesksSound
  BY DeskFacts, PaidForInBitcoins DEF DesksSound

LEMMA FineDesks ==
    ASSUME PairsAgree, NEW n \in Nodes
    PROVE  DeskFine(n, Desk(n))
<1>1. Desk(n).broken = broken
  BY DEF Desk
<1> QED
  BY <1>1 DEF PairsAgree, DeskFine

\* A desk that differs in what others broke.
Kin(x, y) == y.book = x.book /\ y.paid = x.paid /\ y.left = x.left

LEMMA KinQuiet ==
    ASSUME NEW n \in Nodes, NEW x, NEW y, Tidy(n, x), Kin(x, y), NEW q \in Nodes,
           NEW became
    PROVE  Tidy(n, y) /\ Quiet(n, q, x, y, became)
<1>1. Tidy(n, y)
  BY DEF Kin, Tidy, IsTaken, IsOpen
<1>2. StoredAlike(x, y)
  BY DEF Kin, StoredAlike, Stays, Alike, IsOpen, IsTaken, IsFirm, Value
<1> QED
  BY <1>1, <1>2, AllQuiet

\* Both friends move, and neither takes anything.
LEMMA PairMoves ==
    ASSUME NEW n \in Nodes, NEW p \in Nodes, NEW x, NEW o, NEW y, NEW q, NEW became,
           BothTidy(n, p, x, o, y, q), IsPaidFor(o, became) /\ IsPaidFor(y, became),
           Agreeing(n, p, x, o, became),
           Quiet(n, p, x, y, became) /\ Quiet(p, n, o, q, became)
    PROVE  Agreeing(n, p, y, q, became)
<1>1. BothTidy(n, p, x, o, y, o) /\ BothTidy(p, n, o, y, q, y)
  BY DEF BothTidy
<1>2. Agreeing(n, p, y, o, became)
  BY <1>1, QuietStep
<1>3. Agreeing(p, n, o, y, became)
  BY <1>2, AgreeingBothWays
<1>4. Agreeing(p, n, q, y, became)
  BY <1>1, <1>3, QuietStep
<1> QED
  BY <1>4, AgreeingBothWays

\* A step in which n takes nothing that it has with p.
StaysQuiet(n, p) == Quiet(n, p, Desk(n), Desk(n)', btc)

LEMMA PairStill ==
    ASSUME IInv, PaidIsConfirmed, PairsAgree, IInv', paid' = paid,
           NEW n \in Nodes, NEW p \in Friends[n], {n, p} \notin broken,
           StaysQuiet(n, p), StaysQuiet(p, n)
    PROVE  Agreeing(n, p, Desk(n)', Desk(p)', btc)
<1>1. p \in Nodes
  BY FriendsAssumption
<1>2. PICK x, y : x = Desk(n) /\ y = Desk(n)'
  OBVIOUS
<1>3. PICK o, q : o = Desk(p) /\ q = Desk(p)'
  OBVIOUS
<1>4. Tidy(n, x) /\ Tidy(p, o)
  BY <1>1, <1>2, <1>3, DeskFacts
<1>5. Tidy(n, y) /\ Tidy(p, q)
  BY <1>1, <1>2, <1>3, DesksStayTidy
<1>6. IsPaidFor(o, btc) /\ IsPaidFor(y, btc)
  <2>1. y.paid = x.paid
    BY <1>2 DEF Desk
  <2>2. IsPaidFor(x, btc) /\ IsPaidFor(o, btc)
    BY <1>1, <1>2, <1>3, PaidForInBitcoins
  <2> QED
    BY <2>1, <2>2 DEF IsPaidFor, IsTaken
<1>7. Agreeing(n, p, x, o, btc)
  BY <1>2, <1>3 DEF PairsAgree
<1>8. Quiet(n, p, x, y, btc) /\ Quiet(p, n, o, q, btc)
  BY <1>1, <1>2, <1>3 DEF StaysQuiet
<1>9. BothTidy(n, p, x, o, y, q)
  BY <1>4, <1>5 DEF BothTidy
<1>10. Agreeing(n, p, y, q, btc)
  BY <1>1, <1>6, <1>7, <1>8, <1>9, PairMoves
<1> QED
  BY <1>2, <1>3, <1>10

\* A step in which nobody takes anything, seen from all pairs.
LEMMA AllMove ==
    ASSUME IInv, PaidIsConfirmed, PairsAgree, IInv', paid' = paid, broken \subseteq broken',
           \A n \in Nodes : \A p \in Friends[n] : {n, p} \notin broken' => StaysQuiet(n, p)
    PROVE  \A n \in Nodes : \A p \in Friends[n] :
               {n, p} \notin broken' => Agreeing(n, p, Desk(n)', Desk(p)', btc)
<1> SUFFICES ASSUME NEW n \in Nodes, NEW p \in Friends[n], {n, p} \notin broken'
             PROVE  Agreeing(n, p, Desk(n)', Desk(p)', btc)
  OBVIOUS
<1>1. p \in Nodes /\ n \in Friends[p] /\ {p, n} = {n, p}
  BY FriendsAssumption
<1>2. StaysQuiet(n, p) /\ StaysQuiet(p, n) /\ {n, p} \notin broken
  BY <1>1
<1> QED
  BY <1>2, PairStill

\* A step in which one desk moves and its friends' only hear what is broken.
LEMMA OneMoves ==
    ASSUME IInv, PaidIsConfirmed, PairsAgree, IInv', PaidIsConfirmed', btc' = btc,
           NEW n \in Nodes, NEW e, DeskOK(n, e), DeskFine(n, e), PutDesk(n, e),
           broken \subseteq e.broken
    PROVE  PairsAgree'
<1>1. /\ books'[n] = e.book /\ paid'[n] = e.paid /\ left'[n] = e.left /\ broken' = e.broken
      /\ \A m \in Nodes : m # n =>
            books'[m] = books[m] /\ paid'[m] = paid[m] /\ left'[m] = left[m]
  BY DEF IInv, World, PutDesk
<1>2. Desk(n)' = e
  BY <1>1 DEF Desk, DeskOK
<1>3. \A m \in Nodes : m # n => Kin(Desk(m), Desk(m)')
  BY <1>1 DEF Desk, Kin
<1>4. IsPaidFor(e, btc)
  <2>1. (\A ref \in AllRefs : paid[n][ref] > 0 => btc[ref.tx] = "confirmed")'
    BY DEF PaidIsConfirmed
  <2> QED
    BY <1>1, <2>1 DEF IsPaidFor, IsTaken
<1>5. Tidy(n, e)
  BY DeskIsTidy
\* A pair that n is in.
<1>6. ASSUME NEW p \in Friends[n], {n, p} \notin broken'
      PROVE  Agreeing(n, p, e, Desk(p)', btc)
  <2>1. p \in Nodes /\ p # n
    BY FriendsAssumption
  <2>2. PICK o, q : o = Desk(p) /\ q = Desk(p)'
    OBVIOUS
  <2>3. Tidy(p, o) /\ IsPaidFor(o, btc) /\ Kin(o, q)
    BY <1>3, <2>1, <2>2, DeskFacts, PaidForInBitcoins
  <2>4. Tidy(p, q) /\ Quiet(p, n, o, q, btc)
    BY <2>1, <2>3, KinQuiet
  <2>5. Quiet(n, p, e, e, btc)
    BY <1>5, <2>1, KinQuiet DEF Kin
  <2>6. Agreeing(n, p, e, o, btc)
    BY <1>1, <1>6, <2>2 DEF DeskFine
  <2>7. BothTidy(n, p, e, o, e, q)
    BY <1>5, <2>3, <2>4 DEF BothTidy
  <2>8. IsPaidFor(o, btc) /\ IsPaidFor(e, btc) /\ Quiet(n, p, e, e, btc) /\ Quiet(p, n, o, q, btc)
    BY <1>4, <2>3, <2>4, <2>5
  <2>9. Agreeing(n, p, e, q, btc)
    BY <2>1, <2>6, <2>7, <2>8, PairMoves
  <2> QED
    BY <2>2, <2>9
<1>7. ASSUME NEW m \in Nodes, NEW p \in Friends[m], {m, p} \notin broken'
      PROVE  Agreeing(m, p, Desk(m)', Desk(p)', btc)
  <2>1. p \in Nodes /\ m \in Friends[p] /\ {p, m} = {m, p}
    BY FriendsAssumption
  <2>2. CASE m = n
    BY <1>2, <1>6, <1>7, <2>2
  <2>3. CASE p = n
    <3>1. Agreeing(n, m, e, Desk(m)', btc)
      BY <1>6, <1>7, <2>1, <2>3
    <3> QED
      BY <1>2, <2>3, <3>1, AgreeingBothWays
  <2>4. CASE m # n /\ p # n
    <3>1. PICK x, y : x = Desk(m) /\ y = Desk(m)'
      OBVIOUS
    <3>2. PICK o, q : o = Desk(p) /\ q = Desk(p)'
      OBVIOUS
    <3>3. Tidy(m, x) /\ Tidy(p, o) /\ Kin(x, y) /\ Kin(o, q)
      BY <1>3, <2>1, <2>4, <3>1, <3>2, DeskFacts
    <3>4. Tidy(m, y) /\ Tidy(p, q) /\ Quiet(m, p, x, y, btc) /\ Quiet(p, m, o, q, btc)
      BY <2>1, <3>3, KinQuiet
    <3>5. IsPaidFor(x, btc) /\ IsPaidFor(o, btc)
      BY <2>1, <3>1, <3>2, PaidForInBitcoins
    <3>6. IsPaidFor(o, btc) /\ IsPaidFor(y, btc)
      BY <3>3, <3>5 DEF Kin, IsPaidFor, IsTaken
    <3>7. Agreeing(m, p, x, o, btc)
      BY <1>1, <1>7, <3>1, <3>2 DEF PairsAgree
    <3>8. BothTidy(m, p, x, o, y, q)
      BY <3>3, <3>4 DEF BothTidy
    <3>9. Agreeing(m, p, y, q, btc)
      BY <2>1, <3>4, <3>6, <3>7, <3>8, PairMoves
    <3> QED
      BY <3>1, <3>2, <3>9
  <2> QED
    BY <2>2, <2>3, <2>4
<1> QED
  BY <1>7 DEF PairsAgree

\* Rows of n go only with their objects, and if the deal was not decided by
\* the seller, then because nobody waits for the seller any more.
Thins(n, b, c) ==
    /\ StoredRefs(c) \subseteq StoredRefs(b)
    /\ Range(c.list) \subseteq Range(b.list) \cup StoredRefs(c)
    /\ \A ref \in StoredRefs(b) : ref \notin StoredRefs(c) =>
          ref \notin Range(c.list) /\ (ref \in DayOld(n) \/ btc[ref.tx] # "waiting")

\* A seller that may still decide is undecided.
LEMMA SellerUndecided ==
    ASSUME IInv, NEW n \in Nodes, NEW d \in Deals, IsSeller(n, d), Offers(n, d),
           Claim(d) \notin StoredRefs(books[n])
    PROVE  Undecided(n, d)
<1>1. SoundBook(n, books[n]) /\ (~up[n] => books[n].list = <<>>)
  BY NodeFacts
<1>2. Claim(d) \in Range(books[n].list)
  BY DEF Offers
<1>3. books[n].list # <<>>
  BY <1>2 DEF Range
<1>4. Listed(books[n], Claim(d))
  <2>1. PICK b : b = books[n]
    OBVIOUS
  <2> QED
    BY <1>1, <1>2, <2>1, ListedFacts
<1>5. ~books[n].contract[Claim(d)].active
  BY <1>1, <1>2 DEF SoundBook, ObjectsMatchRows
<1>6. Refs(n, d) = {Claim(d)} /\ On(n, d)
  BY DEF IsSeller, Refs, IsPayee, Claim
<1> QED
  BY <1>1, <1>3, <1>4, <1>5, <1>6 DEF Undecided

LEMMA SellersStill ==
    ASSUME IInv, SellersDecide, btc' = btc, agreed' = agreed,
           \A n \in Nodes : Thins(n, books[n], books'[n])
    PROVE  SellersDecide'
<1> SUFFICES ASSUME NEW d \in Deals
             PROVE  /\ btc[d] # "waiting" => d \in Range(agreed)
                    /\ \A n \in Nodes : IsSeller(n, d) =>
                          IF btc[d] = "waiting"
                          THEN /\ Claim(d) \notin StoredRefs(books'[n])
                               /\ Offers(n, d)' => HopsAreComplete(d)'
                          ELSE Offers(n, d)' => Claim(d) \in StoredRefs(books'[n])
  BY DEF SellersDecide
<1>1. btc[d] # "waiting" => d \in Range(agreed)
  BY DEF SellersDecide
<1>2. ASSUME NEW n \in Nodes, IsSeller(n, d), btc[d] = "waiting"
      PROVE  /\ Claim(d) \notin StoredRefs(books'[n])
             /\ Offers(n, d)' => HopsAreComplete(d)'
  <2>1. /\ Claim(d) \notin StoredRefs(books[n])
        /\ Offers(n, d) => HopsAreComplete(d)
    BY <1>2 DEF SellersDecide
  <2>2. Claim(d) \notin StoredRefs(books'[n])
    BY <2>1 DEF Thins
  <2>3. ASSUME Offers(n, d)'
        PROVE  HopsAreComplete(d)'
    <3>1. Claim(d) \in Range(books'[n].list)
      BY <2>3 DEF Offers
    <3>2. Offers(n, d)
      BY <2>2, <3>1 DEF Thins, Offers
    <3>3. Undecided(n, d)
      BY <1>2, <2>1, <3>2, SellerUndecided
    <3>4. ASSUME NEW m \in Nodes, IsHop(m, d), Debt(d) \in StoredRefs(books'[m]),
                 Claim(d) \notin StoredRefs(books'[m])
          PROVE  FALSE
      <4>1. Claim(d) \in StoredRefs(books[m])
        BY <2>1, <3>2, <3>4 DEF HopsAreComplete, Thins
      <4>2. Claim(d) \in DayOld(m)
        BY <1>2, <3>4, <4>1, ContractsDiffer DEF Thins
      <4> QED
        BY <3>3, <4>2, ContractsDiffer DEF DayOld
    <3> QED
      BY <3>4 DEF HopsAreComplete
  <2> QED
    BY <2>2, <2>3
<1>3. ASSUME NEW n \in Nodes, IsSeller(n, d), btc[d] # "waiting", Offers(n, d)'
      PROVE  Claim(d) \in StoredRefs(books'[n])
  <2>1. Claim(d) \in Range(books'[n].list)
    BY <1>3 DEF Offers
  <2>2. Claim(d) \in Range(books[n].list) => Claim(d) \in StoredRefs(books[n])
    BY <1>3 DEF SellersDecide, Offers
  <2> QED
    BY <2>1, <2>2 DEF Thins
<1> QED
  BY <1>1, <1>2, <1>3

\* The lines that nodes wrote stay, and no item is sent.
LEMMA LinesStill ==
    ASSUME LinesRise, broken \subseteq broken', untold' = untold,
           \A n \in Nodes : SameLines(books[n], books'[n]),
           \A n, p \in Nodes : net'[n][p] \in {net[n][p], <<>>}
    PROVE  LinesRise'
<1> SUFFICES ASSUME NEW n \in Nodes, NEW p \in Friends[n], {n, p} \notin broken'
             PROVE  LineRises(n, p)'
  BY DEF LinesRise
<1>1. p \in Nodes /\ LineRises(n, p)
  BY FriendsAssumption DEF LinesRise
<1>2. /\ Load(books'[n], p).credit = Load(books[n], p).credit
      /\ Load(books'[p], n).our_credit = Load(books[p], n).our_credit
  BY <1>1 DEF SameLines, Load
<1>3. CASE net'[n][p] = <<>>
  BY <1>1, <1>2, <1>3 DEF LineRises
<1>4. CASE net'[n][p] = net[n][p]
  BY <1>1, <1>2, <1>4 DEF LineRises
<1> QED
  BY <1>1, <1>3, <1>4

-----------------------------------------------------------------------------
(* Rounds and the end of a process.                                        *)

LEMMA PutFine ==
    ASSUME CInv, IInv', NEW n \in Nodes, NEW e, DeskOK(n, e), DeskFine(n, e),
           SameLines(books[n], e.book), PutDesk(n, e),
           NEW old, old \subseteq DayOld(n), NEW seen, seen \subseteq Confirmed,
           Follows(Desk(n), e, old, seen),
           agreed' = agreed, btc' = btc, untold' = untold,
           \A m, p \in Nodes : net'[m][p] \in {net[m][p], <<>>}
    PROVE  CInv'
<1>1. /\ books'[n] = e.book /\ paid'[n] = e.paid /\ broken' = e.broken
      /\ \A m \in Nodes : m # n => books'[m] = books[m] /\ paid'[m] = paid[m]
  BY DEF CInv, IInv, World, PutDesk
<1>2. Desk(n).book = books[n] /\ Desk(n).paid = paid[n] /\ Desk(n).broken = broken
  BY DEF Desk
<1>3. broken \subseteq e.broken
  BY <1>2 DEF Follows
<1>4. PaidIsConfirmed'
  <2>1. ASSUME NEW m \in Nodes, NEW ref \in AllRefs, paid'[m][ref] > 0
        PROVE  btc[ref.tx] = "confirmed"
    <3>1. CASE m # n
      BY <1>1, <2>1, <3>1 DEF CInv, PaidIsConfirmed
    <3>2. CASE m = n
      <4>1. IsTaken(e, ref)
        BY <1>1, <2>1, <3>2 DEF IsTaken
      <4>2. IsTaken(Desk(n), ref) \/ ref.tx \in seen
        BY <4>1 DEF Follows
      <4>3. ref.tx \in seen => btc[ref.tx] = "confirmed"
        BY DEF Confirmed
      <4>4. IsTaken(Desk(n), ref) => btc[ref.tx] = "confirmed"
        BY <1>2 DEF IsTaken, CInv, PaidIsConfirmed
      <4> QED
        BY <4>2, <4>3, <4>4
    <3> QED
      BY <3>1, <3>2
  <2> QED
    BY <2>1 DEF PaidIsConfirmed
<1>5. PairsAgree'
  BY <1>3, <1>4, OneMoves DEF CInv
<1>6. SellersDecide'
  <2>1. \A m \in Nodes : m # n => Thins(m, books[m], books'[m])
    BY <1>1 DEF Thins
  <2>2. Thins(n, books[n], books'[n])
    <3>1. \A t \in seen : btc[t] # "waiting"
      BY DEF Confirmed
    <3> QED
      BY <1>1, <1>2, <3>1 DEF Follows, Thins
  <2> QED
    BY <2>1, <2>2, SellersStill DEF CInv
<1>7. LinesRise'
  <2>1. \A m \in Nodes : SameLines(books[m], books'[m])
    BY <1>1 DEF SameLines
  <2> QED
    BY <1>1, <1>3, <2>1, LinesStill DEF CInv
<1> QED
  BY <1>4, <1>5, <1>6, <1>7 DEF CInv

LEMMA RoundOutcome ==
    ASSUME OneWay, CInv, NEW n \in Nodes, NEW k \in 0..Len(books[n].list),
           NEW list, list = books[n].list \/ list = SubSeq(books[n].list, 1, k),
           NEW old, NEW seen, seen \subseteq Confirmed, NEW failure
    PROVE  LET e == Round(n, list, old, seen, failure)
           IN /\ DeskOK(n, e) /\ SameLines(books[n], e.book)
              /\ DeskFine(n, e) /\ Follows(Desk(n), e, old, seen)
<1>1. /\ DeskOK(n, Desk(n)) /\ Len(list) \in Nat
      /\ IsInjective(list) /\ DOMAIN list = 1..Len(list)
      /\ \A i \in DOMAIN list : list[i] \in Range(books[n].list)
  BY ListFacts DEF CInv
<1>2. DesksSound /\ DeskFine(n, Desk(n))
  BY AllDesksSound, FineDesks DEF CInv
<1>3. \A t \in seen : btc[t] # "waiting"
  BY DEF Confirmed
<1>4. LET e == Round(n, list, old, seen, failure)
      IN DeskOK(n, e) /\ SameLines(books[n], e.book)
  BY <1>1, RoundKeeps
<1>5. LET e == Round(n, list, old, seen, failure)
      IN DeskFine(n, e) /\ Follows(Desk(n), e, old, seen)
  BY <1>1, <1>2, <1>3, RoundFine
<1> QED
  BY <1>4, <1>5

LEMMA PollKeeps ==
    ASSUME OneWay, CInv, IInv', NEW n \in Nodes, NEW old, old \subseteq DayOld(n),
           NEW seen, seen \subseteq Confirmed, NEW failure,
           PutDesk(n, Round(n, books[n].list, old, seen, failure)),
           UNCHANGED <<up, online, net, untold, agreed, btc, payments>>
    PROVE  CInv'
<1>1. PICK e : e = Round(n, books[n].list, old, seen, failure)
  OBVIOUS
<1>2. 0 \in 0..Len(books[n].list)
  <2>1. books[n].list \in Seq(DOMAIN books[n].contract)
    BY NodeFacts DEF CInv, SoundBook, IsBook
  <2> QED
    BY <2>1
<1>3. PICK list : list = books[n].list
  OBVIOUS
<1>4. /\ DeskOK(n, e) /\ SameLines(books[n], e.book)
      /\ DeskFine(n, e) /\ Follows(Desk(n), e, old, seen)
  BY <1>1, <1>2, <1>3, RoundOutcome
<1>5. PutDesk(n, e) /\ agreed' = agreed /\ btc' = btc /\ untold' = untold /\ net' = net
  BY <1>1
<1>6. \A m, p \in Nodes : net'[m][p] \in {net[m][p], <<>>}
  BY <1>5
<1> QED
  BY <1>4, <1>5, <1>6, PutFine

LEMMA PollConcurs ==
    ASSUME OneWay, CInv, NEW n \in Nodes, Poll(n)
    PROVE  CInv'
<1>1. PutDesk(n, Round(n, books[n].list, {}, Confirmed, NoFailure))
  BY DEF Poll
<1>2. UNCHANGED <<up, online, net, untold, agreed, btc, payments>>
  BY DEF Poll
<1>3. IInv'
  BY PollOK DEF CInv
<1>4. PICK old, seen : old = {} /\ seen = Confirmed
  OBVIOUS
<1> QED
  BY <1>1, <1>2, <1>3, <1>4, PollKeeps

LEMMA PollBadlyConcurs ==
    ASSUME OneWay, CInv, NEW n \in Nodes, PollBadly(n)
    PROVE  CInv'
<1>1. PICK old \in SUBSET (IF "dayold" \in Faults THEN DayOld(n) ELSE {}),
           seen \in SUBSET Confirmed,
           failure \in {NoFailure} \cup
             (IF "dberror" \in Faults THEN Range(books[n].list) \X DbWrites ELSE {}) :
           PutDesk(n, Round(n, books[n].list, old, seen, failure))
  BY DEF PollBadly
<1>2. UNCHANGED <<up, online, net, untold, agreed, btc, payments>>
  BY DEF PollBadly
<1>3. IInv'
  BY PollBadlyOK DEF CInv
<1>4. old \subseteq DayOld(n) /\ seen \subseteq Confirmed
  OBVIOUS
<1> QED
  BY <1>1, <1>2, <1>3, <1>4, PollKeeps

\* A contract between friends that agree is firm once the Bitcoins are on their
\* way.
LEMMA FirmContract ==
    ASSUME NEW n \in Nodes, NEW p \in Nodes, NEW x, NEW o, NEW became,
           Agreeing(n, p, x, o, became), NEW ref \in WithPeer(n, p), ~IsFirm(x, ref)
    PROVE  became[ref.tx] = "waiting"
<1>1. OwnRef(n, ref) /\ PeerOf(n, ref) = p
  BY DEF WithPeer
<1>2. \/ ref = Debt(ref.tx) /\ ref.tx \in Bought(n, p)
      \/ ref = Claim(ref.tx) /\ ref.tx \in Bought(p, n)
  BY <1>1, WithFriend
<1> QED
  BY <1>2 DEF Agreeing, AreFirm

\* The process of n ends with a desk.
LEMMA EndFine ==
    ASSUME OneWay, DesksSound, NEW n \in Nodes, NEW d, DeskOK(n, d), DeskFine(n, d),
           NEW old, NEW seen
    PROVE  LET e == Ended(n, d)
           IN DeskFine(n, e) /\ Follows(d, e, old, seen)
<1>1. PICK e : e = Ended(n, d)
  OBVIOUS
<1>2. /\ DeskOK(n, e) /\ e.book.list = <<>>
      /\ e.book.credit = d.book.credit /\ e.paid = d.paid /\ e.broken = d.broken
      /\ Open(e.book) = StoredRefs(d.book) /\ StoredRefs(e.book) = StoredRefs(d.book)
      /\ AmountsKept(d.book, e.book)
      /\ \A p \in Nodes : e.left[p] >= d.left[p]
  BY <1>1, EndedFacts
<1>3. Tidy(n, d) /\ Tidy(n, e)
  BY <1>2, DeskIsTidy
<1>4. Range(e.book.list) = {}
  BY <1>2 DEF Range
<1>5. Follows(d, e, old, seen)
  BY <1>2, <1>4 DEF Follows, IsTaken
<1>6. ASSUME NEW p \in Friends[n], {n, p} \notin e.broken
      PROVE  Quiet(n, p, d, e, btc)
  <2>1. p \in Nodes
    BY FriendsAssumption
  <2>2. Agreeing(n, p, d, Desk(p), btc)
    BY <1>2, <1>6 DEF DeskFine
  <2>3. ASSUME NEW ref \in WithPeer(n, p)
        PROVE  Stays(d, e, ref) \/ (Closes(d, e, ref) /\ btc[ref.tx] = "waiting")
    <3>1. ref \in AllRefs
      BY DEF WithPeer
    <3>2. CASE ref \in Range(d.book.list) \ StoredRefs(d.book)
      <4>1. ~IsTaken(d, ref) /\ ~IsTaken(e, ref) /\ ~IsOpen(e, ref) /\ ~IsFirm(d, ref)
        BY <1>2, <1>3, <3>1, <3>2 DEF Tidy, IsOpen, IsTaken, IsFirm, Open
      <4> QED
        BY <2>1, <2>2, <4>1, FirmContract DEF Closes
    <3>3. CASE ref \notin Range(d.book.list) \ StoredRefs(d.book)
      <4>1. ref \in Open(e.book) <=> ref \in Open(d.book)
        BY <1>2, <3>3 DEF Open
      <4>2. ref \in Open(d.book) => AmountOf(e.book, ref) = AmountOf(d.book, ref)
        BY <4>1 , <1>2 DEF AmountsKept
      <4> QED
        BY <1>2, <4>1, <4>2 DEF Stays, Alike, IsOpen, IsTaken, IsFirm, Value
    <3> QED
      BY <3>2, <3>3
  <2>4. p \in DOMAIN d.book.credit => RowFades(d, e, p)
    <3>1. ASSUME p \in DOMAIN d.book.credit
          PROVE  /\ MyAvailable(d.book.credit[p]) \in Int
                 /\ PeerAvailable(d.book.credit[p]) \in Int
      BY <1>3, <3>1, RowTypes
    <3> QED
      BY <1>2, <3>1 DEF RowFades
  <2> QED
    BY <1>2, <2>1, <2>3, <2>4 DEF Quiet
<1>7. PICK ref : ref = Debt(n)
  OBVIOUS
<1>8. DeskFine(n, e)
  <2>1. d.broken \subseteq e.broken
    BY <1>2
  <2>2. \A p \in Friends[n] : {n, p} \notin e.broken =>
            Quiet(n, p, d, e, btc) \/ Takes(n, p, d, e, ref, btc)
    BY <1>6
  <2> QED
    BY <1>3, <2>1, <2>2, DeskStep
<1> QED
  BY <1>1, <1>5, <1>8

LEMMA CrashConcurs ==
    ASSUME OneWay, CInv, NEW n \in Nodes, Crash(n)
    PROVE  CInv'
<1>1. PICK done \in 0..Len(books[n].list) :
          PutDesk(n, Ended(n, Round(n, SubSeq(books[n].list, 1, done), {}, Confirmed,
                                    NoFailure)))
  BY DEF Crash
<1>2. /\ net' = [f \in Nodes |-> [t \in Nodes |->
                    IF n \in {f, t} THEN <<>> ELSE net[f][t]]]
      /\ untold' = untold /\ agreed' = agreed /\ btc' = btc
  BY DEF Crash
<1>3. IInv'
  BY CrashOK DEF CInv
<1>4. PICK old, seen : old = {} /\ seen = Confirmed
  OBVIOUS
<1>5. PICK list : list = SubSeq(books[n].list, 1, done)
  OBVIOUS
<1>6. PICK d : d = Round(n, list, old, seen, NoFailure)
  OBVIOUS
<1>7. PICK e : e = Ended(n, d)
  OBVIOUS
<1>8. PutDesk(n, e)
  BY <1>1, <1>4, <1>5, <1>6, <1>7
<1>9. /\ DeskOK(n, d) /\ SameLines(books[n], d.book)
      /\ DeskFine(n, d) /\ Follows(Desk(n), d, old, seen)
  BY <1>4, <1>5, <1>6, RoundOutcome
<1>10. DeskOK(n, e) /\ SameLines(d.book, e.book)
  BY <1>7, <1>9, EndedFacts
<1>11. DeskFine(n, e) /\ Follows(d, e, old, seen)
  BY <1>7, <1>9, EndFine, AllDesksSound DEF CInv
<1>12. SameLines(books[n], e.book)
  BY <1>9, <1>10 DEF SameLines
<1>13. Follows(Desk(n), e, old, seen)
  <2>1. PICK x : x = Desk(n)
    OBVIOUS
  <2>2. Follows(x, e, old, seen)
    BY <1>9, <1>11, <2>1, FollowsTwice
  <2> QED
    BY <2>1, <2>2
<1>14. \A m, p \in Nodes : net'[m][p] \in {net[m][p], <<>>}
  BY <1>2
<1>15. old \subseteq DayOld(n) /\ seen \subseteq Confirmed
  BY <1>4
<1> QED
  BY <1>2, <1>3, <1>8, <1>10, <1>11, <1>12, <1>13, <1>14, <1>15, PutFine

-----------------------------------------------------------------------------
(* Contracts are reloaded, stored, rolled back and paid for.               *)

\* Agreeing in the next state, but on what has become of the Bitcoins.
PairsStillAgree ==
    \A n \in Nodes : \A p \in Friends[n] :
        {n, p} \notin broken' => Agreeing(n, p, Desk(n)', Desk(p)', btc)

LEMMA PairsStill ==
    ASSUME PairsStillAgree, btc' = btc
    PROVE  PairsAgree'
  BY DEF PairsStillAgree, PairsAgree

\* One book changes, its lines do not.
LEMMA BookMoves ==
    ASSUME CInv, IInv', NEW n \in Nodes, NEW c, books' = [books EXCEPT ![n] = c],
           UNCHANGED <<net, untold, paid, left, broken>>, SameLines(books[n], c),
           \A p \in Friends[n] : {n, p} \notin broken => Quiet(n, p, Desk(n), Desk(n)', btc)
    PROVE  LinesRise' /\ PairsStillAgree
<1>1. books'[n] = c /\ \A m \in Nodes : m # n => books'[m] = books[m]
  BY DEF CInv, IInv, World
<1>2. net' = net /\ untold' = untold /\ paid' = paid /\ left' = left /\ broken' = broken
  OBVIOUS
<1>3. LinesRise'
  <2>1. \A m \in Nodes : SameLines(books[m], books'[m])
    BY <1>1 DEF SameLines
  <2> QED
    BY <1>2, <2>1, LinesStill DEF CInv
<1>4. ASSUME NEW m \in Nodes, NEW p \in Friends[m], {m, p} \notin broken'
      PROVE  Quiet(m, p, Desk(m), Desk(m)', btc)
  <2>1. CASE m = n
    BY <1>2, <1>4, <2>1
  <2>2. CASE m # n
    <3>1. PICK x, y : x = Desk(m) /\ y = Desk(m)'
      OBVIOUS
    <3>2. Kin(x, y) /\ Tidy(m, x) /\ p \in Nodes
      BY <1>1, <1>2, <2>2, <3>1, DeskFacts, FriendsAssumption DEF Kin, Desk, CInv
    <3> QED
      BY <3>1, <3>2, KinQuiet
  <2> QED
    BY <2>1, <2>2
<1>5. PairsStillAgree
  BY <1>2, <1>4, AllMove DEF PairsStillAgree, StaysQuiet, CInv
<1> QED
  BY <1>3, <1>5

\* Desks before and after one book changed.
Rewrites(n, c) == books' = [books EXCEPT ![n] = c] /\ paid' = paid /\ left' = left
Moves(n, x, y) == x = Desk(n) /\ y = Desk(n)'

LEMMA NewDesk ==
    ASSUME IInv, IInv', NEW n \in Nodes, NEW c, Rewrites(n, c), NEW x, NEW y, Moves(n, x, y)
    PROVE  /\ Tidy(n, x) /\ Tidy(n, y) /\ x.book = books[n] /\ y.book = c
           /\ y.paid = x.paid /\ y.left = x.left
<1>1. books'[n] = c
  BY DEF IInv, World, Rewrites
<1>2. Tidy(n, x) /\ Tidy(n, y)
  BY DeskFacts, DesksStayTidy DEF Moves
<1> QED
  BY <1>1, <1>2 DEF Desk, Rewrites, Moves

LEMMA PaidStill ==
    ASSUME PaidIsConfirmed, paid' = paid, \A d \in Deals : btc[d] = "confirmed" => btc'[d] = btc[d]
    PROVE  PaidIsConfirmed'
  BY RefFacts DEF PaidIsConfirmed

LEMMA RestartConcurs ==
    ASSUME CInv, NEW n \in Nodes, Restart(n)
    PROVE  CInv'
<1>1. /\ net' = net /\ untold' = untold /\ paid' = paid /\ left' = left
      /\ broken' = broken /\ agreed' = agreed /\ btc' = btc
  BY DEF Restart
<1>2. IInv'
  BY RestartOK DEF CInv
<1>3. PICK c : /\ books' = [books EXCEPT ![n] = c] /\ Open(c) = Open(books[n])
               /\ StoredRefs(c) = StoredRefs(books[n]) /\ AmountsKept(books[n], c)
               /\ Range(c.list) = StoredRefs(books[n]) /\ c.credit = books[n].credit
  BY RestartOutcome DEF CInv
<1>4. PICK x, y : x = Desk(n) /\ y = Desk(n)'
  OBVIOUS
<1>5. /\ Tidy(n, x) /\ Tidy(n, y) /\ x.book = books[n] /\ y.book = c
      /\ y.paid = x.paid /\ y.left = x.left
  <2>1. IInv /\ Rewrites(n, c)
    BY <1>1, <1>3 DEF CInv, Rewrites
  <2>2. Moves(n, x, y)
    BY <1>4 DEF Moves
  <2> QED
    BY <1>2, <2>1, <2>2, NewDesk
<1>6. StoredAlike(x, y)
  <2>1. ASSUME NEW r \in AllRefs
        PROVE  Stays(x, y, r)
    BY <1>3, <1>5 DEF Stays, Alike, IsOpen, IsTaken, IsFirm, Value, AmountsKept
  <2> QED
    BY <1>3, <1>5, <2>1 DEF StoredAlike
<1>7. \A p \in Friends[n] : {n, p} \notin broken => Quiet(n, p, Desk(n), Desk(n)', btc)
  BY <1>4, <1>5, <1>6, AllQuiet, FriendsAssumption
<1>8. SameLines(books[n], c)
  BY <1>3 DEF SameLines
<1>9. LinesRise' /\ PairsAgree'
  BY <1>1, <1>2, <1>3, <1>7, <1>8, BookMoves, PairsStill
<1>10. SellersDecide'
  <2>1. books'[n] = c /\ \A m \in Nodes : m # n => books'[m] = books[m]
    BY <1>3 DEF CInv, IInv, World
  <2>2. \A m \in Nodes : Thins(m, books[m], books'[m])
    BY <1>3, <2>1 DEF Thins
  <2> QED
    BY <1>1, <2>2, SellersStill DEF CInv
<1>11. PaidIsConfirmed'
  BY <1>1, PaidStill DEF CInv
<1> QED
  BY <1>2, <1>9, <1>10, <1>11 DEF CInv

LEMMA ConfirmConcurs ==
    ASSUME CInv, NEW d \in Deals, Confirm(d)
    PROVE  CInv'
<1>1. /\ btc[d] = "sent" /\ btc' = [btc EXCEPT ![d] = "confirmed"]
      /\ net' = net /\ untold' = untold /\ paid' = paid /\ left' = left
      /\ broken' = broken /\ agreed' = agreed /\ books' = books
  BY DEF Confirm, lineVars
<1>2. IInv'
  BY ConfirmOK DEF CInv
<1>3. \A x \in Deals : /\ btc'[x] = "waiting" <=> btc[x] = "waiting"
                       /\ btc[x] = "confirmed" => btc'[x] = btc[x]
  BY <1>1 DEF CInv, IInv, World
<1>4. PaidIsConfirmed'
  BY <1>1, <1>3, PaidStill DEF CInv
<1>5. PairsAgree'
  <2>1. ASSUME NEW n \in Nodes, NEW p \in Friends[n], {n, p} \notin broken
        PROVE  Agreeing(n, p, Desk(n)', Desk(p)', btc')
    <3>1. Desk(n)' = Desk(n) /\ Desk(p)' = Desk(p)
      BY <1>1 DEF Desk
    <3>2. PICK x, y : x = Desk(n) /\ y = Desk(p)
      OBVIOUS
    <3>3. Agreeing(n, p, x, y, btc)
      BY <2>1, <3>2 DEF CInv, PairsAgree
    <3>4. Agreeing(n, p, x, y, btc')
      BY <1>3, <3>3, BoughtFinite DEF Agreeing, AreFirm
    <3> QED
      BY <3>1, <3>2, <3>4
  <2> QED
    BY <1>1, <2>1 DEF PairsAgree
<1>6. SellersDecide'
  BY <1>1, <1>3 DEF CInv, SellersDecide, Offers, HopsAreComplete
<1>7. LinesRise'
  BY <1>1 DEF CInv, LinesRise, LineRises
<1> QED
  BY <1>2, <1>4, <1>5, <1>6, <1>7 DEF CInv

\* The contracts of an undecided deal have no rows.
LEMMA UndecidedRefs ==
    ASSUME IInv, NEW n \in Nodes, NEW d \in Deals, Undecided(n, d), NEW ref \in Refs(n, d)
    PROVE  /\ ref \in Range(books[n].list) /\ ref \notin StoredRefs(books[n])
           /\ ref \in Open(books[n]) /\ ref.tx = d /\ ref \in AllRefs
<1>1. ref \in Range(books[n].list) /\ ~books[n].contract[ref].active
  BY DEF Undecided, Listed, Contains, Range
<1>2. SoundBook(n, books[n])
  BY NodeFacts
<1>3. ref \notin StoredRefs(books[n])
  BY <1>1, <1>2 DEF SoundBook, ObjectsMatchRows
<1>4. ref.tx = d /\ ref \in AllRefs
  BY DEF Refs, Ref, AllRefs, Parties
<1> QED
  BY <1>1, <1>3, <1>4 DEF Open

LEMMA AbandonConcurs ==
    ASSUME CInv, NEW n \in Nodes, NEW d \in Deals, Abandon(n, d)
    PROVE  CInv'
<1>1. /\ net' = net /\ untold' = untold /\ paid' = paid /\ left' = left
      /\ broken' = broken /\ agreed' = agreed /\ btc' = btc /\ Undecided(n, d)
  BY DEF Abandon
<1>2. IInv' /\ IInv
  BY AbandonOK DEF CInv
<1>3. PICK c : /\ books' = [books EXCEPT ![n] = c]
               /\ RollsBack(n, books[n], c, left[n], Refs(n, d))
  BY <1>2, AbandonOutcome
<1>4. PICK x, y : x = Desk(n) /\ y = Desk(n)'
  OBVIOUS
<1>5. /\ Tidy(n, x) /\ Tidy(n, y) /\ x.book = books[n] /\ y.book = c
      /\ y.paid = x.paid /\ y.left = x.left
  <2>1. Rewrites(n, c) /\ Moves(n, x, y)
    BY <1>1, <1>3, <1>4 DEF Rewrites, Moves
  <2> QED
    BY <1>2, <2>1, NewDesk
<1>6. /\ SameLines(x.book, y.book) /\ Open(y.book) = Open(x.book) \ Refs(n, d)
      /\ StoredRefs(y.book) = StoredRefs(x.book) \ Refs(n, d) /\ AmountsKept(x.book, y.book)
      /\ Range(y.book.list) = Range(x.book.list) \ Refs(n, d)
      /\ \A q \in DOMAIN x.book.credit :
            /\ y.book.credit[q].balance = x.book.credit[q].balance
            /\ y.book.credit[q].allocation <= x.book.credit[q].allocation
  BY <1>3, <1>5 DEF RollsBack, Settles
<1>7. \A ref \in Refs(n, d) : ref \in Open(x.book) /\ ref \notin StoredRefs(x.book)
  BY <1>1, <1>2, <1>5, UndecidedRefs
<1>8. ASSUME NEW p \in Friends[n], {n, p} \notin broken
      PROVE  Quiet(n, p, x, y, btc)
  <2>1. p \in Nodes
    BY FriendsAssumption
  <2>2. PICK o : o = Desk(p)
    OBVIOUS
  <2>3. Agreeing(n, p, x, o, btc)
    BY <1>4, <1>8, <2>2 DEF CInv, PairsAgree
  <2>4. ASSUME NEW ref \in WithPeer(n, p)
        PROVE  Stays(x, y, ref) \/ (Closes(x, y, ref) /\ btc[ref.tx] = "waiting")
    <3>1. ref \in AllRefs
      BY DEF WithPeer
    <3>2. CASE ref \in Refs(n, d)
      <4>1. ~IsTaken(x, ref) /\ ~IsTaken(y, ref) /\ ~IsOpen(y, ref) /\ ~IsFirm(x, ref)
        BY <1>5, <1>6, <1>7, <3>1, <3>2 DEF Tidy, IsOpen, IsTaken, IsFirm
      <4> QED
        BY <2>1, <2>3, <4>1, FirmContract DEF Closes
    <3>3. CASE ref \notin Refs(n, d)
      <4>1. /\ ref \in Open(y.book) <=> ref \in Open(x.book)
            /\ ref \in StoredRefs(y.book) <=> ref \in StoredRefs(x.book)
        BY <1>6, <3>3
      <4>2. ref \in Open(x.book) => AmountOf(y.book, ref) = AmountOf(x.book, ref)
        BY <1>6, <4>1 DEF AmountsKept
      <4> QED
        BY <1>5, <4>1, <4>2 DEF Stays, Alike, IsOpen, IsTaken, IsFirm, Value
    <3> QED
      BY <3>2, <3>3
  <2>5. ASSUME p \in DOMAIN x.book.credit
        PROVE  RowFades(x, y, p)
    <3>1. p \in DOMAIN y.book.credit
      BY <1>6, <2>5 DEF SameLines
    <3>2. PICK row, new : row = x.book.credit[p] /\ new = y.book.credit[p]
      OBVIOUS
    <3>3. row \in CreditRecord /\ new \in CreditRecord
      BY <1>5, <2>5, <3>1, <3>2, RowTypes
    <3>4. /\ new.credit = row.credit /\ new.our_credit = row.our_credit
          /\ new.balance = row.balance /\ new.allocation <= row.allocation
      BY <1>6, <2>5, <3>2 DEF SameLines
    <3>5. MyAvailable(new) >= MyAvailable(row) /\ PeerAvailable(new) >= PeerAvailable(row)
      BY <3>3, <3>4 DEF MyAvailable, PeerAvailable, CreditRecord
    <3> QED
      BY <3>1, <3>2, <3>4, <3>5 DEF RowFades
  <2>6. y.left[p] >= x.left[p]
    BY <1>5, <2>1 DEF Tidy
  <2> QED
    BY <2>4, <2>5, <2>6 DEF Quiet
<1>9. LinesRise' /\ PairsAgree'
  <2>1. SameLines(books[n], c)
    BY <1>5, <1>6
  <2>2. \A p \in Friends[n] : {n, p} \notin broken => Quiet(n, p, Desk(n), Desk(n)', btc)
    BY <1>4, <1>8
  <2> QED
    BY <1>1, <1>2, <1>3, <2>1, <2>2, BookMoves, PairsStill
<1>10. SellersDecide'
  <2>1. books'[n] = c /\ \A m \in Nodes : m # n => books'[m] = books[m]
    BY <1>2, <1>3 DEF IInv, World
  <2>2. \A m \in Nodes : Thins(m, books[m], books'[m])
    BY <1>5, <1>6, <1>7, <2>1 DEF Thins
  <2> QED
    BY <1>1, <2>2, SellersStill DEF CInv
<1>11. PaidIsConfirmed'
  BY <1>1, PaidStill DEF CInv
<1> QED
  BY <1>2, <1>9, <1>10, <1>11 DEF CInv

\* A route has one end, where the seller is.
LEMMA SellerFacts ==
    ASSUME NEW d \in Deals, NEW n \in Nodes
    PROVE  /\ On(n, d) /\ ~IsPayer(n, d) => IsSeller(n, d) /\ Position(n, d) = Len(Route[d])
           /\ On(n, d) => IsPayer(n, d) \/ IsPayee(n, d)
           /\ \A m \in Nodes : IsSeller(m, d) /\ IsSeller(n, d) => m = n
<1>1. Len(Route[d]) \in Nat /\ Len(Route[d]) > 1
  BY RouteAssumption
<1>2. \A m \in Nodes : On(m, d) => /\ Position(m, d) \in 1..Len(Route[d])
                                  /\ Route[d][Position(m, d)] = m
  BY PositionFacts
<1>3. On(n, d) => IsPayer(n, d) \/ IsPayee(n, d)
  BY <1>1, <1>2 DEF IsPayer, IsPayee
<1>4. \A m \in Nodes : On(m, d) /\ ~IsPayer(m, d) => Position(m, d) = Len(Route[d])
  BY <1>1, <1>2 DEF IsPayer
<1>5. ASSUME NEW m \in Nodes, IsSeller(m, d), IsSeller(n, d)
      PROVE  m = n
  <2>1. On(m, d) /\ On(n, d) /\ Position(m, d) = Len(Route[d]) /\ Position(n, d) = Len(Route[d])
    BY <1>4, <1>5 DEF IsSeller, IsPayee
  <2> QED
    BY <1>2, <2>1
<1> QED
  BY <1>3, <1>4, <1>5 DEF IsSeller

\* When the seller stores its contract, everybody else has stored theirs.
LEMMA SellerIsLast ==
    ASSUME CInv, NEW n \in Nodes, NEW d \in Deals, Commit(n, d), IsSeller(n, d)
    PROVE  /\ btc[d] = "waiting"
           /\ \A a, p \in Nodes : d \in Bought(a, p) =>
                 /\ Debt(d) \in StoredRefs(books[a])
                 /\ p # n => Claim(d) \in StoredRefs(books[p])
<1>1. /\ Undecided(n, d)
      /\ \A i \in 1..(Position(n, d) - 1) : Debt(d) \in StoredRefs(books[Route[d][i]])
  BY DEF Commit, Reaches, Debt
<1>2. Claim(d) \in Range(books[n].list) /\ Claim(d) \notin StoredRefs(books[n])
  <2>1. Claim(d) \in Refs(n, d)
    BY DEF IsSeller, Refs, Claim
  <2> QED
    BY <1>1, <2>1, UndecidedRefs DEF CInv
<1>3. btc[d] = "waiting" /\ HopsAreComplete(d)
  BY <1>2 DEF CInv, SellersDecide, Offers
<1>4. Len(Route[d]) \in Nat /\ Position(n, d) = Len(Route[d])
  BY RouteAssumption, SellerFacts DEF IsSeller, IsPayee
<1>5. ASSUME NEW a \in Nodes, IsPayer(a, d)
      PROVE  Debt(d) \in StoredRefs(books[a])
  <2>1. Position(a, d) \in 1..Len(Route[d]) /\ Route[d][Position(a, d)] = a
    BY <1>5, PositionFacts DEF IsPayer
  <2>2. Position(a, d) \in 1..(Position(n, d) - 1)
    BY <1>4, <1>5, <2>1 DEF IsPayer
  <2> QED
    BY <1>1, <2>1, <2>2
<1>6. ASSUME NEW a \in Nodes, NEW p \in Nodes, d \in Bought(a, p), p # n
      PROVE  Claim(d) \in StoredRefs(books[p])
  <2>1. IsPayee(p, d)
    BY <1>6, Partners
  <2>2. IsPayer(p, d)
    BY <1>6, <2>1, SellerFacts DEF IsSeller
  <2> QED
    BY <1>3, <1>5, <2>1, <2>2 DEF HopsAreComplete, IsHop
<1> QED
  BY <1>3, <1>5, <1>6 DEF Bought

LEMMA CommitConcurs ==
    ASSUME CInv, NEW n \in Nodes, NEW d \in Deals, Commit(n, d)
    PROVE  CInv'
<1>1. /\ net' = net /\ untold' = untold /\ paid' = paid /\ left' = left
      /\ broken' = broken /\ agreed' = agreed /\ Undecided(n, d)
      /\ btc' = IF IsPayer(n, d) THEN btc ELSE [btc EXCEPT ![d] = "sent"]
  BY DEF Commit
<1>2. IInv' /\ IInv
  BY CommitOK DEF CInv
<1>3. PICK c : books' = [books EXCEPT ![n] = c] /\ Stores(n, books[n], c, Refs(n, d))
  BY <1>2, CommitOutcome
<1>4. PICK x, y : x = Desk(n) /\ y = Desk(n)'
  OBVIOUS
<1>5. /\ Tidy(n, x) /\ Tidy(n, y) /\ x.book = books[n] /\ y.book = c
      /\ y.paid = x.paid /\ y.left = x.left
  <2>1. Rewrites(n, c) /\ Moves(n, x, y)
    BY <1>1, <1>3, <1>4 DEF Rewrites, Moves
  <2> QED
    BY <1>2, <2>1, NewDesk
<1>6. /\ c.list = books[n].list /\ c.credit = books[n].credit /\ Open(c) = Open(books[n])
      /\ StoredRefs(c) = StoredRefs(books[n]) \cup Refs(n, d) /\ AmountsKept(books[n], c)
  BY <1>3 DEF Stores
<1>7. LinesRise' /\ PairsStillAgree
  <2>1. ASSUME NEW r \in AllRefs
        PROVE  Stays(x, y, r)
    BY <1>5, <1>6 DEF Stays, Alike, IsOpen, IsTaken, IsFirm, Value, AmountsKept
  <2>2. StoredAlike(x, y)
    BY <1>5, <1>6, <2>1 DEF StoredAlike
  <2>3. \A p \in Friends[n] : {n, p} \notin broken => Quiet(n, p, Desk(n), Desk(n)', btc)
    BY <1>4, <1>5, <2>2, AllQuiet, FriendsAssumption
  <2>4. SameLines(books[n], c)
    BY <1>6 DEF SameLines
  <2> QED
    BY <1>1, <1>2, <1>3, <2>3, <2>4, BookMoves
<1>8. /\ books'[n] = c /\ \A m \in Nodes : m # n => books'[m] = books[m]
      /\ btc \in [Deals -> {"waiting", "sent", "confirmed"}]
  BY <1>2, <1>3 DEF IInv, World
<1>9. On(n, d) /\ (IsSeller(n, d) <=> ~IsPayer(n, d))
  BY <1>1, SellerFacts DEF Undecided, IsSeller
<1>10. IsSeller(n, d) => btc[d] = "waiting"
  BY SellerIsLast
<1>11. PaidIsConfirmed'
  <2>1. \A e \in Deals : btc[e] = "confirmed" => btc'[e] = btc[e]
    BY <1>1, <1>8, <1>9, <1>10
  <2> QED
    BY <1>1, <2>1, PaidStill DEF CInv
<1>12. PairsAgree'
  <2>1. CASE IsPayer(n, d)
    BY <1>1, <1>7, <2>1, PairsStill
  <2>2. CASE IsSeller(n, d)
    <3>1. ASSUME NEW a \in Nodes, NEW p \in Nodes, d \in Bought(a, p)
          PROVE  Debt(d) \in StoredRefs(books'[a]) /\ Claim(d) \in StoredRefs(books'[p])
      <4>1. Debt(d) \in StoredRefs(books[a]) /\ (p # n => Claim(d) \in StoredRefs(books[p]))
        BY <2>2, <3>1, SellerIsLast
      <4>2. Claim(d) \in Refs(n, d)
        BY <2>2 DEF IsSeller, Refs, Claim
      <4> QED
        BY <1>6, <1>8, <4>1, <4>2
    <3>2. ASSUME NEW a \in Nodes, NEW p \in Nodes, NEW v, NEW w, v = Desk(a)' /\ w = Desk(p)',
                 AreFirm(a, p, v, w, btc)
          PROVE  AreFirm(a, p, v, w, btc')
      <4>1. v.book = books'[a] /\ w.book = books'[p]
        BY <3>2 DEF Desk
      <4>2. \A e \in Deals : e # d => btc'[e] = btc[e]
        BY <1>1, <1>8
      <4>3. d \in Bought(a, p) => IsFirm(v, Debt(d)) /\ IsFirm(w, Claim(d))
        BY <3>1, <4>1 DEF IsFirm
      <4> QED
        BY <3>2, <4>2, <4>3, BoughtFinite DEF AreFirm
    <3>3. ASSUME NEW a \in Nodes, NEW p \in Friends[a], {a, p} \notin broken'
          PROVE  Agreeing(a, p, Desk(a)', Desk(p)', btc')
      <4>1. p \in Nodes
        BY FriendsAssumption
      <4>2. PICK v, w : v = Desk(a)' /\ w = Desk(p)'
        OBVIOUS
      <4>3. Agreeing(a, p, v, w, btc)
        BY <1>7, <3>3, <4>2 DEF PairsStillAgree
      <4>4. Agreeing(a, p, v, w, btc')
        BY <3>2, <4>1, <4>2, <4>3 DEF Agreeing
      <4> QED
        BY <4>2, <4>4
    <3> QED
      BY <3>3 DEF PairsAgree
  <2> QED
    BY <1>9, <2>1, <2>2
<1>13. SellersDecide'
  <2>1. d \in Range(agreed)
    <3>1. PICK ref : ref \in Refs(n, d)
      BY <1>9, SellerFacts DEF Refs
    <3>2. ref \in Open(books[n]) /\ ref.tx = d
      BY <1>1, <1>2, <3>1, UndecidedRefs
    <3> QED
      BY <1>2, <3>2, NodeFacts DEF PaidIsGone
  <2>2. \A m \in Nodes : books'[m].list = books[m].list
    BY <1>6, <1>8
  <2>3. ASSUME NEW m \in Nodes, NEW e \in Deals, m # n \/ e # d
        PROVE  /\ Debt(e) \in StoredRefs(books'[m]) <=> Debt(e) \in StoredRefs(books[m])
               /\ Claim(e) \in StoredRefs(books'[m]) <=> Claim(e) \in StoredRefs(books[m])
    <3>1. CASE m # n
      BY <1>8, <3>1
    <3>2. CASE m = n /\ e # d
      <4>1. Debt(e) \notin Refs(n, d) /\ Claim(e) \notin Refs(n, d)
        BY <1>1, <1>2, <3>2, UndecidedRefs, ContractsDiffer
      <4> QED
        BY <1>6, <1>8, <3>2, <4>1
    <3> QED
      BY <2>3, <3>1, <3>2
  <2>4. \A e \in Deals : e # d => btc'[e] = btc[e]
    BY <1>1, <1>8
  <2> SUFFICES ASSUME NEW e \in Deals
               PROVE  /\ btc'[e] # "waiting" => e \in Range(agreed)
                      /\ \A m \in Nodes : IsSeller(m, e) =>
                            IF btc'[e] = "waiting"
                            THEN /\ Claim(e) \notin StoredRefs(books'[m])
                                 /\ Offers(m, e)' => HopsAreComplete(e)'
                            ELSE Offers(m, e)' => Claim(e) \in StoredRefs(books'[m])
    BY <1>1 DEF SellersDecide
  <2>5. \A m \in Nodes : Offers(m, e)' <=> Offers(m, e)
    BY <2>2 DEF Offers
  <2>6. CASE e # d
    <3>1. HopsAreComplete(e)' <=> HopsAreComplete(e)
      BY <2>3, <2>6 DEF HopsAreComplete
    <3> QED
      BY <2>3, <2>4, <2>5, <2>6, <3>1 DEF CInv, SellersDecide
  <2>7. CASE e = d /\ IsPayer(n, d)
    <3>1. HopsAreComplete(d) => HopsAreComplete(d)'
      <4>1. ASSUME HopsAreComplete(d), NEW m \in Nodes, IsHop(m, d),
                   Debt(d) \in StoredRefs(books'[m])
            PROVE  Claim(d) \in StoredRefs(books'[m])
        <5>1. CASE m # n
          BY <1>8, <4>1, <5>1 DEF HopsAreComplete
        <5>2. CASE m = n
          <6>1. Claim(d) \in Refs(n, d)
            BY <4>1, <5>2 DEF IsHop, Refs, Claim
          <6> QED
            BY <1>6, <1>8, <5>2, <6>1
        <5> QED
          BY <5>1, <5>2
      <4> QED
        BY <4>1 DEF HopsAreComplete
    <3>2. \A m \in Nodes : IsSeller(m, d) => m # n
      BY <2>7 DEF IsSeller
    <3> QED
      BY <1>1, <1>8, <2>1, <2>5, <2>7, <3>1, <3>2 DEF CInv, SellersDecide
  <2>8. CASE e = d /\ IsSeller(n, d)
    <3>1. btc'[d] = "sent"
      BY <1>1, <1>8, <1>9, <2>8
    <3>2. Claim(d) \in StoredRefs(books'[n])
      BY <1>6, <1>8, <2>8 DEF IsSeller, Refs, Claim
    <3>3. \A m \in Nodes : IsSeller(m, d) => m = n
      BY <2>8, SellerFacts
    <3> QED
      BY <2>1, <2>8, <3>1, <3>2, <3>3
  <2> QED
    BY <1>9, <2>6, <2>7, <2>8
<1> QED
  BY <1>2, <1>7, <1>11, <1>12, <1>13 DEF CInv

-----------------------------------------------------------------------------
(* Payments.                                                               *)

\* A desk with the same contracts.
SameDeals(x, y) ==
    /\ y.book.contract = x.book.contract /\ y.book.list = x.book.list
    /\ y.book.stored = x.book.stored /\ y.paid = x.paid

LEMMA DealsStay ==
    ASSUME NEW x, NEW y, SameDeals(x, y), NEW ref
    PROVE  Alike(x, y, ref) /\ Stays(x, y, ref)
  BY DEF SameDeals, Stays, Alike, IsOpen, IsTaken, IsFirm, Value, Open, StoredRefs,
         AmountOf, Listed, RowOf

LEMMA DealsQuiet ==
    ASSUME NEW n, NEW p, NEW x, NEW y, NEW became, SameDeals(x, y),
           p \in DOMAIN x.book.credit => RowFades(x, y, p), y.left[p] >= x.left[p]
    PROVE  Quiet(n, p, x, y, became)
  BY DealsStay DEF Quiet

\* A row that stays.
LEMMA RowStays ==
    ASSUME NEW n \in Nodes, NEW x, Tidy(n, x), NEW y, NEW p \in DOMAIN x.book.credit,
           p \in DOMAIN y.book.credit, y.book.credit[p] = x.book.credit[p]
    PROVE  RowFades(x, y, p)
<1>1. /\ MyAvailable(x.book.credit[p]) \in Int /\ PeerAvailable(x.book.credit[p]) \in Int
  BY RowTypes
<1> QED
  BY <1>1 DEF RowFades

\* One of the two books of a payment.
PaysWith(n, p, b, c, row) ==
    /\ CreditOnly(n, b, c) /\ OthersKept(b, c, p)
    /\ p \in DOMAIN b.credit => c.credit[p] = row

LEMMA PayOutcome ==
    ASSUME IInv, NEW n \in Nodes, NEW p \in Friends[n], Pay(n, p)
    PROVE  \E a, b : /\ books' = [books EXCEPT ![n] = a, ![p] = b]
                     /\ PaysWith(n, p, books[n], a, Spent(Load(books[n], p), 1))
                     /\ PaysWith(p, n, books[p], b, Received(Load(books[p], n), 1))
<1> DEFINE a == Store(books[n], p, Spent(Load(books[n], p), 1))
           b == Store(books[p], n, Received(Load(books[p], n), 1))
<1>1. p \in Nodes /\ p # n
  BY FriendsAssumption
<1>2. books' = [books EXCEPT ![n] = a, ![p] = b]
  BY <1>1 DEF Pay
<1>3. SoundBook(n, books[n]) /\ SoundBook(p, books[p])
  BY <1>1, NodeFacts
<1>4. PICK old, out : old = Load(books[n], p) /\ out = Spent(old, 1)
  OBVIOUS
<1>5. PICK own, in : own = Load(books[p], n) /\ in = Received(own, 1)
  OBVIOUS
<1>6. old \in CreditRecord /\ own \in CreditRecord
  BY <1>1, <1>3, <1>4, <1>5, LoadType
<1>7. /\ out \in CreditRecord /\ out.credit = old.credit /\ out.our_credit = old.our_credit
      /\ in \in CreditRecord /\ in.credit = own.credit /\ in.our_credit = own.our_credit
  BY <1>4, <1>5, <1>6 DEF Spent, Received, CreditRecord
<1>8. PaysWith(n, p, books[n], a, out)
  <2>1. a = Store(books[n], p, out)
    BY <1>4
  <2>2. out.credit = Load(books[n], p).credit /\ out.our_credit = Load(books[n], p).our_credit
    BY <1>4, <1>7
  <2>3. PICK c : c = books[n]
    OBVIOUS
  <2> HIDE DEF a
  <2> QED
    BY <1>3, <1>7, <2>1, <2>2, <2>3, RowWritten DEF PaysWith
<1>9. PaysWith(p, n, books[p], b, in)
  <2>1. b = Store(books[p], n, in)
    BY <1>5
  <2>2. in.credit = Load(books[p], n).credit /\ in.our_credit = Load(books[p], n).our_credit
    BY <1>5, <1>7
  <2> HIDE DEF b
  <2> QED
    BY <1>1, <1>3, <1>7, <2>1, <2>2, RowWritten DEF PaysWith
<1> HIDE DEF a, b
<1> QED
  BY <1>2, <1>4, <1>5, <1>8, <1>9

\* The two friends of a payment, whose lines agree.
LEMMA LinesMatch ==
    ASSUME CInv, NEW n \in Nodes, NEW p \in Friends[n], {n, p} \notin broken,
           Settled(n, p), p \in DOMAIN books[n].credit
    PROVE  n \in DOMAIN books[p].credit /\ books[n].credit[p].our_credit = books[p].credit[n].credit
<1>1. p \in Nodes /\ n \in Friends[p] /\ {p, n} = {n, p}
  BY FriendsAssumption
<1>2. LineRises(p, n)
  BY <1>1 DEF CInv, LinesRise
<1>3. /\ n \in DOMAIN books[p].credit
      /\ <<p, n>> \in online => Told(p, n) = books[p].credit[n].credit
  BY <1>1, <1>2 DEF CInv, IInv, LinesAreTold, LineRises
<1>4. <<p, n>> \in online /\ net[p][n] = <<>>
  BY DEF Settled
<1>5. Told(p, n) = books[n].credit[p].our_credit
  BY <1>4 DEF Told, Load
<1> QED
  BY <1>3, <1>4, <1>5

LEMMA PayPair ==
    ASSUME CInv, IInv', NEW n \in Nodes, NEW p \in Friends[n], Pay(n, p), {n, p} \notin broken
    PROVE  Agreeing(n, p, Desk(n)', Desk(p)', btc)
<1>1. p \in Nodes /\ p # n /\ n \in Friends[p] /\ {p, n} = {n, p} /\ IInv
  BY FriendsAssumption DEF CInv
<1>2. PICK a, b : /\ books' = [books EXCEPT ![n] = a, ![p] = b]
                  /\ PaysWith(n, p, books[n], a, Spent(Load(books[n], p), 1))
                  /\ PaysWith(p, n, books[p], b, Received(Load(books[p], n), 1))
  BY <1>1, PayOutcome
<1>3. paid' = paid /\ left' = left /\ Settled(n, p)
      /\ PeerAvailable(Load(books[p], n)) >= 1
  BY DEF Pay
<1>4. books'[n] = a /\ books'[p] = b
  BY <1>1, <1>2 DEF IInv, World
<1>5. PICK x, y : x = Desk(n) /\ y = Desk(n)'
  OBVIOUS
<1>6. PICK o, q : o = Desk(p) /\ q = Desk(p)'
  OBVIOUS
<1>7. /\ Tidy(n, x) /\ x.book = books[n] /\ y.book = a /\ y.paid = x.paid /\ y.left = x.left
      /\ Tidy(p, o) /\ o.book = books[p] /\ q.book = b /\ q.paid = o.paid /\ q.left = o.left
  BY <1>1, <1>3, <1>4, <1>5, <1>6, DeskFacts DEF Desk
<1>8. Tidy(n, y) /\ Tidy(p, q)
  BY <1>1, <1>5, <1>6, DesksStayTidy
<1>9. Agreeing(n, p, x, o, btc)
  BY <1>5, <1>6 DEF CInv, PairsAgree
<1>10. /\ p \in DOMAIN x.book.credit /\ n \in DOMAIN o.book.credit
       /\ o.left[n] >= 0 /\ x.left[p] >= 0
  BY <1>9 DEF Agreeing, Matches
<1>11. x.book.credit[p].our_credit = o.book.credit[n].credit
  BY <1>3, <1>7, <1>10, LinesMatch
<1>12. PICK u, v : u = x.book.credit[p] /\ v = o.book.credit[n]
  OBVIOUS
<1>13. /\ p \in DOMAIN y.book.credit /\ y.book.credit[p] = Spent(u, 1)
       /\ n \in DOMAIN q.book.credit /\ q.book.credit[n] = Received(v, 1)
       /\ 1 <= PeerAvailable(v)
  <2>1. Load(books[n], p) = u /\ Load(books[p], n) = v
    BY <1>7, <1>10, <1>12 DEF Load
  <2>2. PeerAvailable(v) \in Int
    BY <1>1, <1>7, <1>10, <1>12, RowTypes
  <2> QED
    BY <1>2, <1>3, <1>7, <1>10, <2>1, <2>2 DEF PaysWith, CreditOnly, SameLines
<1>14. SameDeals(x, y) /\ SameDeals(o, q)
  BY <1>2, <1>7 DEF SameDeals, PaysWith, CreditOnly
<1>15. \A ref : Alike(x, y, ref) /\ Alike(o, q, ref) /\ Stays(x, y, ref) /\ Stays(o, q, ref)
  BY <1>14, DealsStay
<1>16. BothTidy(n, p, x, o, y, q) /\ BothTidy(p, n, o, x, q, y)
  BY <1>7, <1>8 DEF BothTidy
<1>17. Matches(n, p, y, q)
  <2>1. RowsThere(n, p, y, q)
    BY <1>7, <1>10, <1>13 DEF RowsThere
  <2>2. Pays(n, p, x, o, y, q, 1)
    BY <1>11, <1>12, <1>13, <1>15, <1>16, <2>1 DEF Pays
  <2>3. Matches(n, p, x, o)
    BY <1>9 DEF Agreeing
  <2> QED
    BY <1>1, <2>2, <2>3, PairPays
<1>18. Matches(p, n, q, y)
  <2>1. RowsThere(p, n, q, y)
    BY <1>7, <1>10, <1>13 DEF RowsThere
  <2>2. PICK s, t : s = y.book.credit[p] /\ t = q.book.credit[n]
    OBVIOUS
  <2>3. u \in CreditRecord /\ v \in CreditRecord
    BY <1>1, <1>7, <1>10, <1>12, RowTypes
  <2>4. /\ t.balance + s.balance = v.balance + u.balance
        /\ MyAvailable(t) >= MyAvailable(v) /\ PeerAvailable(s) >= PeerAvailable(u)
    BY <1>13, <2>2, <2>3 DEF Spent, Received, CreditRecord, MyAvailable, PeerAvailable
  <2>5. FundsKept(p, n, o, x, q, y)
    BY <1>12, <2>2, <2>4 DEF FundsKept
  <2>6. \A d \in Bought(p, n) : DealKept(d, o, x, q, y)
    BY <1>15 DEF DealKept
  <2>7. Fades(p, n, o, x, q, y) /\ Matches(p, n, o, x)
    BY <1>9, <1>16, <2>1, <2>5, <2>6 DEF Fades, Agreeing
  <2> QED
    BY <1>1, <2>7, PairFades
<1>19. AreFirm(n, p, y, q, btc) /\ AreFirm(p, n, q, y, btc)
  BY <1>9, <1>15 DEF Agreeing, AreFirm, Stays
<1>20. Agreeing(n, p, y, q, btc)
  BY <1>17, <1>18, <1>19 DEF Agreeing
<1> QED
  BY <1>5, <1>6, <1>20

\* For the friends of others, a payment changes nothing.
LEMMA PayConcurs ==
    ASSUME CInv, NEW n \in Nodes, NEW p \in Friends[n], Pay(n, p)
    PROVE  CInv'
<1>1. p \in Nodes /\ p # n /\ n \in Friends[p] /\ {p, n} = {n, p} /\ IInv
  BY FriendsAssumption DEF CInv
<1>2. PICK a, b : /\ books' = [books EXCEPT ![n] = a, ![p] = b]
                  /\ PaysWith(n, p, books[n], a, Spent(Load(books[n], p), 1))
                  /\ PaysWith(p, n, books[p], b, Received(Load(books[p], n), 1))
  BY <1>1, PayOutcome
<1>3. /\ net' = net /\ untold' = untold /\ paid' = paid /\ left' = left
      /\ broken' = broken /\ agreed' = agreed /\ btc' = btc
  BY DEF Pay
<1>4. IInv'
  BY <1>1, PayOK
<1>5. /\ books'[n] = a /\ books'[p] = b
      /\ \A m \in Nodes : m # n /\ m # p => books'[m] = books[m]
  BY <1>1, <1>2 DEF IInv, World
<1>6. ASSUME NEW m \in Nodes
      PROVE  /\ SameLines(books[m], books'[m]) /\ books'[m].contract = books[m].contract
             /\ books'[m].list = books[m].list /\ books'[m].stored = books[m].stored
             /\ \A r \in Nodes : ~Between(n, p, m, r) =>
                    /\ r \in DOMAIN books[m].credit => r \in DOMAIN books'[m].credit
                    /\ r \in DOMAIN books[m].credit =>
                           books'[m].credit[r] = books[m].credit[r]
  <2>1. CASE m # n /\ m # p
    BY <1>5, <2>1 DEF SameLines
  <2>2. CASE m = n
    <3>1. /\ CreditOnly(n, books[n], a) /\ OthersKept(books[n], a, p)
          /\ books'[m] = a /\ books[m] = books[n]
      BY <1>2, <1>5, <2>2 DEF PaysWith
    <3>2. \A r \in Nodes : ~Between(n, p, m, r) => r # p
      BY <1>1, <2>2 DEF Between
    <3> QED
      BY <3>1, <3>2 DEF CreditOnly, OthersKept
  <2>3. CASE m = p
    <3>1. /\ CreditOnly(p, books[p], b) /\ OthersKept(books[p], b, n)
          /\ books'[m] = b /\ books[m] = books[p]
      BY <1>2, <1>5, <2>3 DEF PaysWith
    <3>2. \A r \in Nodes : ~Between(n, p, m, r) => r # n
      BY <1>1, <2>3 DEF Between
    <3> QED
      BY <3>1, <3>2 DEF CreditOnly, OthersKept
  <2> QED
    BY <2>1, <2>2, <2>3
<1>7. ASSUME NEW m \in Nodes, NEW r \in Friends[m], ~Between(n, p, m, r)
      PROVE  StaysQuiet(m, r)
  <2>1. r \in Nodes
    BY FriendsAssumption
  <2>2. PICK x, y : x = Desk(m) /\ y = Desk(m)'
    OBVIOUS
  <2>3. Tidy(m, x) /\ x.book = books[m] /\ y.book = books'[m] /\ y.paid = x.paid /\ y.left = x.left
    BY <1>1, <1>3, <2>2, DeskFacts DEF Desk
  <2>4. SameDeals(x, y)
    BY <1>6, <2>3 DEF SameDeals
  <2>5. r \in DOMAIN x.book.credit => RowFades(x, y, r)
    BY <1>6, <1>7, <2>1, <2>3, RowStays
  <2>6. y.left[r] >= x.left[r]
    BY <2>1, <2>3 DEF Tidy
  <2> QED
    BY <2>2, <2>4, <2>5, <2>6, DealsQuiet DEF StaysQuiet
<1>8. PairsAgree'
  <2>1. ASSUME NEW m \in Nodes, NEW r \in Friends[m], {m, r} \notin broken
        PROVE  Agreeing(m, r, Desk(m)', Desk(r)', btc)
    <3>1. r \in Nodes /\ m \in Friends[r]
      BY FriendsAssumption
    <3>2. CASE m = n /\ r = p
      BY <1>4, <2>1, <3>2, PayPair
    <3>3. CASE m = p /\ r = n
      <4>1. Agreeing(n, p, Desk(n)', Desk(p)', btc)
        BY <1>1, <1>4, <2>1, <3>3, PayPair
      <4> QED
        BY <3>3, <4>1, AgreeingBothWays
    <3>4. CASE ~Between(n, p, m, r)
      <4>1. ~Between(n, p, r, m)
        BY <3>4 DEF Between
      <4>2. StaysQuiet(m, r) /\ StaysQuiet(r, m)
        BY <1>7, <3>1, <3>4, <4>1
      <4> QED
        BY <1>3, <1>4, <2>1, <4>2, PairStill DEF CInv
    <3> QED
      BY <3>2, <3>3, <3>4 DEF Between
  <2> QED
    BY <1>3, <2>1 DEF PairsAgree
<1>9. LinesRise'
  BY <1>3, <1>6, LinesStill DEF CInv
<1>10. SellersDecide'
  <2>1. \A m \in Nodes : Thins(m, books[m], books'[m])
    BY <1>6 DEF Thins, StoredRefs
  <2> QED
    BY <1>3, <2>1, SellersStill DEF CInv
<1>11. PaidIsConfirmed'
  BY <1>3, PaidStill DEF CInv
<1> QED
  BY <1>4, <1>8, <1>9, <1>10, <1>11 DEF CInv

-----------------------------------------------------------------------------
(* A deal is agreed on.                                                    *)

\* On the desk of n, its contracts on d are new and nothing else is.
LEMMA NewContracts ==
    ASSUME IInv, IInv', NEW d \in Deals, Agree(d), NEW k, k = Agreed(d),
           NEW n \in Nodes, NEW x, NEW y, Moves(n, x, y)
    PROVE  /\ Tidy(n, x) /\ Tidy(n, y) /\ x.book = books[n] /\ y.book = books'[n]
           /\ y.paid = x.paid /\ y.left = x.left
           /\ \A ref \in AllRefs : ref.tx # d => Stays(x, y, ref)
           /\ \A ref \in Refs(n, d) :
                 /\ ~IsOpen(x, ref) /\ ~IsTaken(x, ref) /\ ~IsTaken(y, ref)
                 /\ IsOpen(y, ref) /\ Value(y, ref) = k
           /\ \A q \in DOMAIN x.book.credit :
                 /\ q \in DOMAIN y.book.credit
                 /\ y.book.credit[q] = IF IsPayee(n, d) /\ q = Prev(n, d)
                                       THEN Allocated(x.book.credit[q], k)
                                       ELSE x.book.credit[q]
<1>1. paid' = paid /\ left' = left /\ ~Contains(agreed, d)
  BY DEF Agree
<1>2. /\ Tidy(n, x) /\ Tidy(n, y) /\ x.book = books[n] /\ y.book = books'[n]
      /\ y.paid = x.paid /\ y.left = x.left /\ x.paid = paid[n]
  BY <1>1, DeskFacts, DesksStayTidy DEF Moves, Desk
<1>3. Makes(n, d, k, x.book, y.book)
  BY <1>2, AgreeOutcome
<1>4. \A ref \in Refs(n, d) : ref.tx = d /\ ref \in AllRefs
  BY DEF Refs, Ref, AllRefs, Parties
<1>5. ASSUME NEW ref \in AllRefs, ref.tx # d
      PROVE  Stays(x, y, ref)
  <2>1. /\ ref \in Open(y.book) <=> ref \in Open(x.book)
        /\ ref \in StoredRefs(y.book) <=> ref \in StoredRefs(x.book)
    BY <1>3, <1>4, <1>5 DEF Makes, StoredRefs
  <2>2. ref \in Open(x.book) => AmountOf(y.book, ref) = AmountOf(x.book, ref)
    BY <1>3, <2>1 DEF Makes, AmountsKept
  <2> QED
    BY <1>2, <2>1, <2>2 DEF Stays, Alike, IsOpen, IsTaken, IsFirm, Value
<1>6. ASSUME NEW ref \in Refs(n, d)
      PROVE  /\ ~IsOpen(x, ref) /\ ~IsTaken(x, ref) /\ ~IsTaken(y, ref)
             /\ IsOpen(y, ref) /\ Value(y, ref) = k
  <2>1. ref.tx \notin Range(agreed)
    BY <1>1, <1>4, NewDeal
  <2>2. PaidIsGone(x.book, x.paid)
    BY <1>2, NodeFacts
  <2>3. ~IsOpen(x, ref) /\ ~IsTaken(x, ref)
    BY <1>4, <2>1, <2>2 DEF PaidIsGone, IsOpen, IsTaken
  <2>4. ref \in Open(y.book) /\ AmountOf(y.book, ref) = k
    BY <1>3 DEF Makes
  <2> QED
    BY <1>2, <2>3, <2>4 DEF IsOpen, IsTaken, Value
<1>7. \A q \in DOMAIN x.book.credit :
         /\ q \in DOMAIN y.book.credit
         /\ y.book.credit[q] = IF IsPayee(n, d) /\ q = Prev(n, d)
                               THEN Allocated(x.book.credit[q], k)
                               ELSE x.book.credit[q]
  BY <1>3 DEF Makes, SameLines
<1> QED
  BY <1>2, <1>5, <1>6, <1>7

\* The payer and the payee of a deal.
LEMMA AgreePair ==
    ASSUME OneWay, CInv, IInv', NEW d \in Deals, Agree(d), NEW n \in Nodes,
           NEW p \in Friends[n], d \in Bought(n, p), {n, p} \notin broken
    PROVE  Agreeing(n, p, Desk(n)', Desk(p)', btc)
<1>1. p \in Nodes /\ n \in Friends[p] /\ IInv
  BY FriendsAssumption DEF CInv
<1>2. PICK k, x, y : k = Agreed(d) /\ Moves(n, x, y)
  BY DEF Moves
<1>3. PICK o, q : Moves(p, o, q)
  BY DEF Moves
<1>4. /\ IsPayer(n, d) /\ Following(n, d) = p /\ IsPayee(p, d) /\ Prev(p, d) = n
      /\ Debt(d) \in Refs(n, d) /\ Claim(d) \in Refs(p, d)
  BY <1>1, Partners DEF Bought, Refs, Debt, Claim
<1>5. IsPayee(n, d) => Prev(n, d) # p
  BY <1>4, Neighbours
<1>6. /\ Tidy(n, x) /\ Tidy(n, y) /\ x.book = books[n]
      /\ y.paid = x.paid /\ y.left = x.left
      /\ \A ref \in AllRefs : ref.tx # d => Stays(x, y, ref)
      /\ ~IsOpen(x, Debt(d)) /\ ~IsTaken(x, Debt(d)) /\ ~IsTaken(y, Debt(d))
      /\ IsOpen(y, Debt(d)) /\ Value(y, Debt(d)) = k
      /\ p \in DOMAIN x.book.credit =>
            p \in DOMAIN y.book.credit /\ y.book.credit[p] = x.book.credit[p]
  BY <1>1, <1>2, <1>4, <1>5, NewContracts
<1>7. /\ Tidy(p, o) /\ Tidy(p, q) /\ o.book = books[p]
      /\ q.paid = o.paid /\ q.left = o.left
      /\ \A ref \in AllRefs : ref.tx # d => Stays(o, q, ref)
      /\ ~IsOpen(o, Claim(d)) /\ ~IsTaken(o, Claim(d)) /\ ~IsTaken(q, Claim(d))
      /\ IsOpen(q, Claim(d)) /\ Value(q, Claim(d)) = k
      /\ n \in DOMAIN o.book.credit =>
            n \in DOMAIN q.book.credit /\ q.book.credit[n] = Allocated(o.book.credit[n], k)
  BY <1>1, <1>2, <1>3, <1>4, NewContracts
<1>8. Agreeing(n, p, x, o, btc)
  BY <1>2, <1>3 DEF CInv, PairsAgree, Moves
<1>9. /\ p \in DOMAIN x.book.credit /\ n \in DOMAIN o.book.credit
      /\ o.left[n] >= 0 /\ x.left[p] >= 0
  BY <1>8 DEF Agreeing, Matches
<1>10. x.book.credit[p].our_credit = o.book.credit[n].credit
  <2>1. Settled(n, p)
    BY <1>4 DEF Agree
  <2> QED
    BY <1>6, <1>7, <1>9, <2>1, LinesMatch
<1>11. PICK v : v = o.book.credit[n]
  OBVIOUS
<1>12. k \in Nat /\ k <= PeerAvailable(v)
  <2>1. \A m \in Nodes : IsPayee(m, d) => CanReceive(books[m], Prev(m, d))
    BY DEF Agree
  <2>2. Load(books[p], n) = v
    BY <1>7, <1>9, <1>11 DEF Load
  <2> QED
    BY <1>1, <1>2, <1>4, <2>1, <2>2, AgreedFacts
<1>13. /\ q.book.credit[n].balance = v.balance
       /\ PeerAvailable(q.book.credit[n]) = PeerAvailable(v) - k
  <2>1. v \in CreditRecord
    BY <1>1, <1>7, <1>9, <1>11, RowTypes
  <2>2. PICK w : w = q.book.credit[n]
    OBVIOUS
  <2>3. w = Allocated(v, k)
    BY <1>7, <1>9, <1>11, <2>2
  <2>4. w.balance = v.balance /\ PeerAvailable(w) = PeerAvailable(v) - k
    BY <1>12, <2>1, <2>3 DEF Allocated, CreditRecord, PeerAvailable
  <2> QED
    BY <2>2, <2>4
<1>14. \A e \in Bought(n, p) : e # d => Stays(x, y, Debt(e)) /\ Stays(o, q, Claim(e))
  BY <1>1, <1>6, <1>7, DealRefs DEF WithPeer
<1>15. Bought(p, n) = {}
  BY <1>1 DEF OneWay
<1>16. RowsThere(n, p, y, q) /\ BothTidy(n, p, x, o, y, q)
  BY <1>6, <1>7, <1>9 DEF RowsThere, BothTidy
<1>17. Matches(n, p, y, q)
  <2>1. MakesDeal(n, p, x, o, y, q, d, k)
    BY <1>6, <1>7, <1>9, <1>10, <1>11, <1>12, <1>13, <1>14, <1>16 DEF MakesDeal, Stays
  <2>2. Matches(n, p, x, o)
    BY <1>8 DEF Agreeing
  <2> QED
    BY <1>1, <2>1, <2>2, DealMade
<1>18. Matches(p, n, q, y)
  BY <1>6, <1>9, <1>15, <1>16 DEF Matches, RowsThere
<1>19. AreFirm(n, p, y, q, btc)
  <2>1. btc[d] = "waiting"
    <3>1. d \notin Range(agreed)
      BY <1>1, NewDeal DEF Agree
    <3> QED
      BY <3>1 DEF CInv, SellersDecide
  <2> QED
    BY <1>8, <1>14, <2>1 DEF Agreeing, AreFirm, Stays
<1>20. AreFirm(p, n, q, y, btc)
  BY <1>15 DEF AreFirm
<1>21. Agreeing(n, p, y, q, btc)
  BY <1>17, <1>18, <1>19, <1>20 DEF Agreeing
<1> QED
  BY <1>2, <1>3, <1>21 DEF Moves

LEMMA AgreeConcurs ==
    ASSUME OneWay, CInv, NEW d \in Deals, Agree(d)
    PROVE  CInv'
<1>1. /\ net' = net /\ untold' = untold /\ paid' = paid /\ left' = left
      /\ broken' = broken /\ btc' = btc /\ agreed' = Append(agreed, d)
      /\ ~Contains(agreed, d)
  BY DEF Agree
<1>2. IInv /\ IInv'
  BY AgreeOK DEF CInv
<1>3. ASSUME NEW n \in Nodes
      PROVE  /\ SameLines(books[n], books'[n])
             /\ StoredRefs(books'[n]) = StoredRefs(books[n])
             /\ Range(books'[n].list) = Range(books[n].list) \cup Refs(n, d)
  BY <1>2, AgreeOutcome DEF Makes, StoredRefs
<1>4. ASSUME NEW n \in Nodes, NEW p \in Friends[n], d \notin Bought(n, p), d \notin Bought(p, n)
      PROVE  StaysQuiet(n, p)
  <2>1. p \in Nodes
    BY FriendsAssumption
  <2>2. PICK k, x, y : k = Agreed(d) /\ Moves(n, x, y)
    BY DEF Moves
  <2>3. /\ Tidy(n, x) /\ y.left = x.left
        /\ \A ref \in AllRefs : ref.tx # d => Stays(x, y, ref)
        /\ \A q \in DOMAIN x.book.credit :
              /\ q \in DOMAIN y.book.credit
              /\ y.book.credit[q] = IF IsPayee(n, d) /\ q = Prev(n, d)
                                    THEN Allocated(x.book.credit[q], k)
                                    ELSE x.book.credit[q]
    BY <1>2, <2>2, NewContracts
  <2>4. ~(IsPayee(n, d) /\ p = Prev(n, d))
    BY <1>4, <2>1, Partners
  <2>5. p \in DOMAIN x.book.credit => RowFades(x, y, p)
    BY <2>3, <2>4, RowStays
  <2>6. \A ref \in WithPeer(n, p) : Stays(x, y, ref)
    <3>1. ASSUME NEW ref \in WithPeer(n, p)
          PROVE  ref \in AllRefs /\ ref.tx # d
      BY <1>4, <3>1, WithFriend DEF WithPeer
    <3> QED
      BY <2>3, <3>1
  <2>7. y.left[p] >= x.left[p]
    BY <2>1, <2>3 DEF Tidy
  <2>8. Quiet(n, p, x, y, btc)
    BY <2>5, <2>6, <2>7 DEF Quiet
  <2> QED
    BY <2>2, <2>8 DEF StaysQuiet, Moves
<1>5. PairsAgree'
  <2>1. ASSUME NEW n \in Nodes, NEW p \in Friends[n], {n, p} \notin broken
        PROVE  Agreeing(n, p, Desk(n)', Desk(p)', btc)
    <3>1. p \in Nodes /\ n \in Friends[p] /\ {p, n} = {n, p}
      BY FriendsAssumption
    <3>2. CASE d \in Bought(n, p)
      BY <1>2, <2>1, <3>2, AgreePair
    <3>3. CASE d \in Bought(p, n)
      <4>1. {p, n} \notin broken
        BY <2>1, <3>1
      <4>2. Agreeing(p, n, Desk(p)', Desk(n)', btc)
        BY <1>2, <3>1, <3>3, <4>1, AgreePair
      <4> QED
        BY <4>2, AgreeingBothWays
    <3>4. CASE d \notin Bought(n, p) /\ d \notin Bought(p, n)
      <4>1. StaysQuiet(n, p) /\ StaysQuiet(p, n)
        BY <1>4, <3>1, <3>4
      <4> QED
        BY <1>1, <1>2, <2>1, <4>1, PairStill DEF CInv
    <3> QED
      BY <3>2, <3>3, <3>4
  <2> QED
    BY <1>1, <2>1 DEF PairsAgree
<1>6. LinesRise'
  BY <1>1, <1>3, LinesStill DEF CInv
<1>7. PaidIsConfirmed'
  BY <1>1, PaidStill DEF CInv
<1>8. SellersDecide'
  <2>1. d \notin Range(agreed)
    BY <1>1, <1>2, NewDeal
  <2>2. Range(agreed) \subseteq Range(agreed)'
    <3>1. agreed \in Seq(Deals)
      BY <1>2 DEF IInv, World
    <3>2. Range(agreed') = Range(agreed) \cup {d}
      BY <1>1, <3>1, AppendFacts
    <3> QED
      BY <3>2 DEF Range
  <2>3. \A m \in Nodes : Claim(d) \notin StoredRefs(books[m]) /\ Debt(d) \notin StoredRefs(books[m])
    <3>1. \A m \in Nodes : \A ref \in Open(books[m]) : ref.tx # d
      BY <1>2, <2>1, NodeFacts DEF PaidIsGone
    <3>2. Claim(d).tx = d /\ Debt(d).tx = d
      BY ContractsDiffer
    <3> QED
      BY <3>1, <3>2 DEF Open
  <2>4. btc[d] = "waiting"
    BY <2>1 DEF CInv, SellersDecide
  <2>5. ASSUME NEW e \in Deals
        PROVE  /\ btc[e] # "waiting" => e \in Range(agreed)'
               /\ \A m \in Nodes : IsSeller(m, e) =>
                     IF btc[e] = "waiting"
                     THEN /\ Claim(e) \notin StoredRefs(books'[m])
                          /\ Offers(m, e)' => HopsAreComplete(e)'
                     ELSE Offers(m, e)' => Claim(e) \in StoredRefs(books'[m])
    <3>1. CASE e = d
      <4>1. HopsAreComplete(d)'
        BY <1>3, <2>3 DEF HopsAreComplete
      <4> QED
        BY <1>3, <2>3, <2>4, <3>1, <4>1
    <3>2. CASE e # d
      <4>1. HopsAreComplete(e)' <=> HopsAreComplete(e)
        BY <1>3 DEF HopsAreComplete
      <4>2. \A m \in Nodes : Claim(e) \notin Refs(m, d)
        BY <3>2 DEF Refs, Ref, Claim
      <4>3. \A m \in Nodes : Offers(m, e)' <=> Offers(m, e)
        BY <1>3, <4>2 DEF Offers
      <4> QED
        BY <1>3, <2>2, <4>1, <4>3 DEF CInv, SellersDecide
    <3> QED
      BY <3>1, <3>2
  <2> QED
    BY <1>1, <2>5 DEF SellersDecide
<1> QED
  BY <1>2, <1>5, <1>6, <1>7, <1>8 DEF CInv

-----------------------------------------------------------------------------
(* The lines.                                                              *)

\* What was heard, what the items on the way say and what is granted rise.
Rising(heard, q, granted) ==
    /\ heard <= granted
    /\ \A i \in DOMAIN q : /\ heard <= q[i].our_credit /\ q[i].our_credit <= granted
                           /\ \A j \in 1..i : q[j].our_credit <= q[i].our_credit

LEMMA LineIsRising ==
    ASSUME NEW n, NEW p
    PROVE  LineRises(n, p) <=>
              /\ <<n, p>> \notin untold
              /\ Rising(Load(books[p], n).our_credit, net[n][p], Load(books[n], p).credit)
  BY DEF LineRises, Rising

LEMMA NextLineIsRising ==
    ASSUME NEW n, NEW p, <<n, p>> \notin untold',
           Rising(Load(books'[p], n).our_credit, net'[n][p], Load(books'[n], p).credit)
    PROVE  LineRises(n, p)'
  BY DEF LineRises, Rising

\* Items say what line they tell.
LEMMA ItemsOfQueue ==
    ASSUME NEW q \in Seq(Item)
    PROVE  /\ Len(q) \in Nat /\ DOMAIN q = 1..Len(q)
           /\ \A i \in DOMAIN q : q[i].our_credit \in Int
<1>1. Len(q) \in Nat /\ DOMAIN q = 1..Len(q)
  OBVIOUS
<1>2. ASSUME NEW i \in DOMAIN q
      PROVE  q[i].our_credit \in Int
  <2>1. q[i] \in Item
    BY <1>1
  <2> QED
    BY <2>1 DEF Item
<1> QED
  BY <1>1, <1>2

\* A higher line may be granted, and sent.
LEMMA RisingSent ==
    ASSUME NEW heard \in Int, NEW q \in Seq(Item), NEW granted \in Int,
           Rising(heard, q, granted), NEW more \in Int, granted <= more,
           NEW item \in Item, item.our_credit = more
    PROVE  Rising(heard, q, more) /\ Rising(heard, Append(q, item), more)
<1>1. /\ Len(q) \in Nat /\ DOMAIN q = 1..Len(q) /\ \A i \in DOMAIN q : q[i].our_credit \in Int
  BY ItemsOfQueue
<1>2. Rising(heard, q, more)
  BY <1>1 DEF Rising
<1>3. PICK s : s = Append(q, item)
  OBVIOUS
<1>4. /\ DOMAIN s = 1..(Len(q) + 1) /\ s[Len(q) + 1] = item
      /\ \A i \in 1..Len(q) : s[i] = q[i]
  BY <1>3
<1>5. ASSUME NEW i \in DOMAIN s
      PROVE  /\ heard <= s[i].our_credit /\ s[i].our_credit <= more
             /\ \A j \in 1..i : s[j].our_credit <= s[i].our_credit
  <2>1. CASE i \in 1..Len(q)
    <3>1. /\ heard <= q[i].our_credit /\ q[i].our_credit <= more
          /\ \A j \in 1..i : q[j].our_credit <= q[i].our_credit
      BY <1>1, <1>2, <2>1 DEF Rising
    <3>2. \A j \in 1..i : j \in 1..Len(q)
      BY <1>1, <2>1
    <3> QED
      BY <1>4, <2>1, <3>1, <3>2
  <2>2. CASE i = Len(q) + 1
    <3>1. s[i].our_credit = more /\ heard <= more
      BY <1>2, <1>4, <2>2 DEF Rising
    <3>2. ASSUME NEW j \in 1..i
          PROVE  s[j].our_credit <= more
      <4>1. CASE j \in 1..Len(q)
        BY <1>1, <1>2, <1>4, <4>1 DEF Rising
      <4>2. CASE j = Len(q) + 1
        BY <1>4, <4>2
      <4> QED
        BY <1>1, <2>2, <4>1, <4>2
    <3> QED
      BY <3>1, <3>2
  <2> QED
    BY <1>1, <1>4, <2>1, <2>2
<1>6. Rising(heard, s, more)
  BY <1>2, <1>5 DEF Rising
<1> QED
  BY <1>2, <1>3, <1>6

\* What is read is no less than what was heard before.
LEMMA RisingRead ==
    ASSUME NEW heard \in Int, NEW q \in Seq(Item), q # <<>>, NEW granted \in Int,
           Rising(heard, q, granted)
    PROVE  /\ heard <= Head(q).our_credit
           /\ Rising(Head(q).our_credit, Tail(q), granted)
<1>1. /\ Len(q) \in Nat /\ Len(q) > 0 /\ DOMAIN q = 1..Len(q) /\ Head(q) = q[1]
      /\ \A i \in DOMAIN q : q[i].our_credit \in Int
  <2>1. Len(q) \in Nat /\ Len(q) > 0 /\ Head(q) = q[1]
    OBVIOUS
  <2> QED
    BY <2>1, ItemsOfQueue
<1>2. PICK s : s = Tail(q)
  OBVIOUS
<1>3. DOMAIN s = 1..(Len(q) - 1) /\ \A i \in 1..(Len(q) - 1) : s[i] = q[i + 1]
  BY <1>1, <1>2
<1>4. \A i \in DOMAIN q : /\ heard <= q[i].our_credit /\ q[i].our_credit <= granted
                          /\ \A j \in 1..i : q[j].our_credit <= q[i].our_credit
  BY DEF Rising
<1>5. heard <= q[1].our_credit /\ q[1].our_credit <= granted
  BY <1>1, <1>4
<1>6. ASSUME NEW i \in DOMAIN s
      PROVE  /\ q[1].our_credit <= s[i].our_credit /\ s[i].our_credit <= granted
             /\ \A j \in 1..i : s[j].our_credit <= s[i].our_credit
  <2>1. i \in 1..(Len(q) - 1) /\ i + 1 \in 1..Len(q)
    BY <1>1, <1>3
  <2>2. /\ q[i + 1].our_credit <= granted
        /\ \A j \in 1..(i + 1) : q[j].our_credit <= q[i + 1].our_credit
    BY <1>1, <1>4, <2>1
  <2>3. q[1].our_credit <= q[i + 1].our_credit
    BY <2>1, <2>2
  <2>4. \A j \in 1..i : j + 1 \in 1..(i + 1) /\ j \in 1..(Len(q) - 1)
    BY <1>1, <2>1
  <2> QED
    BY <1>3, <2>1, <2>2, <2>3, <2>4
<1>7. Rising(q[1].our_credit, s, granted)
  BY <1>5, <1>6 DEF Rising
<1> QED
  BY <1>1, <1>2, <1>5, <1>7

\* A row is no worse for any payment.
RowRises(b, c, p) ==
    p \in DOMAIN b.credit =>
        /\ p \in DOMAIN c.credit
        /\ c.credit[p].balance = b.credit[p].balance
        /\ c.credit[p].credit >= b.credit[p].credit
        /\ c.credit[p].our_credit >= b.credit[p].our_credit

\* A step of the lines gives n and p no reason to differ.
NotParted(n, p) ==
    /\ {n, p} \notin broken
    /\ <<n, p>> \in untold' => <<n, p>> \in untold
    /\ <<p, n>> \in untold' => <<p, n>> \in untold
    /\ ~(Load(books'[n], p).credit < Load(books[n], p).credit)
    /\ ~(Load(books'[p], n).credit < Load(books[p], n).credit)
LineKeeps(n, p) ==
    NotParted(n, p) => LineRises(n, p)' /\ RowRises(books[n], books'[n], p)

LEMMA StillTold ==
    ASSUME LinesRise, NEW n \in Nodes, NEW p \in Friends[n], NotParted(n, p)
    PROVE  /\ LineRises(n, p) /\ LineRises(p, n)
           /\ <<n, p>> \notin untold' /\ <<p, n>> \notin untold'
<1>1. p \in Nodes /\ n \in Friends[p] /\ {p, n} = {n, p}
  BY FriendsAssumption
<1>2. LineRises(n, p) /\ LineRises(p, n)
  BY <1>1 DEF LinesRise, NotParted
<1> QED
  BY <1>2 DEF NotParted, LineRises

\* The numbers of n's line for p.
LEMMA LineNumbers ==
    ASSUME IInv, NEW n \in Nodes, NEW p \in Nodes
    PROVE  /\ Load(books[n], p) \in CreditRecord
           /\ Load(books[n], p).credit \in Int /\ Load(books[n], p).our_credit \in Int
           /\ Load(books[n], p).balance \in Int
           /\ net[n][p] \in Seq(Item)
<1>1. Load(books[n], p) \in CreditRecord
  BY NodeFacts, LoadType
<1> QED
  BY <1>1, QueueFacts DEF CreditRecord

\* For others than a and b nothing changes.
LEMMA OthersKeepLines ==
    ASSUME IInv, LinesRise, NEW a \in Nodes, NEW b \in Friends[a], NEW w,
           OthersKept(books[a], w, b), books'[a] = w,
           \A m \in Nodes : m # a => books'[m] = books[m],
           \A n, p \in Nodes : ~Between(a, b, n, p) => net'[n][p] = net[n][p],
           NEW n \in Nodes, NEW p \in Friends[n], ~Between(a, b, n, p)
    PROVE  LineKeeps(n, p)
<1> SUFFICES ASSUME NotParted(n, p)
             PROVE  LineRises(n, p)' /\ RowRises(books[n], books'[n], p)
  BY DEF LineKeeps
<1>1. p \in Nodes /\ p # n /\ a # b
  BY FriendsAssumption
<1>2. LineRises(n, p) /\ <<n, p>> \notin untold'
  BY StillTold
<1>3. /\ Load(books'[p], n) = Load(books[p], n) /\ Load(books'[n], p) = Load(books[n], p)
      /\ p \in DOMAIN books[n].credit =>
            p \in DOMAIN books'[n].credit /\ books'[n].credit[p] = books[n].credit[p]
  <2>1. Load(books'[p], n) = Load(books[p], n)
    BY <1>1 DEF OthersKept, Between, Load
  <2>2. /\ p \in DOMAIN books[n].credit <=> p \in DOMAIN books'[n].credit
        /\ p \in DOMAIN books[n].credit => books'[n].credit[p] = books[n].credit[p]
    BY <1>1 DEF OthersKept, Between
  <2> QED
    BY <2>1, <2>2 DEF Load
<1>4. LineRises(n, p)'
  BY <1>1, <1>2, <1>3, LineIsRising, NextLineIsRising
<1>5. RowRises(books[n], books'[n], p)
  <2>1. p \in DOMAIN books[n].credit => Load(books[n], p) = books[n].credit[p]
    BY DEF Load
  <2> QED
    BY <1>1, <1>3, <2>1, LineNumbers DEF RowRises
<1> QED
  BY <1>4, <1>5

\* A step between a and b.
LEMMA BetweenFriends ==
    ASSUME NEW a \in Nodes, NEW b \in Friends[a], LineKeeps(a, b), LineKeeps(b, a),
           \A n \in Nodes : \A p \in Friends[n] : ~Between(a, b, n, p) => LineKeeps(n, p)
    PROVE  \A n \in Nodes : \A p \in Friends[n] : LineKeeps(n, p)
  BY DEF Between

\* The line of a for b and that of b for a, in a step that writes w.
PairRises(a, b, w) ==
    /\ Rising(Load(books[b], a).our_credit, net'[a][b], Load(w, b).credit)
    /\ Rising(Load(w, b).our_credit, net'[b][a], Load(books[b], a).credit)
    /\ RowRises(books[a], w, b)

\* What is to be shown of a step between a and b.
LEMMA BothKeepLines ==
    ASSUME IInv, LinesRise, NEW a \in Nodes, NEW b \in Friends[a], NEW w,
           OthersKept(books[a], w, b), books'[a] = w,
           \A m \in Nodes : m # a => books'[m] = books[m],
           \A n, p \in Nodes : ~Between(a, b, n, p) => net'[n][p] = net[n][p],
           NotParted(a, b) => PairRises(a, b, w)
    PROVE  \A n \in Nodes : \A p \in Friends[n] : LineKeeps(n, p)
<1>1. b \in Nodes /\ a # b /\ a \in Friends[b] /\ {a, b} = {b, a} /\ books'[b] = books[b]
  BY FriendsAssumption
<1>2. NotParted(b, a) <=> NotParted(a, b)
  BY <1>1 DEF NotParted
<1>3. LineKeeps(a, b)
  <2> SUFFICES ASSUME NotParted(a, b)
               PROVE  LineRises(a, b)' /\ RowRises(books[a], books'[a], b)
    BY DEF LineKeeps
  <2>1. <<a, b>> \notin untold'
    BY StillTold
  <2>2. Rising(Load(books'[b], a).our_credit, net'[a][b], Load(books'[a], b).credit)
    BY <1>1 DEF PairRises
  <2>3. LineRises(a, b)'
    BY <2>1, <2>2, NextLineIsRising
  <2> QED
    BY <2>3 DEF PairRises
<1>4. LineKeeps(b, a)
  <2> SUFFICES ASSUME NotParted(b, a)
               PROVE  LineRises(b, a)' /\ RowRises(books[b], books'[b], a)
    BY DEF LineKeeps
  <2>1. <<b, a>> \notin untold'
    BY <1>1, StillTold
  <2>2. Rising(Load(books'[a], b).our_credit, net'[b][a], Load(books'[b], a).credit)
    BY <1>1, <1>2 DEF PairRises
  <2>3. LineRises(b, a)'
    BY <2>1, <2>2, NextLineIsRising
  <2>4. RowRises(books[b], books[b], a)
    <3> SUFFICES ASSUME a \in DOMAIN books[b].credit
                 PROVE  /\ books[b].credit[a].credit >= books[b].credit[a].credit
                        /\ books[b].credit[a].our_credit >= books[b].credit[a].our_credit
      BY DEF RowRises
    <3>1. Load(books[b], a) = books[b].credit[a]
      BY DEF Load
    <3>2. Load(books[b], a).credit \in Int /\ Load(books[b], a).our_credit \in Int
      BY <1>1, LineNumbers
    <3> QED
      BY <3>1, <3>2
  <2> QED
    BY <1>1, <2>3, <2>4
<1>5. \A n \in Nodes : \A p \in Friends[n] : ~Between(a, b, n, p) => LineKeeps(n, p)
  BY OthersKeepLines
<1> QED
  BY <1>3, <1>4, <1>5, BetweenFriends

\* What is known of the line before it.
LEMMA RisingBefore ==
    ASSUME IInv, LinesRise, NEW a \in Nodes, NEW b \in Friends[a], NotParted(a, b)
    PROVE  /\ Rising(Load(books[b], a).our_credit, net[a][b], Load(books[a], b).credit)
           /\ Rising(Load(books[a], b).our_credit, net[b][a], Load(books[b], a).credit)
           /\ RowRises(books[a], books[a], b)
<1>1. b \in Nodes /\ LineRises(a, b) /\ LineRises(b, a)
  BY StillTold, FriendsAssumption
<1>2. RowRises(books[a], books[a], b)
  <2>1. b \in DOMAIN books[a].credit => Load(books[a], b) = books[a].credit[b]
    BY DEF Load
  <2>2. Load(books[a], b).credit \in Int /\ Load(books[a], b).our_credit \in Int
    BY <1>1, LineNumbers
  <2> QED
    BY <2>1, <2>2 DEF RowRises
<1> QED
  BY <1>1, <1>2, LineIsRising

\* An empty channel.
LEMMA RisingSilent ==
    ASSUME NEW heard \in Int, NEW q, NEW granted \in Int, Rising(heard, q, granted)
    PROVE  Rising(heard, <<>>, granted)
BY DEF Rising

\* A friend that connects is told the line that is granted.
LEMMA StatusChangeKeeps ==
    ASSUME IInv, LinesRise, NEW a \in Nodes, NEW b \in Friends[a], StatusChange(a, b)
    PROVE  \A n \in Nodes : \A p \in Friends[n] : LineKeeps(n, p)
<1> DEFINE q == net[a][b]
           g == Greeting(a, b)
<1>1. /\ net' = [net EXCEPT ![a][b] = q \o g]
      /\ books' = books
  BY DEF StatusChange
<1>2. b \in Nodes /\ a # b /\ a \in Friends[b]
  BY FriendsAssumption
<1>3. /\ net'[a][b] = q \o g
      /\ \A n, p \in Nodes : ~(n = a /\ p = b) => net'[n][p] = net[n][p]
  <2>1. net \in [Nodes -> [Nodes -> Seq(Item)]]
    BY DEF IInv, World, Item
  <2> QED
    BY <1>1, <1>2, <2>1
<1>4. OthersKept(books[a], books[a], b)
  BY SameBook
<1>5. ASSUME NotParted(a, b)
      PROVE  PairRises(a, b, books[a])
  <2>1. /\ Rising(Load(books[b], a).our_credit, net[a][b], Load(books[a], b).credit)
        /\ Rising(Load(books[a], b).our_credit, net[b][a], Load(books[b], a).credit)
        /\ RowRises(books[a], books[a], b)
    BY <1>5, RisingBefore
  <2>2. PICK h, k : h = Load(books[b], a).our_credit /\ k = Load(books[a], b).credit
    OBVIOUS
  <2>3. h \in Int /\ k \in Int /\ q \in Seq(Item)
    BY <1>2, <2>2, LineNumbers
  <2>4. Rising(h, q \o g, k)
    <3>1. CASE b \in DOMAIN books[a].credit
      <4>1. PICK item : item = CreditItem(books[a].credit[b])
        OBVIOUS
      <4>2. g = <<item>>
        BY <3>1, <4>1 DEF Greeting
      <4>3. item.our_credit = k /\ item \in Item
        <5>1. Load(books[a], b) = books[a].credit[b] /\ Load(books[a], b) \in CreditRecord
          BY <1>2, <3>1, LineNumbers DEF Load
        <5> QED
          BY <2>2, <4>1, <5>1 DEF CreditItem, Item, CreditRecord
      <4>4. q \o g = Append(q, item)
        <5> HIDE DEF q, g
        <5> QED
          BY <2>3, <4>2, <4>3
      <4>5. k <= k
        BY <2>3
      <4>6. Rising(h, q, k)
        BY <2>1, <2>2
      <4> HIDE DEF q, g
      <4>7. Rising(h, Append(q, item), k)
        BY <2>3, <4>3, <4>5, <4>6, RisingSent
      <4> QED
        BY <4>4, <4>7
    <3>2. CASE b \notin DOMAIN books[a].credit
      <4>1. g = <<>>
        BY <3>2 DEF Greeting
      <4>2. q \o <<>> = q
        BY <2>3
      <4> QED
        BY <2>1, <2>2, <4>1, <4>2
    <3> QED
      BY <3>1, <3>2
  <2>5. net'[a][b] = q \o g /\ net'[b][a] = net[b][a]
    BY <1>2, <1>3
  <2> QED
    BY <2>1, <2>2, <2>4, <2>5 DEF PairRises
<1>6. \A n, p \in Nodes : ~Between(a, b, n, p) => net'[n][p] = net[n][p]
  BY <1>3 DEF Between
<1> QED
  BY <1>1, <1>4, <1>5, <1>6, BothKeepLines

\* What is under way is lost.
LEMMA DisconnectKeeps ==
    ASSUME IInv, LinesRise, NEW a \in Nodes, NEW b \in Friends[a], Disconnect(a, b)
    PROVE  \A n \in Nodes : \A p \in Friends[n] : LineKeeps(n, p)
<1>1. /\ net' = [net EXCEPT ![a][b] = <<>>, ![b][a] = <<>>]
      /\ books' = books
  BY DEF Disconnect
<1>2. b \in Nodes /\ a # b /\ a \in Friends[b]
  BY FriendsAssumption
<1>3. /\ net'[a][b] = <<>> /\ net'[b][a] = <<>>
      /\ \A n, p \in Nodes : ~Between(a, b, n, p) => net'[n][p] = net[n][p]
  <2>1. net \in [Nodes -> [Nodes -> Seq(Item)]]
    BY DEF IInv, World, Item
  <2> DEFINE nil == <<>>
  <2>2. net' = [net EXCEPT ![a][b] = nil, ![b][a] = nil]
    BY <1>1
  <2> HIDE DEF nil
  <2>3. /\ net'[a][b] = nil /\ net'[b][a] = nil
        /\ \A n, p \in Nodes : ~Between(a, b, n, p) => net'[n][p] = net[n][p]
    BY <1>2, <2>1, <2>2 DEF Between
  <2> QED
    BY <2>3 DEF nil
<1>4. OthersKept(books[a], books[a], b)
  BY SameBook
<1>5. ASSUME NotParted(a, b)
      PROVE  PairRises(a, b, books[a])
  <2>1. /\ Rising(Load(books[b], a).our_credit, net[a][b], Load(books[a], b).credit)
        /\ Rising(Load(books[a], b).our_credit, net[b][a], Load(books[b], a).credit)
        /\ RowRises(books[a], books[a], b)
    BY <1>5, RisingBefore
  <2>2. PICK h, i, k, l : /\ h = Load(books[b], a).our_credit /\ k = Load(books[a], b).credit
                          /\ i = Load(books[a], b).our_credit /\ l = Load(books[b], a).credit
    OBVIOUS
  <2>3. h \in Int /\ k \in Int /\ i \in Int /\ l \in Int
    BY <1>2, <2>2, LineNumbers
  <2>4. Rising(h, net[a][b], k) /\ Rising(i, net[b][a], l)
    BY <2>1, <2>2
  <2>5. Rising(h, <<>>, k) /\ Rising(i, <<>>, l)
    BY <2>3, <2>4, RisingSilent
  <2> QED
    BY <1>3, <2>1, <2>2, <2>5 DEF PairRises
<1> QED
  BY <1>1, <1>3, <1>4, <1>5, BothKeepLines

\* A row that is written with what Load then reads.
LEMMA WrittenRowRises ==
    ASSUME NEW a \in Nodes, NEW b, NEW w, NEW old, NEW c, old \in CreditRecord, c \in CreditRecord,
           old = Load(books[a], b), c = Load(w, b),
           DOMAIN books[a].credit \subseteq DOMAIN w.credit,
           c.balance = old.balance, c.credit >= old.credit, c.our_credit >= old.our_credit
    PROVE  RowRises(books[a], w, b)
<1> SUFFICES ASSUME b \in DOMAIN books[a].credit
             PROVE  /\ b \in DOMAIN w.credit
                    /\ w.credit[b].balance = books[a].credit[b].balance
                    /\ w.credit[b].credit >= books[a].credit[b].credit
                    /\ w.credit[b].our_credit >= books[a].credit[b].our_credit
  BY DEF RowRises
<1>1. b \in DOMAIN w.credit /\ w.credit[b] = c /\ books[a].credit[b] = old
  BY DEF Load
<1> QED
  BY <1>1

\* A line that is not lowered is told to a friend that is online.
LEMMA EditFriendKeeps ==
    ASSUME IInv, LinesRise, NEW a \in Nodes, NEW b \in Friends[a], NEW line \in Lines,
           EditFriend(a, b, line)
    PROVE  \A n \in Nodes : \A p \in Friends[n] : LineKeeps(n, p)
<1> DEFINE old == Load(books[a], b)
           c == [old EXCEPT !.credit = line]
           q == net[a][b]
           posted == Post(a, b, q, c)
<1>1. PICK w \in Writes(books[a], b, c) :
          /\ books' = [books EXCEPT ![a] = w]
          /\ net' = [net EXCEPT ![a][b] = posted]
          /\ untold' = IF b \in DOMAIN w.credit /\ Load(w, b) = c
                       THEN untold \ {<<a, b>>} ELSE untold \cup {<<a, b>>}
  BY DEF EditFriend
<1>2. b \in Nodes /\ a # b /\ a \in Friends[b] /\ line \in Int
  BY FriendsAssumption
<1>3. SoundBook(a, books[a]) /\ old \in CreditRecord
  BY NodeFacts, LoadType
<1>4. /\ c \in CreditRecord /\ c.credit = line /\ c.our_credit = old.our_credit
      /\ c.balance = old.balance /\ c.allocation = old.allocation
  <2> HIDE DEF old
  <2> QED
    BY <1>2, <1>3 DEF CreditRecord
<1>5. CreditItem(c) \in Item /\ CreditItem(c).our_credit = line
  BY <1>4 DEF CreditItem, Item, CreditRecord
<1> HIDE DEF c
<1>6. /\ LinesOnly(a, books[a], w) /\ OthersKept(books[a], w, b)
      /\ DOMAIN books[a].credit \subseteq DOMAIN w.credit
  BY <1>3, <1>4, LineWritten
<1>7. books'[a] = w /\ \A m \in Nodes : m # a => books'[m] = books[m]
  BY <1>1, <1>6, OneBook
<1> HIDE DEF posted
<1>8. net'[a][b] = posted /\ \A n, p \in Nodes : ~(n = a /\ p = b) => net'[n][p] = net[n][p]
  <2>1. net \in [Nodes -> [Nodes -> Seq(Item)]]
    BY DEF IInv, World, Item
  <2> QED
    BY <1>1, <1>2, <2>1
<1>9. ASSUME NotParted(a, b)
      PROVE  PairRises(a, b, w)
  <2>1. /\ Rising(Load(books[b], a).our_credit, q, Load(books[a], b).credit)
        /\ Rising(Load(books[a], b).our_credit, net[b][a], Load(books[b], a).credit)
    BY <1>9, RisingBefore
  <2>2. PICK h, k : h = Load(books[b], a).our_credit /\ k = Load(books[a], b).credit
    OBVIOUS
  <2>3. h \in Int /\ k \in Int /\ q \in Seq(Item)
    BY <1>2, <2>2, LineNumbers
  <2>4. <<a, b>> \notin untold'
    BY <1>9, StillTold
  <2>5. Load(w, b) = c
    BY <1>1, <2>4
  <2>6. k <= line
    <3>1. ~(Load(w, b).credit < Load(books[a], b).credit)
      BY <1>7, <1>9 DEF NotParted
    <3> QED
      BY <1>2, <1>4, <2>2, <2>3, <2>5, <3>1
  <2>7. Rising(h, q, k)
    BY <2>1, <2>2
  <2>8. PICK item : item = CreditItem(c)
    OBVIOUS
  <2>9. item \in Item /\ item.our_credit = line
    BY <1>5, <2>8
  <2>10. posted = IF <<a, b>> \in online THEN Append(q, item) ELSE q
    BY <2>8 DEF Post, posted
  <2> HIDE DEF q
  <2>11. Rising(h, q, line) /\ Rising(h, Append(q, item), line)
    BY <1>2, <2>3, <2>6, <2>7, <2>9, RisingSent
  <2>12. Rising(h, posted, line)
    BY <2>10, <2>11
  <2>13. RowRises(books[a], w, b)
    <3>1. c.credit >= old.credit /\ c.our_credit >= old.our_credit
      <4>1. old.our_credit \in Int
        BY <1>3 DEF CreditRecord
      <4> QED
        BY <1>2, <1>4, <2>2, <2>3, <2>6, <4>1
    <3>2. PICK o : o = old
      OBVIOUS
    <3>3. /\ o \in CreditRecord /\ o = Load(books[a], b) /\ c = Load(w, b)
          /\ c.balance = o.balance /\ c.credit >= o.credit /\ c.our_credit >= o.our_credit
      BY <1>3, <1>4, <2>5, <3>1, <3>2
    <3> QED
      BY <1>4, <1>6, <3>3, WrittenRowRises
  <2>14. net'[b][a] = net[b][a]
    BY <1>2, <1>8
  <2> QED
    BY <1>4, <1>8, <2>1, <2>2, <2>5, <2>12, <2>13, <2>14 DEF PairRises
<1>10. \A n, p \in Nodes : ~Between(a, b, n, p) => net'[n][p] = net[n][p]
  BY <1>8 DEF Between
<1> QED
  BY <1>6, <1>7, <1>9, <1>10, BothKeepLines

\* A friend whose row is forgotten may differ.
LEMMA ResetFriendKeeps ==
    ASSUME IInv, LinesRise, NEW a \in Nodes, NEW b \in Friends[a], ResetFriend(a, b)
    PROVE  \A n \in Nodes : \A p \in Friends[n] : LineKeeps(n, p)
<1> DEFINE w == [books[a] EXCEPT !.credit =
                    [q \in DOMAIN books[a].credit \ {b} |-> books[a].credit[q]]]
<1>1. untold' = untold \cup {<<a, b>>, <<b, a>>} /\ net' = net
  BY DEF ResetFriend
<1>2. books' = [books EXCEPT ![a] = w]
  BY DEF ResetFriend
<1>3. LinesOnly(a, books[a], w) /\ OthersKept(books[a], w, b)
  <2>1. SoundBook(a, books[a])
    BY NodeFacts
  <2>2. w = [books[a] EXCEPT !.credit =
                    [q \in DOMAIN books[a].credit \ {b} |-> books[a].credit[q]]]
    OBVIOUS
  <2> HIDE DEF w
  <2> QED
    BY <2>1, <2>2, RowRemoved
<1> HIDE DEF w
<1>4. books'[a] = w /\ \A m \in Nodes : m # a => books'[m] = books[m]
  BY <1>2, <1>3, OneBook
<1>5. ~NotParted(a, b)
  BY <1>1, StillTold
<1> QED
  BY <1>1, <1>3, <1>4, <1>5, BothKeepLines

\* What is read was sent earlier than what is still under way.
LEMMA HandleCreditKeeps ==
    ASSUME IInv, LinesRise, NEW a \in Nodes, NEW b \in Friends[a], HandleCredit(a, b)
    PROVE  \A n \in Nodes : \A p \in Friends[n] : LineKeeps(n, p)
<1> DEFINE old == Load(books[a], b)
           q == net[b][a]
           told == Head(q).our_credit
           c == [old EXCEPT !.our_credit = told]
<1>1. q # <<>> /\ net' = [net EXCEPT ![b][a] = Tail(q)]
  BY DEF HandleCredit
<1>2. PICK w :
          /\ w = books[a] \/ w \in Writes(books[a], b, c)
          /\ books'[a] = w
          /\ \A m \in Nodes : m # a => books'[m] = books[m]
          /\ <<b, a>> \notin untold' => Load(w, b) = c
  <2>1. DOMAIN books = Nodes
    BY DEF IInv, World
  <2>2. CASE c = old
    <3>1. UNCHANGED <<books, untold>>
      BY <2>2 DEF HandleCredit
    <3> QED
      BY <2>1, <2>2, <3>1
  <2>3. CASE c # old
    <3>1. PICK w \in Writes(books[a], b, c) :
             /\ books' = [books EXCEPT ![a] = w]
             /\ untold' = IF Load(w, b) = c THEN untold ELSE untold \cup {<<b, a>>}
      BY <2>3 DEF HandleCredit
    <3> HIDE DEF c
    <3> QED
      BY <2>1, <3>1
  <2> QED
    BY <2>2, <2>3
<1>3. b \in Nodes /\ a # b /\ a \in Friends[b]
  BY FriendsAssumption
<1>4. SoundBook(a, books[a]) /\ old \in CreditRecord
  BY NodeFacts, LoadType
<1>5. told \in Int /\ Tail(q) \in Seq(Item)
  BY <1>1, <1>3, QueueFacts
<1>6. /\ c \in CreditRecord /\ c.credit = old.credit /\ c.our_credit = told
      /\ c.balance = old.balance /\ c.allocation = old.allocation
  <2> HIDE DEF old, told
  <2> QED
    BY <1>4, <1>5 DEF CreditRecord
<1> HIDE DEF c
<1>7. /\ OthersKept(books[a], w, b)
      /\ DOMAIN books[a].credit \subseteq DOMAIN w.credit
  <2>1. CASE w = books[a]
    BY <2>1, SameBook
  <2>2. CASE w \in Writes(books[a], b, c)
    BY <1>4, <1>6, <2>2, LineWritten
  <2> QED
    BY <1>2, <2>1, <2>2
<1>8. net'[b][a] = Tail(q) /\ \A n, p \in Nodes : ~(n = b /\ p = a) => net'[n][p] = net[n][p]
  <2>1. net \in [Nodes -> [Nodes -> Seq(Item)]]
    BY DEF IInv, World, Item
  <2> QED
    BY <1>1, <1>3, <1>5, <2>1
<1>9. ASSUME NotParted(a, b)
      PROVE  PairRises(a, b, w)
  <2>1. /\ Rising(Load(books[b], a).our_credit, net[a][b], Load(books[a], b).credit)
        /\ Rising(Load(books[a], b).our_credit, q, Load(books[b], a).credit)
    BY <1>9, RisingBefore
  <2>2. PICK h, k : h = Load(books[a], b).our_credit /\ k = Load(books[b], a).credit
    OBVIOUS
  <2>3. h \in Int /\ k \in Int /\ q \in Seq(Item)
    BY <1>3, <2>2, LineNumbers
  <2>4. Load(w, b) = c
    BY <1>2, <1>9, StillTold
  <2>5. Rising(h, q, k)
    BY <2>1, <2>2
  <2>6. h <= told /\ Rising(told, Tail(q), k)
    <3>1. PICK r : r = q
      OBVIOUS
    <3>2. r \in Seq(Item) /\ r # <<>> /\ Rising(h, r, k)
      BY <1>1, <2>3, <2>5, <3>1
    <3>3. h <= Head(r).our_credit /\ Rising(Head(r).our_credit, Tail(r), k)
      BY <2>3, <3>2, RisingRead
    <3> QED
      BY <3>1, <3>3
  <2>7. RowRises(books[a], w, b)
    <3>1. PICK o : o = old
      OBVIOUS
    <3>2. o \in CreditRecord /\ o.credit \in Int /\ o.our_credit = h
      BY <1>4, <2>2, <3>1 DEF CreditRecord
    <3>3. /\ o = Load(books[a], b) /\ c = Load(w, b)
          /\ c.balance = o.balance /\ c.credit >= o.credit /\ c.our_credit >= o.our_credit
      BY <1>5, <1>6, <2>3, <2>4, <2>6, <3>1, <3>2
    <3> QED
      BY <1>6, <1>7, <3>2, <3>3, WrittenRowRises
  <2>8. net'[a][b] = net[a][b]
    BY <1>3, <1>8
  <2> QED
    BY <1>6, <1>8, <2>1, <2>2, <2>4, <2>6, <2>7, <2>8 DEF PairRises
<1>10. \A n, p \in Nodes : ~Between(a, b, n, p) => net'[n][p] = net[n][p]
  BY <1>8 DEF Between
<1> QED
  BY <1>2, <1>7, <1>9, <1>10, BothKeepLines

\* Lines rise between friends that the step gives no reason to differ.
LEMMA LinesKept ==
    ASSUME IInv, LinesRise, LineStep
    PROVE  LineMoves /\ \A n \in Nodes : \A p \in Friends[n] : LineKeeps(n, p)
<1>1. PICK a \in Nodes : \E b \in Friends[a] :
          \/ StatusChange(a, b)
          \/ Disconnect(a, b)
          \/ \E line \in Lines : EditFriend(a, b, line)
          \/ ResetFriend(a, b)
          \/ HandleCredit(a, b)
  BY DEF LineStep
<1>2. LineMoves
  BY <1>1, StatusChangeOK, DisconnectOK, EditFriendOK, ResetFriendOK, HandleCreditOK
<1>3. \A n \in Nodes : \A p \in Friends[n] : LineKeeps(n, p)
  BY <1>1, StatusChangeKeeps, DisconnectKeeps, EditFriendKeeps, ResetFriendKeeps,
     HandleCreditKeeps
<1> QED
  BY <1>2, <1>3

\* A line that is untold or lowered is a reason to differ.
LEMMA PartedIsBroken ==
    ASSUME LineStep, NEW n \in Nodes, NEW p \in Friends[n], {n, p} \notin broken'
    PROVE  NotParted(n, p)
<1>1. p \in Nodes /\ {p, n} = {n, p}
  BY FriendsAssumption
<1>2. Range(<<n, p>>) = {n, p} /\ Range(<<p, n>>) = {n, p}
  BY DEF Range
<1>3. /\ broken \subseteq broken'
      /\ \A pair \in untold' \ untold : Range(pair) \in broken'
      /\ \A pair \in Nodes \X Nodes :
            Load(books'[pair[1]], pair[2]).credit < Load(books[pair[1]], pair[2]).credit
                => Range(pair) \in broken'
  BY DEF LineStep
<1>4. /\ <<n, p>> \in untold' => <<n, p>> \in untold
      /\ <<p, n>> \in untold' => <<p, n>> \in untold
  BY <1>2, <1>3
<1>5. <<n, p>> \in Nodes \X Nodes /\ <<p, n>> \in Nodes \X Nodes
  BY <1>1
<1>6. /\ ~(Load(books'[n], p).credit < Load(books[n], p).credit)
      /\ ~(Load(books'[p], n).credit < Load(books[p], n).credit)
  BY <1>2, <1>3, <1>5
<1> QED
  BY <1>3, <1>4, <1>6 DEF NotParted

\* A row whose lines rise covers what it covered.
LEMMA RisenRow ==
    ASSUME NEW n \in Nodes, NEW x, NEW y, Tidy(n, x), Tidy(n, y), NEW p \in DOMAIN x.book.credit,
           RowRises(x.book, y.book, p),
           y.book.credit[p].allocation = x.book.credit[p].allocation
    PROVE  RowFades(x, y, p)
<1>1. /\ p \in DOMAIN y.book.credit
      /\ y.book.credit[p].balance = x.book.credit[p].balance
      /\ y.book.credit[p].credit >= x.book.credit[p].credit
      /\ y.book.credit[p].our_credit >= x.book.credit[p].our_credit
  BY DEF RowRises
<1>2. PICK c, e : c = x.book.credit[p] /\ e = y.book.credit[p]
  OBVIOUS
<1>3. c \in CreditRecord /\ e \in CreditRecord
  BY <1>1, <1>2, RowTypes
<1>4. /\ c.balance \in Int /\ c.credit \in Int /\ c.our_credit \in Int /\ c.allocation \in Int
      /\ e.credit \in Int /\ e.our_credit \in Int
  BY <1>3 DEF CreditRecord
<1>5. /\ e.balance = c.balance /\ e.credit >= c.credit /\ e.our_credit >= c.our_credit
      /\ e.allocation = c.allocation
  BY <1>1, <1>2
<1>6. MyAvailable(e) >= MyAvailable(c) /\ PeerAvailable(e) >= PeerAvailable(c)
  BY <1>4, <1>5 DEF MyAvailable, PeerAvailable
<1> QED
  BY <1>1, <1>2, <1>5, <1>6 DEF RowFades

\* Lines may be granted, told and forgotten.
LEMMA LineConcurs ==
    ASSUME CInv, LineStep
    PROVE  CInv'
<1>1. IInv /\ IInv'
  BY LineStepOK DEF CInv
<1>2. LineMoves /\ \A n \in Nodes : \A p \in Friends[n] : LineKeeps(n, p)
  BY LinesKept DEF CInv
<1>3. /\ agreed' = agreed /\ btc' = btc /\ paid' = paid /\ broken \subseteq broken'
      /\ left' = [n \in Nodes |-> [p \in Nodes |->
            IF p \in DOMAIN books'[n].credit \ DOMAIN books[n].credit
            THEN -Worth(books[n], ReceiversFrom(n, books[n], p)) ELSE left[n][p]]]
  BY DEF LineStep
<1>4. ASSUME NEW n \in Nodes
      PROVE  /\ books'[n].contract = books[n].contract /\ books'[n].list = books[n].list
             /\ books'[n].stored = books[n].stored
             /\ \A p \in DOMAIN books'[n].credit : p \in DOMAIN books[n].credit =>
                   books'[n].credit[p].allocation = books[n].credit[p].allocation
  BY <1>2 DEF LineMoves, LinesOnly
<1>5. ASSUME NEW n \in Nodes, NEW p \in Friends[n], {n, p} \notin broken'
      PROVE  StaysQuiet(n, p)
  <2>1. p \in Nodes
    BY FriendsAssumption
  <2>2. NotParted(n, p) /\ {n, p} \notin broken
    BY <1>3, <1>5, PartedIsBroken
  <2>3. RowRises(books[n], books'[n], p)
    BY <1>2, <2>2 DEF LineKeeps
  <2>4. p \in DOMAIN books[n].credit
    BY <2>2 DEF CInv, PairsAgree, Agreeing, Matches, Desk
  <2>5. PICK x, y : x = Desk(n) /\ y = Desk(n)'
    OBVIOUS
  <2>6. /\ Tidy(n, x) /\ x.book = books[n] /\ y.book = books'[n] /\ y.paid = x.paid
        /\ x.left = left[n] /\ y.left = left'[n]
    BY <1>1, <1>3, <2>5, DeskFacts DEF Desk
  <2>7. Tidy(n, y)
    BY <1>1, <2>5, DesksStayTidy
  <2>8. SameDeals(x, y)
    BY <1>4, <2>6 DEF SameDeals
  <2>9. y.left[p] >= x.left[p]
    <3>1. left'[n][p] = left[n][p]
      BY <1>3, <2>1, <2>4
    <3> QED
      BY <2>1, <2>6, <3>1 DEF Tidy
  <2>10. RowFades(x, y, p)
    <3>1. p \in DOMAIN books'[n].credit
      BY <2>3, <2>4 DEF RowRises
    <3>2. books'[n].credit[p].allocation = books[n].credit[p].allocation
      BY <1>4, <2>4, <3>1
    <3> QED
      BY <2>3, <2>4, <2>6, <2>7, <3>2, RisenRow
  <2> QED
    BY <2>5, <2>8, <2>9, <2>10, DealsQuiet DEF StaysQuiet
<1>6. PairsAgree'
  <2>1. \A n \in Nodes : \A p \in Friends[n] :
            {n, p} \notin broken' => Agreeing(n, p, Desk(n)', Desk(p)', btc)
    BY <1>1, <1>3, <1>5, AllMove DEF CInv
  <2> QED
    BY <1>3, <2>1 DEF PairsAgree
<1>7. LinesRise'
  <2>1. ASSUME NEW n \in Nodes, NEW p \in Friends[n], {n, p} \notin broken'
        PROVE  LineRises(n, p)'
    BY <1>2, <2>1, PartedIsBroken DEF LineKeeps
  <2> QED
    BY <2>1 DEF LinesRise
<1>8. SellersDecide'
  <2>1. \A m \in Nodes : Thins(m, books[m], books'[m])
    BY <1>4 DEF Thins, StoredRefs
  <2> QED
    BY <1>1, <1>3, <2>1, SellersStill DEF CInv
<1>9. PaidIsConfirmed'
  BY <1>3, PaidStill DEF CInv
<1> QED
  BY <1>1, <1>6, <1>7, <1>8, <1>9 DEF CInv

-----------------------------------------------------------------------------
(* The theorems.                                                           *)

\* Deals that have no open contracts left leave nothing late or pending.
LEMMA NothingLate ==
    ASSUME NEW n \in Nodes, NEW p \in Nodes, NEW x, NEW y, Tidy(n, x), Tidy(p, y),
           \A d \in Bought(n, p) : ~IsOpen(x, Debt(d)) /\ ~IsOpen(y, Claim(d))
    PROVE  Lags(n, p, x, y) = 0
<1>1. PICK S : S = Bought(n, p)
  OBVIOUS
<1>2. PICK f : f = [d \in S |-> Lag(d, x, y)]
  OBVIOUS
<1>3. ASSUME NEW d \in S
      PROVE  f[d] = 0
  <2>1. Value(x, Debt(d)) = 0 /\ Value(y, Claim(d)) = 0
    BY <1>1 DEF Value
  <2>2. Lag(d, x, y) = 0
    BY <2>1 DEF Lag
  <2> QED
    BY <1>2, <2>2
<1>4. IsFiniteSet(S)
  BY <1>1, BoughtFinite
<1>5. SumFunctionOnSet(f, S) = 0
  BY <1>3, <1>4, SumZero
<1> QED
  BY <1>1, <1>2, <1>5 DEF Lags

\* In the beginning everybody grants everybody the same and nobody owes.
LEMMA StartsAgreed ==
    ASSUME Init, NEW n \in Nodes, NEW p \in Friends[n]
    PROVE  Matches(n, p, Desk(n), Desk(p)) /\ AreFirm(n, p, Desk(n), Desk(p), btc)
<1>1. p \in Nodes /\ n \in Friends[p] /\ IInv
  BY FriendsAssumption, InitOK
<1>2. PICK x, y : x = Desk(n) /\ y = Desk(p)
  OBVIOUS
<1>3. Tidy(n, x) /\ Tidy(p, y)
  BY <1>1, <1>2, DeskFacts
<1>4. /\ x.book = [contract |-> <<>>, list |-> <<>>, stored |-> {},
                   credit |-> [q \in Friends[n] |-> OpenLine(FirstLine)]]
      /\ y.book = [contract |-> <<>>, list |-> <<>>, stored |-> {},
                   credit |-> [q \in Friends[p] |-> OpenLine(FirstLine)]]
      /\ y.left[n] = 0
  BY <1>1, <1>2 DEF Init, Desk
<1>5. /\ \A ref : ~IsOpen(x, ref) /\ ~IsOpen(y, ref)
      /\ p \in DOMAIN x.book.credit /\ x.book.credit[p] = OpenLine(FirstLine)
      /\ n \in DOMAIN y.book.credit /\ y.book.credit[n] = OpenLine(FirstLine)
  <2>1. /\ Open(x.book) = {} /\ DOMAIN x.book.credit = Friends[n]
        /\ \A q \in Friends[n] : x.book.credit[q] = OpenLine(FirstLine)
    BY <1>1, <1>4, InitialBook
  <2>2. /\ Open(y.book) = {} /\ DOMAIN y.book.credit = Friends[p]
        /\ \A q \in Friends[p] : y.book.credit[q] = OpenLine(FirstLine)
    BY <1>1, <1>4, InitialBook
  <2>3. \A ref : ~IsOpen(x, ref) /\ ~IsOpen(y, ref)
    BY <2>1, <2>2 DEF IsOpen
  <2> QED
    BY <1>1, <2>1, <2>2, <2>3
<1>6. Lags(n, p, x, y) = 0
  BY <1>1, <1>3, <1>5, NothingLate
<1>7. Covers(n, p, x, y)
  <2>1. x.book.credit[p].balance = 0 /\ y.book.credit[n].balance = 0
    BY <1>5 DEF OpenLine
  <2>2. ~(\E d \in Bought(n, p) : IsOpen(y, Claim(d)))
    BY <1>5
  <2>3. ~(\E d \in Bought(n, p) : IsDue(d, x, y))
    BY <1>5 DEF IsDue
  <2> QED
    BY <1>6, <2>1, <2>2, <2>3 DEF Covers
<1>8. Matches(n, p, x, y)
  BY <1>4, <1>5, <1>7 DEF Matches
<1>9. AreFirm(n, p, x, y, btc)
  <2>1. \A d \in Bought(n, p) : btc[d] = "waiting"
    BY BoughtFinite DEF Init
  <2> QED
    BY <2>1 DEF AreFirm
<1> QED
  BY <1>2, <1>8, <1>9

\* The program starts in concord.
LEMMA InitConcurs == Init => CInv
<1> SUFFICES ASSUME Init
             PROVE  CInv
  OBVIOUS
<1>1. IInv
  BY InitOK
<1>2. PaidIsConfirmed
  BY DEF Init, PaidIsConfirmed
<1>3. SellersDecide
  <2>1. ASSUME NEW d \in Deals, NEW n \in Nodes
        PROVE  /\ btc[d] = "waiting" /\ Claim(d) \notin StoredRefs(books[n])
               /\ ~Offers(n, d)
    <3>1. books[n].stored = {} /\ books[n].list = <<>> /\ btc[d] = "waiting"
      BY DEF Init
    <3>2. Range(books[n].list) = {} /\ StoredRefs(books[n]) = {}
      BY <3>1 DEF Range, StoredRefs
    <3> QED
      BY <3>1, <3>2 DEF Offers
  <2>2. \A d \in Deals : btc[d] = "waiting"
    BY DEF Init
  <2> QED
    BY <2>1, <2>2 DEF SellersDecide
<1>4. PairsAgree
  <2> SUFFICES ASSUME NEW n \in Nodes, NEW p \in Friends[n]
               PROVE  Agreeing(n, p, Desk(n), Desk(p), btc)
    BY DEF PairsAgree
  <2>1. p \in Nodes /\ n \in Friends[p]
    BY FriendsAssumption
  <2>2. Matches(n, p, Desk(n), Desk(p)) /\ AreFirm(n, p, Desk(n), Desk(p), btc)
    BY StartsAgreed
  <2>3. Matches(p, n, Desk(p), Desk(n)) /\ AreFirm(p, n, Desk(p), Desk(n), btc)
    BY <2>1, StartsAgreed
  <2> QED
    BY <2>2, <2>3 DEF Agreeing
<1>5. LinesRise
  <2> SUFFICES ASSUME NEW n \in Nodes, NEW p \in Friends[n]
               PROVE  LineRises(n, p)
    BY DEF LinesRise
  <2>1. p \in Nodes /\ n \in Friends[p]
    BY FriendsAssumption
  <2>2. Load(books[n], p) = OpenLine(FirstLine) /\ Load(books[p], n) = OpenLine(FirstLine)
    BY <2>1 DEF Init, Load
  <2>3. /\ Load(books[n], p).credit = FirstLine
        /\ Load(books[p], n).our_credit = FirstLine /\ FirstLine <= FirstLine
    BY <2>2, RouteAssumption DEF OpenLine
  <2>4. net[n][p] = <<>> /\ <<n, p>> \notin untold
    BY <2>1 DEF Init
  <2>5. Rising(FirstLine, <<>>, FirstLine)
    BY <2>3 DEF Rising
  <2> QED
    BY <2>3, <2>4, <2>5, LineIsRising
<1> QED
  BY <1>1, <1>2, <1>3, <1>4, <1>5 DEF CInv

\* Nothing happens.
LEMMA StutterConcurs ==
    ASSUME CInv, UNCHANGED vars
    PROVE  CInv'
<1>1. /\ books' = books /\ up' = up /\ net' = net /\ untold' = untold /\ agreed' = agreed
      /\ btc' = btc /\ paid' = paid /\ left' = left /\ broken' = broken
  BY DEF vars, lineVars
<1>2. IInv'
  BY NextOK DEF CInv
<1>3. \A n \in Nodes : Desk(n)' = Desk(n)
  BY <1>1 DEF Desk
<1>4. PaidIsConfirmed'
  BY <1>1 DEF CInv, PaidIsConfirmed
<1>5. SellersDecide'
  <2>1. \A m \in Nodes : Thins(m, books[m], books'[m])
    BY <1>1 DEF Thins
  <2> QED
    BY <1>1, <2>1, SellersStill DEF CInv
<1>6. PairsAgree'
  <2> SUFFICES ASSUME NEW n \in Nodes, NEW p \in Friends[n], {n, p} \notin broken
               PROVE  Agreeing(n, p, Desk(n)', Desk(p)', btc)
    BY <1>1 DEF PairsAgree
  <2>1. Agreeing(n, p, Desk(n), Desk(p), btc)
    BY DEF CInv, PairsAgree
  <2>2. Desk(n)' = Desk(n) /\ Desk(p)' = Desk(p)
    BY <1>3, FriendsAssumption
  <2> QED
    BY <2>1, <2>2
<1>7. LinesRise'
  BY <1>1 DEF CInv, LinesRise, LineRises
<1> QED
  BY <1>2, <1>4, <1>5, <1>6, <1>7 DEF CInv

\* Every step keeps the concord.
LEMMA NextConcurs == OneWay /\ CInv /\ [Next]_vars => CInv'
<1> SUFFICES ASSUME OneWay, CInv, [Next]_vars
             PROVE  CInv'
  OBVIOUS
<1>1. ASSUME NEW d \in Deals, Agree(d) \/ Confirm(d)
      PROVE  CInv'
  BY <1>1, AgreeConcurs, ConfirmConcurs
<1>2. ASSUME NEW n \in Nodes, NEW d \in Deals, Commit(n, d) \/ Abandon(n, d)
      PROVE  CInv'
  BY <1>2, CommitConcurs, AbandonConcurs
<1>3. ASSUME NEW n \in Nodes, Poll(n) \/ PollBadly(n) \/ Crash(n) \/ Restart(n)
      PROVE  CInv'
  BY <1>3, PollConcurs, PollBadlyConcurs, CrashConcurs, RestartConcurs
<1>4. ASSUME NEW n \in Nodes, NEW p \in Friends[n], Pay(n, p)
      PROVE  CInv'
  BY <1>4, PayConcurs
<1> QED
  BY <1>1, <1>2, <1>3, <1>4, LineConcurs, StutterConcurs DEF Next

\* What the books of friends have in common while deals are on their way
\* through pollContracts: however polls of the two, crashes, restarts, failing
\* writes, payments and edits of the lines interleave, for every chain of
\* friends, every amount and any number of mishaps.
THEOREM ConcordInvariant ==
    ASSUME OneWay
    PROVE  Spec => []Concord
<1>1. CInv /\ [Next]_vars => CInv'
  BY NextConcurs
<1> QED
  BY <1>1, InitConcurs, CInvIsConcord, PTL DEF Spec

\* Without open contracts between them, the rows of n and p are opposite.
LEMMA NoneOpenAgree ==
    ASSUME CInv, NEW n \in Nodes, NEW p \in Friends[n], {n, p} \notin broken,
           Bought(p, n) = {},
           \A d \in Bought(n, p) : Debt(d) \notin Open(books[n]) /\ Claim(d) \notin Open(books[p])
    PROVE  -Load(books[n], p).balance = Load(books[p], n).balance
<1>1. p \in Nodes /\ IInv
  BY FriendsAssumption DEF CInv
<1>2. PICK x, y : x = Desk(n) /\ y = Desk(p)
  OBVIOUS
<1>3. Tidy(n, x) /\ Tidy(p, y) /\ x.book = books[n] /\ y.book = books[p]
  BY <1>1, <1>2, DeskFacts
<1>4. Matches(n, p, x, y)
  BY <1>2 DEF CInv, PairsAgree, Agreeing
<1>5. /\ p \in DOMAIN x.book.credit /\ n \in DOMAIN y.book.credit
      /\ x.book.credit[p].balance + y.book.credit[n].balance = Lags(n, p, x, y)
  BY <1>4 DEF Matches, Covers
<1>6. Lags(n, p, x, y) = 0
  BY <1>1, <1>3, NothingLate DEF IsOpen
<1>7. x.book.credit[p].balance \in Int /\ y.book.credit[n].balance \in Int
  BY <1>1, <1>3, <1>5, RowTypes
<1>8. /\ Load(books[n], p).balance = x.book.credit[p].balance
      /\ Load(books[p], n).balance = y.book.credit[n].balance
  BY <1>3, <1>5 DEF Load
<1> QED
  BY <1>5, <1>6, <1>7, <1>8

LEMMA CInvAgrees ==
    ASSUME OneWay, CInv
    PROVE  FriendsAgree
<1> SUFFICES ASSUME NEW n \in Nodes, NEW p \in Friends[n], {n, p} \notin broken,
                    ~(\E m, q \in {n, p} : \E ref \in Open(books[m]) : PeerOf(m, ref) = q)
             PROVE  -Load(books[n], p).balance = Load(books[p], n).balance
  BY DEF FriendsAgree
<1>1. p \in Nodes /\ n \in Friends[p] /\ {p, n} = {n, p} /\ IInv
  BY FriendsAssumption DEF CInv
<1>2. \A d \in Bought(n, p) : Debt(d) \notin Open(books[n]) /\ Claim(d) \notin Open(books[p])
  BY <1>1, Partners, BoughtFinite
<1>3. \A d \in Bought(p, n) : Debt(d) \notin Open(books[p]) /\ Claim(d) \notin Open(books[n])
  BY <1>1, Partners, BoughtFinite
<1>4. CASE Bought(p, n) = {}
  BY <1>2, <1>4, NoneOpenAgree
<1>5. CASE Bought(n, p) = {}
  <2>1. -Load(books[p], n).balance = Load(books[n], p).balance
    BY <1>1, <1>3, <1>5, NoneOpenAgree
  <2>2. Load(books[p], n).balance \in Int /\ Load(books[n], p).balance \in Int
    BY <1>1, LineNumbers
  <2> QED
    BY <2>1, <2>2
<1> QED
  BY <1>1, <1>4, <1>5 DEF OneWay

\* handleCredit's check of balances: friends that are done with all contracts
\* between them owe each other the same, unless one of the reasons that broken
\* lists came between them.
THEOREM FriendsAlwaysAgree ==
    ASSUME OneWay
    PROVE  Spec => []FriendsAgree
<1>1. CInv /\ [Next]_vars => CInv'
  BY NextConcurs
<1>2. CInv => FriendsAgree
  BY CInvAgrees
<1> QED
  BY <1>1, <1>2, InitConcurs, PTL DEF Spec
=============================================================================
