------------------------- MODULE SettlementProofs -------------------------
(***************************************************************************)
(* What holds of Settlement for every set of friends, every route, every   *)
(* amount and any number of mishaps: contracts are booked once, and what   *)
(* is allocated with a friend is explained by the open contracts.          *)
(*                                                                         *)
(* First what the operations of BtcContract and Settlement do to one       *)
(* node's book: which contracts are open, what they are worth, and what    *)
(* friends grant each other in it; and what a round of the janitor keeps   *)
(* about it.  Then the steps of a friend, and what lies between friends.   *)
(***************************************************************************)
EXTENDS SettlementInv, DataLemmas

SoundBook(n, b) == IsBook(n, b) /\ OwnContracts(n, b) /\ ObjectsMatchRows(b)

\* What RECEIVER contracts with p are worth.
Reserved(n, b, p) == Worth(b, ReceiversFrom(n, b, p))

\* What the contract ref of n over an amount adds to that.
Share(n, ref, amount, p) ==
    IF ref.party = "receiver" /\ PeerOf(n, ref) = p THEN amount ELSE 0

\* The book's allocations, but for what is in gone[p].
Explained(n, b, gone) ==
    \A p \in DOMAIN b.credit : b.credit[p].allocation = Reserved(n, b, p) + gone[p]

\* Two books with the same friends and the same lines.
SameLines(b, c) ==
    /\ DOMAIN c.credit = DOMAIN b.credit
    /\ \A p \in DOMAIN b.credit : /\ c.credit[p].credit = b.credit[p].credit
                                  /\ c.credit[p].our_credit = b.credit[p].our_credit

\* Only what b has of p may differ in c.
OthersKept(b, c, p) ==
    \A q : q # p => /\ q \in DOMAIN c.credit <=> q \in DOMAIN b.credit
                    /\ q \in DOMAIN b.credit => c.credit[q] = b.credit[q]

\* Contracts that stay open are worth what they were worth.
AmountsKept(b, c) == \A r \in Open(b) \cap Open(c) : AmountOf(c, r) = AmountOf(b, r)

\* c is b after writes to table peers that leave the friends and the lines
\* as they were.
CreditOnly(n, b, c) ==
    /\ SoundBook(n, c) /\ SameLines(b, c)
    /\ c.contract = b.contract /\ c.list = b.list /\ c.stored = b.stored
    /\ Open(c) = Open(b) /\ \A p : Reserved(n, c, p) = Reserved(n, b, p)

-----------------------------------------------------------------------------
(* Routes.                                                                 *)

\* A node of a route has one position in it.
LEMMA PositionFacts ==
    ASSUME NEW d \in Deals, NEW n \in Nodes, On(n, d)
    PROVE  Position(n, d) \in 1..Len(Route[d]) /\ Route[d][Position(n, d)] = n
<1>1. Route[d] \in Seq(Nodes)
  BY RouteAssumption
<1>2. \E i \in DOMAIN Route[d] : Route[d][i] = n
  BY DEF On, Range
<1> QED
  BY <1>1, <1>2 DEF Position

\* Neighbours on a route are friends, and they are not the same friend.
LEMMA Neighbours ==
    ASSUME NEW d \in Deals, NEW n \in Nodes
    PROVE  /\ IsPayer(n, d) => Following(n, d) \in Friends[n]
           /\ IsPayee(n, d) => Prev(n, d) \in Friends[n]
           /\ IsPayer(n, d) /\ IsPayee(n, d) => Following(n, d) # Prev(n, d)
<1>1. Route[d] \in Seq(Nodes) /\ IsInjective(Route[d])
  BY RouteAssumption
<1> DEFINE i == Position(n, d)
<1>2. On(n, d) => i \in 1..Len(Route[d]) /\ Route[d][i] = n
  BY PositionFacts
<1>3. IsPayer(n, d) => Following(n, d) \in Friends[n]
  BY <1>1, <1>2, RouteAssumption DEF IsPayer, Following
<1>4. IsPayee(n, d) => Prev(n, d) \in Friends[n]
  <2> SUFFICES ASSUME IsPayee(n, d)
               PROVE  Prev(n, d) \in Friends[n]
    OBVIOUS
  <2>1. i \in 2..Len(Route[d]) /\ Route[d][i] = n
    BY <1>2 DEF IsPayee
  <2>2. i - 1 \in 1..(Len(Route[d]) - 1) /\ (i - 1) + 1 = i
    BY <1>1, <2>1
  <2>3. Route[d][i] \in Friends[Route[d][i - 1]] /\ Route[d][i - 1] \in Nodes
    BY <1>1, <2>1, <2>2, RouteAssumption
  <2> QED
    BY <2>1, <2>3, FriendsAssumption DEF Prev
<1>5. IsPayer(n, d) /\ IsPayee(n, d) => Following(n, d) # Prev(n, d)
  <2> SUFFICES ASSUME IsPayer(n, d), IsPayee(n, d)
               PROVE  Following(n, d) # Prev(n, d)
    OBVIOUS
  <2>1. i \in 2..(Len(Route[d]) - 1)
    BY <1>1, <1>2 DEF IsPayer, IsPayee
  <2>2. i + 1 \in DOMAIN Route[d] /\ i - 1 \in DOMAIN Route[d] /\ i + 1 # i - 1
    BY <1>1, <2>1
  <2> QED
    BY <1>1, <2>2 DEF IsInjective, Following, Prev
<1> QED
  BY <1>3, <1>4, <1>5

\* The contracts of n for a deal are those of its roles.
LEMMA OwnRefs ==
    ASSUME NEW d \in Deals, NEW n \in Nodes
    PROVE  /\ IsPayer(n, d) <=> OwnRef(n, Ref(d, "sender"))
           /\ IsPayee(n, d) <=> OwnRef(n, Ref(d, "receiver"))
           /\ Ref(d, "sender") # Ref(d, "receiver")
<1>1. Ref(d, "sender") \in AllRefs /\ Ref(d, "receiver") \in AllRefs
  BY DEF AllRefs, Parties
<1> QED
  BY <1>1 DEF OwnRef, Refs, Ref

\* A contract is named by its deal and its party.
LEMMA RefFacts ==
    ASSUME NEW ref \in AllRefs
    PROVE  /\ ref.tx \in Deals /\ ref.party \in Parties
           /\ ref = Ref(ref.tx, ref.party)
BY DEF AllRefs, Ref

\* A contract is with a friend.
LEMMA OwnRefFacts ==
    ASSUME NEW n \in Nodes, NEW ref, OwnRef(n, ref)
    PROVE  PeerOf(n, ref) \in Friends[n]
<1>1. ref \in AllRefs /\ ref.tx \in Deals /\ ref = Ref(ref.tx, ref.party)
  BY RefFacts DEF OwnRef
<1>2. CASE ref.party = "sender"
  BY <1>1, <1>2, OwnRefs, Neighbours DEF PeerOf
<1>3. CASE ref.party = "receiver"
  BY <1>1, <1>3, OwnRefs, Neighbours DEF PeerOf
<1> QED
  BY <1>1, <1>2, <1>3, RefFacts DEF Parties

\* There are finitely many contracts.
LEMMA AllRefsFinite == IsFiniteSet(AllRefs)
<1> DEFINE S == Deals \X Parties
           f == [x \in S |-> Ref(x[1], x[2])]
<1>1. IsFiniteSet(Parties)
  <2>1. IsFiniteSet({"receiver"})
    BY FS_Singleton
  <2>2. IsFiniteSet({"receiver"} \cup {"sender"})
    BY <2>1, FS_AddElement
  <2>3. Parties = {"receiver"} \cup {"sender"}
    BY DEF Parties
  <2> QED
    BY <2>2, <2>3
<1>2. IsFiniteSet(S)
  BY <1>1, FS_Product, RouteAssumption
<1>3. f \in Surjection(S, AllRefs)
  <2>1. f \in [S -> AllRefs]
    BY DEF AllRefs
  <2>2. ASSUME NEW ref \in AllRefs
        PROVE  \E x \in S : f[x] = ref
    <3>1. PICK d \in Deals, party \in Parties : ref = Ref(d, party)
      BY DEF AllRefs
    <3>2. <<d, party>> \in S /\ f[<<d, party>>] = ref
      BY <3>1
    <3> QED
      BY <3>2
  <2> HIDE DEF f, S
  <2> QED
    BY <2>1, <2>2 DEF Surjection
<1> HIDE DEF f, S
<1> QED
  BY <1>2, <1>3, FS_Surjection

-----------------------------------------------------------------------------
(* Rows and objects.                                                       *)

\* A stored row is that of a contract of the node, and of one only.
LEMMA RowFacts ==
    ASSUME NEW n \in Nodes, NEW b, SoundBook(n, b), NEW row \in b.stored
    PROVE  /\ row.tx \in Deals /\ row.party \in Parties /\ row.amount \in Nat
           /\ Ref(row.tx, row.party) \in AllRefs
           /\ OwnRef(n, Ref(row.tx, row.party))
           /\ RowOf(b, Ref(row.tx, row.party)) = row
<1>1. /\ row.tx \in Deals /\ row.party \in Parties /\ row.amount \in Nat
  BY DEF SoundBook, IsBook
<1>2. Ref(row.tx, row.party) \in AllRefs
  BY <1>1 DEF AllRefs
<1>3. \A other \in b.stored :
          Ref(other.tx, other.party) = Ref(row.tx, row.party) => other = row
  BY DEF SoundBook, OwnContracts
<1>4. RowOf(b, Ref(row.tx, row.party)) = row
  BY <1>3 DEF RowOf
<1> QED
  BY <1>1, <1>2, <1>4 DEF SoundBook, OwnContracts

\* A contract that is stored has its row.
LEMMA StoredFacts ==
    ASSUME NEW n \in Nodes, NEW b, SoundBook(n, b), NEW ref \in StoredRefs(b)
    PROVE  /\ ref \in AllRefs /\ OwnRef(n, ref)
           /\ RowOf(b, ref) \in b.stored
           /\ Ref(RowOf(b, ref).tx, RowOf(b, ref).party) = ref
           /\ RowOf(b, ref).tx = ref.tx /\ RowOf(b, ref).party = ref.party
           /\ RowOf(b, ref).amount \in Nat
<1>1. PICK row \in b.stored : ref = Ref(row.tx, row.party)
  BY DEF StoredRefs
<1>2. RowOf(b, ref) = row
  BY <1>1, RowFacts
<1> QED
  BY <1>1, <1>2, RowFacts DEF Ref

\* A contract of the list has its object, which says what it is worth.
LEMMA ListedFacts ==
    ASSUME NEW n \in Nodes, NEW b, SoundBook(n, b), NEW ref \in Range(b.list)
    PROVE  /\ Listed(b, ref) /\ ref \in DOMAIN b.contract
           /\ ref \in AllRefs /\ OwnRef(n, ref)
           /\ b.contract[ref].peer = PeerOf(n, ref)
           /\ PeerOf(n, ref) \in Friends[n]
           /\ b.contract[ref].amount \in Nat
           /\ b.contract[ref].btcTx = BtcTx(ref.tx)
           /\ AmountOf(b, ref) = b.contract[ref].amount
<1>1. b.list \in Seq(DOMAIN b.contract)
  BY DEF SoundBook, IsBook
<1>2. PICK i \in 1..Len(b.list) : b.list[i] = ref
  BY <1>1 DEF Range
<1>3. Listed(b, ref) /\ ref \in DOMAIN b.contract
  BY <1>1, <1>2 DEF Listed, Contains
<1>4. OwnRef(n, ref) /\ b.contract[ref].peer = PeerOf(n, ref)
  BY <1>3 DEF SoundBook, OwnContracts
<1> QED
  BY <1>3, <1>4, OwnRefFacts DEF SoundBook, IsBook, AmountOf, OwnRef

\* The row says what a contract is worth that is not in the list.
LEMMA UnlistedAmount ==
    ASSUME NEW n \in Nodes, NEW b, SoundBook(n, b), NEW ref, ref \notin Range(b.list)
    PROVE  ~Listed(b, ref) /\ AmountOf(b, ref) = RowOf(b, ref).amount
<1>1. b.list \in Seq(DOMAIN b.contract)
  BY DEF SoundBook, IsBook
<1>2. ~Listed(b, ref)
  BY <1>1 DEF Listed, Contains, Range
<1> QED
  BY <1>2 DEF AmountOf

\* An open contract is the node's own; its row says what its object says.
LEMMA OpenFacts ==
    ASSUME NEW n \in Nodes, NEW b, SoundBook(n, b), NEW ref \in Open(b)
    PROVE  /\ ref \in AllRefs /\ OwnRef(n, ref) /\ AmountOf(b, ref) \in Nat
           /\ ref \in StoredRefs(b) => AmountOf(b, ref) = RowOf(b, ref).amount
<1>1. CASE ref \in Range(b.list)
  BY <1>1, ListedFacts DEF SoundBook, ObjectsMatchRows
<1>2. CASE ref \notin Range(b.list)
  <2>1. ref \in StoredRefs(b)
    BY <1>2 DEF Open
  <2> QED
    BY <1>2, <2>1, StoredFacts, UnlistedAmount
<1> QED
  BY <1>1, <1>2

\* A node has finitely many open contracts.
LEMMA ReceiversFinite ==
    ASSUME NEW n \in Nodes, NEW b, SoundBook(n, b), NEW p
    PROVE  IsFiniteSet(ReceiversFrom(n, b, p))
<1>1. ReceiversFrom(n, b, p) \in SUBSET AllRefs
  BY OpenFacts DEF ReceiversFrom
<1> QED
  BY <1>1, AllRefsFinite, FS_Subset

\* What is reserved is a number, and not negative.
LEMMA ReservedType ==
    ASSUME NEW n \in Nodes, NEW b, SoundBook(n, b), NEW p
    PROVE  Reserved(n, b, p) \in Nat
<1> DEFINE R == ReceiversFrom(n, b, p)
           f == [ref \in R |-> AmountOf(b, ref)]
<1>1. \A ref \in R : f[ref] \in Nat
  BY OpenFacts DEF ReceiversFrom
<1>2. IsFiniteSet(R)
  BY ReceiversFinite
<1>3. Reserved(n, b, p) = SumFunctionOnSet(f, R)
  BY DEF Reserved, Worth
<1> HIDE DEF R, f
<1> QED
  BY <1>1, <1>2, <1>3, SumNat

\* What is reserved depends on the open contracts and their amounts alone.
LEMMA ReservedSame ==
    ASSUME NEW n \in Nodes, NEW b, NEW c, SoundBook(n, b), Open(c) = Open(b),
           \A ref \in Open(b) : AmountOf(c, ref) = AmountOf(b, ref), NEW p
    PROVE  Reserved(n, c, p) = Reserved(n, b, p)
<1> DEFINE R == ReceiversFrom(n, b, p)
           f == [ref \in R |-> AmountOf(b, ref)]
           g == [ref \in R |-> AmountOf(c, ref)]
<1>1. f = g
  BY DEF ReceiversFrom
<1>2. ReceiversFrom(n, c, p) = R
  BY DEF ReceiversFrom
<1>3. Reserved(n, b, p) = SumFunctionOnSet(f, R)
  BY DEF Reserved, Worth
<1>4. Reserved(n, c, p) = SumFunctionOnSet(g, R)
  BY <1>2 DEF Reserved, Worth
<1> HIDE DEF R, f, g
<1> QED
  BY <1>1, <1>3, <1>4

\* One contract less: what it was worth is no longer reserved.
LEMMA ReservedLess ==
    ASSUME NEW n \in Nodes, NEW b, NEW c, SoundBook(n, b), NEW ref \in Open(b),
           Open(c) = Open(b) \ {ref},
           \A r \in Open(c) : AmountOf(c, r) = AmountOf(b, r), NEW p
    PROVE  Reserved(n, c, p) =
               Reserved(n, b, p) - Share(n, ref, AmountOf(b, ref), p)
<1> DEFINE R == ReceiversFrom(n, b, p)
           S == ReceiversFrom(n, c, p)
           f == [r \in R |-> AmountOf(b, r)]
           g == [r \in S |-> AmountOf(c, r)]
<1>1. /\ Reserved(n, b, p) = SumFunctionOnSet(f, R)
      /\ Reserved(n, c, p) = SumFunctionOnSet(g, S)
  BY DEF Reserved, Worth
<1>2. IsFiniteSet(R)
  BY ReceiversFinite
<1>3. S = R \ {ref}
  BY DEF ReceiversFrom
<1>4. IsFiniteSet(S)
  BY <1>2, <1>3, FS_Subset, S \in SUBSET R
<1>5. \A r \in S : f[r] = g[r]
  BY <1>3 DEF ReceiversFrom
<1>6. SumFunctionOnSet(g, S) = SumFunctionOnSet(f, S)
  <2> HIDE DEF S, f, g
  <2> QED
    BY <1>4, <1>5, SumSame
<1>7. \A r \in R : f[r] \in Int
  BY OpenFacts DEF ReceiversFrom
<1>8. CASE ref \in R
  <2>1. SumFunctionOnSet(f, R) = SumFunctionOnSet(f, R \ {ref}) + f[ref]
    <3> HIDE DEF R, f
    <3> QED
      BY <1>2, <1>7, <1>8, SumRemove
  <2>2. f[ref] = AmountOf(b, ref) /\ ref.party = "receiver" /\ PeerOf(n, ref) = p
    BY <1>8 DEF ReceiversFrom
  <2>3. SumFunctionOnSet(f, S) \in Int /\ AmountOf(b, ref) \in Int
    <3>1. \A r \in S : f[r] \in Int
      BY <1>3, <1>7
    <3>2. AmountOf(b, ref) \in Int
      BY OpenFacts
    <3> HIDE DEF S, f
    <3> QED
      BY <1>4, <3>1, <3>2, SumType
  <2> HIDE DEF R, S, f, g
  <2> QED
    BY <1>1, <1>3, <1>6, <2>1, <2>2, <2>3 DEF Share
<1>9. CASE ref \notin R
  <2>1. S = R
    BY <1>3, <1>9
  <2>2. ~(ref.party = "receiver" /\ PeerOf(n, ref) = p)
    BY <1>9 DEF ReceiversFrom
  <2>3. Reserved(n, b, p) \in Nat
    BY ReservedType
  <2> HIDE DEF R, S, f, g
  <2> QED
    BY <1>1, <1>6, <2>1, <2>2, <2>3 DEF Share
<1> QED
  BY <1>8, <1>9

-----------------------------------------------------------------------------
(* Operations.                                                             *)

\* The same objects and rows: the same contracts are open for the same amounts.
LEMMA SameContracts ==
    ASSUME NEW b, NEW c, c.contract = b.contract, c.list = b.list,
           c.stored = b.stored
    PROVE  /\ Open(c) = Open(b) /\ StoredRefs(c) = StoredRefs(b)
           /\ \A ref : AmountOf(c, ref) = AmountOf(b, ref)
           /\ \A ref : RowOf(c, ref) = RowOf(b, ref)
BY DEF Open, StoredRefs, AmountOf, RowOf, Listed

\* Writing table peers leaves the contracts alone.
LEMMA CreditChange ==
    ASSUME NEW n \in Nodes, NEW b, SoundBook(n, b), NEW x,
           DOMAIN x \subseteq Friends[n], \A p \in DOMAIN x : x[p] \in CreditRecord
    PROVE  LET c == [b EXCEPT !.credit = x]
           IN /\ SoundBook(n, c) /\ c.credit = x
              /\ c.contract = b.contract /\ c.list = b.list /\ c.stored = b.stored
              /\ Open(c) = Open(b) /\ \A p : Reserved(n, c, p) = Reserved(n, b, p)
<1> DEFINE c == [b EXCEPT !.credit = x]
<1>1. /\ c = [contract |-> b.contract, list |-> b.list, stored |-> b.stored,
              credit |-> x]
      /\ c.contract = b.contract /\ c.list = b.list /\ c.stored = b.stored
      /\ c.credit = x
  BY DEF SoundBook, IsBook
<1> HIDE DEF c
<1>2. /\ Open(c) = Open(b) /\ StoredRefs(c) = StoredRefs(b)
      /\ \A ref : AmountOf(c, ref) = AmountOf(b, ref)
      /\ \A ref : RowOf(c, ref) = RowOf(b, ref)
  BY <1>1, SameContracts
<1>3. IsBook(n, c)
  BY <1>1 DEF SoundBook, IsBook
<1>4. OwnContracts(n, c)
  BY <1>1 DEF SoundBook, OwnContracts
<1>5. ObjectsMatchRows(c)
  BY <1>1, <1>2 DEF SoundBook, ObjectsMatchRows
<1>6. \A p : Reserved(n, c, p) = Reserved(n, b, p)
  BY <1>2, ReservedSame
<1> QED
  BY <1>1, <1>2, <1>3, <1>4, <1>5, <1>6 DEF SoundBook, c

\* So does writing one row of it.
LEMMA StoreFacts ==
    ASSUME NEW n \in Nodes, NEW b, SoundBook(n, b), NEW p, NEW row \in CreditRecord
    PROVE  LET c == Store(b, p, row)
           IN /\ SoundBook(n, c)
              /\ c.contract = b.contract /\ c.list = b.list /\ c.stored = b.stored
              /\ Open(c) = Open(b) /\ \A q : Reserved(n, c, q) = Reserved(n, b, q)
              /\ DOMAIN c.credit = DOMAIN b.credit
              /\ p \in DOMAIN b.credit => c.credit[p] = row
              /\ \A q \in DOMAIN b.credit : q # p => c.credit[q] = b.credit[q]
<1> DEFINE x == [q \in DOMAIN b.credit |-> IF q = p THEN row ELSE b.credit[q]]
<1>1. Store(b, p, row) = [b EXCEPT !.credit = x]
  BY DEF Store
<1>2. DOMAIN x \subseteq Friends[n] /\ \A q \in DOMAIN x : x[q] \in CreditRecord
  BY DEF SoundBook, IsBook
<1>3. /\ DOMAIN x = DOMAIN b.credit
      /\ p \in DOMAIN b.credit => x[p] = row
      /\ \A q \in DOMAIN b.credit : q # p => x[q] = b.credit[q]
  OBVIOUS
<1> HIDE DEF x
<1> QED
  BY <1>1, <1>2, <1>3, CreditChange

\* loadPeer returns a row, of nothing if need be.
LEMMA LoadType ==
    ASSUME NEW n \in Nodes, NEW b, SoundBook(n, b), NEW p
    PROVE  Load(b, p) \in CreditRecord
BY DEF SoundBook, IsBook, Load, OpenLine, CreditRecord

\* A row is written whose lines are the old ones.
LEMMA RowWritten ==
    ASSUME NEW n \in Nodes, NEW b, SoundBook(n, b), NEW p, NEW row \in CreditRecord,
           row.credit = Load(b, p).credit, row.our_credit = Load(b, p).our_credit
    PROVE  LET c == Store(b, p, row)
           IN /\ CreditOnly(n, b, c)
              /\ \A q \in DOMAIN b.credit :
                    c.credit[q].allocation =
                        IF q = p THEN row.allocation ELSE b.credit[q].allocation
              /\ OthersKept(b, c, p) /\ (p \in DOMAIN b.credit => c.credit[p] = row)
<1> DEFINE c == Store(b, p, row)
<1>1. /\ SoundBook(n, c)
      /\ c.contract = b.contract /\ c.list = b.list /\ c.stored = b.stored
      /\ Open(c) = Open(b) /\ \A q : Reserved(n, c, q) = Reserved(n, b, q)
      /\ DOMAIN c.credit = DOMAIN b.credit
      /\ p \in DOMAIN b.credit => c.credit[p] = row
      /\ \A q \in DOMAIN b.credit : q # p => c.credit[q] = b.credit[q]
  BY StoreFacts
<1>2. p \in DOMAIN b.credit => Load(b, p) = b.credit[p]
  BY DEF Load
<1> HIDE DEF c
<1> QED
  BY <1>1, <1>2 DEF c, CreditOnly, SameLines, OthersKept

\* Credit::deallocate and allocate.
LEMMA GiveBackFacts ==
    ASSUME NEW n \in Nodes, NEW b, SoundBook(n, b), NEW p, NEW amount \in Int
    PROVE  LET c == GiveBack(b, p, amount)
           IN /\ CreditOnly(n, b, c)
              /\ \A q \in DOMAIN b.credit :
                    c.credit[q].allocation =
                        b.credit[q].allocation - (IF q = p THEN amount ELSE 0)
              /\ OthersKept(b, c, p)
              /\ p \in DOMAIN b.credit => c.credit[p] = Deallocated(b.credit[p], amount)
<1> DEFINE old == Load(b, p)
           row == Deallocated(old, amount)
<1>1. old \in CreditRecord /\ (p \in DOMAIN b.credit => old = b.credit[p])
  BY LoadType DEF Load
<1>2. \A q \in DOMAIN b.credit : b.credit[q].allocation \in Int
  BY DEF SoundBook, IsBook, CreditRecord
<1>3. /\ row \in CreditRecord
      /\ row.credit = old.credit /\ row.our_credit = old.our_credit
      /\ row.allocation = old.allocation - amount
  <2> HIDE DEF old
  <2> QED
    BY <1>1 DEF Deallocated, CreditRecord
<1>4. GiveBack(b, p, amount) = Store(b, p, row)
  BY DEF GiveBack
<1> HIDE DEF old, row
<1>5. /\ CreditOnly(n, b, Store(b, p, row))
      /\ \A q \in DOMAIN b.credit :
            Store(b, p, row).credit[q].allocation =
                IF q = p THEN row.allocation ELSE b.credit[q].allocation
      /\ OthersKept(b, Store(b, p, row), p)
      /\ p \in DOMAIN b.credit => Store(b, p, row).credit[p] = row
  BY <1>3, RowWritten DEF old
<1>6. p \in DOMAIN b.credit => row = Deallocated(b.credit[p], amount)
  BY <1>1 DEF row
<1> QED
  BY <1>1, <1>2, <1>3, <1>4, <1>5, <1>6

\* allocate adds to one allocation.
LEMMA ReserveFacts ==
    ASSUME NEW n \in Nodes, NEW b, SoundBook(n, b), NEW p, NEW amount \in Int
    PROVE  LET c == Reserve(b, p, amount)
           IN /\ CreditOnly(n, b, c)
              /\ \A q \in DOMAIN b.credit :
                    c.credit[q].allocation =
                        b.credit[q].allocation + (IF q = p THEN amount ELSE 0)
              /\ OthersKept(b, c, p)
              /\ p \in DOMAIN b.credit => c.credit[p] = Allocated(b.credit[p], amount)
<1> DEFINE old == Load(b, p)
           row == Allocated(old, amount)
<1>1. old \in CreditRecord /\ (p \in DOMAIN b.credit => old = b.credit[p])
  BY LoadType DEF Load
<1>2. \A q \in DOMAIN b.credit : b.credit[q].allocation \in Int
  BY DEF SoundBook, IsBook, CreditRecord
<1>3. /\ row \in CreditRecord
      /\ row.credit = old.credit /\ row.our_credit = old.our_credit
      /\ row.allocation = old.allocation + amount
  <2> HIDE DEF old
  <2> QED
    BY <1>1 DEF Allocated, CreditRecord
<1>4. Reserve(b, p, amount) = Store(b, p, row)
  BY DEF Reserve
<1> HIDE DEF old, row
<1>5. /\ CreditOnly(n, b, Store(b, p, row))
      /\ \A q \in DOMAIN b.credit :
            Store(b, p, row).credit[q].allocation =
                IF q = p THEN row.allocation ELSE b.credit[q].allocation
      /\ OthersKept(b, Store(b, p, row), p)
      /\ p \in DOMAIN b.credit => Store(b, p, row).credit[p] = row
  BY <1>3, RowWritten DEF old
<1>6. p \in DOMAIN b.credit => row = Allocated(b.credit[p], amount)
  BY <1>1 DEF row
<1> QED
  BY <1>1, <1>2, <1>3, <1>4, <1>5, <1>6

\* Writes to table peers one after the other.
LEMMA CreditOnlyTwice ==
    ASSUME NEW n \in Nodes, NEW a, NEW b, NEW c, CreditOnly(n, a, b), CreditOnly(n, b, c)
    PROVE  CreditOnly(n, a, c)
BY DEF CreditOnly, SameLines

\* An object goes from the list.
LEMMA DeleteFacts ==
    ASSUME NEW n \in Nodes, NEW b, IsBook(n, b), NEW ref \in Range(b.list)
    PROVE  LET c == Delete(b, ref)
           IN /\ IsBook(n, c) /\ Range(c.list) = Range(b.list) \ {ref}
              /\ c.contract = b.contract /\ c.stored = b.stored
              /\ c.credit = b.credit
<1> DEFINE i == CHOOSE k \in DOMAIN b.list : b.list[k] = ref
           l == RemoveAt(b.list, i)
           c == Delete(b, ref)
<1>1. i \in DOMAIN b.list /\ b.list[i] = ref
  BY DEF Range
<1>2. /\ l \in Seq(DOMAIN b.contract) /\ Range(l) = Range(b.list) \ {ref}
      /\ IsInjective(l)
  <2>1. b.list \in Seq(DOMAIN b.contract) /\ IsInjective(b.list)
    BY DEF IsBook
  <2> HIDE DEF i
  <2> QED
    BY <1>1, <2>1, RemoveAtFacts
<1>3. c = [b EXCEPT !.list = l]
  BY DEF Delete
<1> HIDE DEF i, l, c
<1>4. /\ c = [contract |-> b.contract, list |-> l, stored |-> b.stored,
              credit |-> b.credit]
      /\ c.contract = b.contract /\ c.list = l /\ c.stored = b.stored
      /\ c.credit = b.credit
  BY <1>3 DEF IsBook
<1>5. IsBook(n, c)
  BY <1>2, <1>4 DEF IsBook
<1> QED
  BY <1>2, <1>4, <1>5 DEF c

\* An object whose row stays: the contract is still open.
LEMMA ObjectLost ==
    ASSUME NEW n \in Nodes, NEW b, SoundBook(n, b), NEW ref \in Range(b.list),
           ref \in StoredRefs(b)
    PROVE  LET c == Delete(b, ref)
           IN /\ SoundBook(n, c) /\ Range(c.list) = Range(b.list) \ {ref}
              /\ c.contract = b.contract /\ c.credit = b.credit
              /\ StoredRefs(c) = StoredRefs(b) /\ AmountsKept(b, c)
              /\ Open(c) = Open(b) /\ \A p : Reserved(n, c, p) = Reserved(n, b, p)
<1> DEFINE c == Delete(b, ref)
<1>1. /\ IsBook(n, c) /\ Range(c.list) = Range(b.list) \ {ref}
      /\ c.contract = b.contract /\ c.stored = b.stored /\ c.credit = b.credit
  BY DeleteFacts DEF SoundBook
<1> HIDE DEF c
<1>2. StoredRefs(c) = StoredRefs(b) /\ \A r : RowOf(c, r) = RowOf(b, r)
  BY <1>1 DEF StoredRefs, RowOf
<1>3. SoundBook(n, c)
  BY <1>1, <1>2 DEF SoundBook, OwnContracts, ObjectsMatchRows
<1>4. Open(c) = Open(b)
  BY <1>1, <1>2 DEF Open
<1>5. ASSUME NEW r \in Open(b)
      PROVE  AmountOf(c, r) = AmountOf(b, r)
  <2>1. CASE r \in Range(c.list)
    BY <1>1, <1>3, <2>1, ListedFacts
  <2>2. CASE r \notin Range(c.list)
    BY <1>2, <1>3, <1>4, <2>2, OpenFacts, UnlistedAmount DEF Open
  <2> QED
    BY <2>1, <2>2
<1> QED
  BY <1>1, <1>2, <1>3, <1>4, <1>5, ReservedSame DEF c, AmountsKept

\* An object and its row go: the contract is no longer open.
Gone(b, ref) == Delete(RmStored(b, BtcTx(ref.tx), ref.party), ref)
Without(n, ref, b, c) ==
    /\ SoundBook(n, c) /\ Range(c.list) = Range(b.list) \ {ref}
    /\ c.contract = b.contract /\ c.credit = b.credit
    /\ StoredRefs(c) = StoredRefs(b) \ {ref} /\ AmountsKept(b, c)
    /\ Open(c) = Open(b) \ {ref}
    /\ \A p : Reserved(n, c, p) =
          Reserved(n, b, p) - Share(n, ref, b.contract[ref].amount, p)

\* Object and row of a contract go, and all the others stay.
LEMMA GoneFacts ==
    ASSUME NEW n \in Nodes, NEW b, SoundBook(n, b), NEW ref \in Range(b.list)
    PROVE  Without(n, ref, b, Gone(b, ref))
<1> DEFINE a == RmStored(b, BtcTx(ref.tx), ref.party)
           kept == {row \in b.stored : Ref(row.tx, row.party) # ref}
           c == Gone(b, ref)
<1>1. ref \in AllRefs /\ ref = Ref(ref.tx, ref.party)
  BY ListedFacts, RefFacts
<1>2. ASSUME NEW row \in b.stored
      PROVE  (BtcTx(ref.tx) = NoBtcTx \/ row.btcTx # BtcTx(ref.tx) \/ row.party # ref.party)
             <=> Ref(row.tx, row.party) # ref
  <2>1. row.btcTx = BtcTx(row.tx)
    BY DEF SoundBook, OwnContracts
  <2>2. BtcTx(ref.tx) # NoBtcTx /\ (BtcTx(row.tx) = BtcTx(ref.tx) <=> row.tx = ref.tx)
    BY DEF BtcTx, NoBtcTx
  <2> QED
    BY <1>1, <2>1, <2>2 DEF Ref
<1>3. a = [b EXCEPT !.stored = kept]
  BY <1>2 DEF RmStored
<1>4. /\ a = [contract |-> b.contract, list |-> b.list, stored |-> kept,
              credit |-> b.credit]
      /\ a.contract = b.contract /\ a.list = b.list /\ a.stored = kept
      /\ a.credit = b.credit
  BY <1>3 DEF SoundBook, IsBook
<1> HIDE DEF a
<1>5. IsBook(n, a)
  BY <1>4 DEF SoundBook, IsBook
<1>6. /\ IsBook(n, c) /\ Range(c.list) = Range(b.list) \ {ref}
      /\ c.contract = b.contract /\ c.stored = kept /\ c.credit = b.credit
  <2>1. c = Delete(a, ref)
    BY DEF Gone, a
  <2>2. ref \in Range(a.list)
    BY <1>4
  <2>3. ASSUME NEW x, IsBook(n, x), ref \in Range(x.list)
        PROVE  /\ IsBook(n, Delete(x, ref))
               /\ Range(Delete(x, ref).list) = Range(x.list) \ {ref}
               /\ Delete(x, ref).contract = x.contract
               /\ Delete(x, ref).stored = x.stored
               /\ Delete(x, ref).credit = x.credit
    BY <2>3, DeleteFacts
  <2> HIDE DEF c, kept
  <2> QED
    BY <1>4, <1>5, <2>1, <2>2, <2>3
<1> HIDE DEF c
<1>7. StoredRefs(c) = StoredRefs(b) \ {ref}
  BY <1>6 DEF StoredRefs
<1>8. ASSUME NEW r \in StoredRefs(c)
      PROVE  RowOf(c, r) = RowOf(b, r)
  <2>1. r \in StoredRefs(b) /\ r # ref
    BY <1>7
  <2>2. \A row \in b.stored : Ref(row.tx, row.party) = r <=>
            row \in c.stored /\ Ref(row.tx, row.party) = r
    BY <1>6, <2>1
  <2>3. \A row : row \in b.stored /\ Ref(row.tx, row.party) = r <=>
            row \in c.stored /\ Ref(row.tx, row.party) = r
    BY <1>6, <2>2
  <2>4. RowOf(b, r) \in c.stored /\ Ref(RowOf(b, r).tx, RowOf(b, r).party) = r
    BY <2>1, <2>3, StoredFacts
  <2>5. \A row \in c.stored : Ref(row.tx, row.party) = r => row = RowOf(b, r)
    BY <2>3, RowFacts
  <2> QED
    BY <2>4, <2>5 DEF RowOf
<1>9. OwnContracts(n, c)
  BY <1>6 DEF SoundBook, OwnContracts
<1>10. ObjectsMatchRows(c)
  BY <1>6, <1>7, <1>8 DEF SoundBook, ObjectsMatchRows
<1>11. SoundBook(n, c)
  BY <1>6, <1>9, <1>10 DEF SoundBook
<1>12. Open(c) = Open(b) \ {ref}
  BY <1>6, <1>7 DEF Open
<1>13. ASSUME NEW r \in Open(c)
       PROVE  AmountOf(c, r) = AmountOf(b, r)
  <2>1. CASE r \in Range(c.list)
    BY <1>6, <1>11, <2>1, ListedFacts
  <2>2. CASE r \notin Range(c.list)
    <3>1. r \in StoredRefs(c) /\ r \in Open(b) /\ r \in StoredRefs(b)
      BY <2>2, <1>7, <1>12 DEF Open
    <3> QED
      BY <1>8, <1>11, <2>2, <3>1, OpenFacts, UnlistedAmount
  <2> QED
    BY <2>1, <2>2
<1>14. ref \in Open(b) /\ AmountOf(b, ref) = b.contract[ref].amount
  BY ListedFacts DEF Open
<1> QED
  BY <1>6, <1>7, <1>11, <1>12, <1>13, <1>14, ReservedLess DEF c, Without, AmountsKept

-----------------------------------------------------------------------------
(* The process ends, and starts again.                                     *)

\* What is not stored is lost, and what it reserved stays reserved.
LEMMA MemoryLost ==
    ASSUME NEW n \in Nodes, NEW b, SoundBook(n, b), NEW c,
           c = [contract |-> <<>>, list |-> <<>>, stored |-> b.stored,
                credit |-> b.credit]
    PROVE  /\ SoundBook(n, c) /\ Open(c) = StoredRefs(b)
           /\ StoredRefs(c) = StoredRefs(b) /\ AmountsKept(b, c)
           /\ \A p : Reserved(n, b, p) = Reserved(n, c, p) +
                  Worth(b, (Range(b.list) \ StoredRefs(b)) \cap ReceiversFrom(n, b, p))
           /\ \A p : Worth(b, (Range(b.list) \ StoredRefs(b)) \cap ReceiversFrom(n, b, p))
                         \in Nat
<1>1. /\ StoredRefs(c) = StoredRefs(b) /\ \A r : RowOf(c, r) = RowOf(b, r)
      /\ c.stored = b.stored /\ c.credit = b.credit
      /\ DOMAIN c.contract = {} /\ c.list = <<>> /\ Range(c.list) = {}
  BY DEF StoredRefs, RowOf, Range
<1>2. IsBook(n, c)
  <2>1. c.list \in Seq({}) /\ IsInjective(c.list)
    BY <1>1 DEF IsInjective
  <2>2. c = [contract |-> c.contract, list |-> c.list, stored |-> c.stored,
             credit |-> c.credit]
    OBVIOUS
  <2> QED
    BY <1>1, <2>1, <2>2 DEF SoundBook, IsBook
<1>3. SoundBook(n, c)
  BY <1>1, <1>2 DEF SoundBook, OwnContracts, ObjectsMatchRows
<1>4. Open(c) = StoredRefs(b)
  BY <1>1 DEF Open
<1>5. ASSUME NEW r \in StoredRefs(b)
      PROVE  AmountOf(c, r) = AmountOf(b, r)
  BY <1>1, <1>3, OpenFacts, UnlistedAmount DEF Open
<1>6. ASSUME NEW p
      PROVE  LET w == Worth(b, (Range(b.list) \ StoredRefs(b)) \cap ReceiversFrom(n, b, p))
             IN Reserved(n, b, p) = Reserved(n, c, p) + w /\ w \in Nat
  <2> DEFINE R == ReceiversFrom(n, b, p)
             S == ReceiversFrom(n, c, p)
             L == (Range(b.list) \ StoredRefs(b)) \cap R
             f == [r \in R |-> AmountOf(b, r)]
             g == [r \in S |-> AmountOf(c, r)]
             h == [r \in L |-> AmountOf(b, r)]
  <2>1. S \in SUBSET R /\ L = R \ S /\ L \in SUBSET R
    BY <1>4 DEF ReceiversFrom, Open
  <2>2. IsFiniteSet(R) /\ IsFiniteSet(S) /\ IsFiniteSet(L)
    BY <2>1, ReceiversFinite, FS_Subset
  <2>3. \A r \in R : f[r] \in Nat /\ f[r] \in Int
    BY OpenFacts DEF ReceiversFrom
  <2>4. \A r \in S : f[r] = g[r]
    BY <1>4, <1>5, <2>1 DEF ReceiversFrom
  <2>5. \A r \in L : f[r] = h[r]
    BY <2>1
  <2>6. /\ Reserved(n, b, p) = SumFunctionOnSet(f, R)
        /\ Reserved(n, c, p) = SumFunctionOnSet(g, S)
        /\ Worth(b, L) = SumFunctionOnSet(h, L)
    BY DEF Reserved, Worth
  <2> HIDE DEF R, S, L, f, g, h
  <2>7. SumFunctionOnSet(f, R) = SumFunctionOnSet(f, S) + SumFunctionOnSet(f, R \ S)
    BY <2>1, <2>2, <2>3, SumSplit
  <2>8. SumFunctionOnSet(f, S) = SumFunctionOnSet(g, S)
    BY <2>2, <2>4, SumSame
  <2>9. SumFunctionOnSet(f, L) = SumFunctionOnSet(h, L)
    BY <2>2, <2>5, SumSame
  <2>10. SumFunctionOnSet(f, L) \in Nat
    <3>1. \A r \in L : f[r] \in Nat
      BY <2>1, <2>3
    <3> QED
      BY <2>2, <3>1, SumNat
  <2> QED
    BY <2>1, <2>6, <2>7, <2>8, <2>9, <2>10 DEF L, R
<1> QED
  BY <1>1, <1>3, <1>4, <1>5, <1>6 DEF AmountsKept

\* loadBtcContracts makes the open contracts of the rows.
LEMMA ReloadFacts ==
    ASSUME NEW n \in Nodes, NEW b, SoundBook(n, b), b.list = <<>>,
           NEW list \in [1..Cardinality(StoredRefs(b)) -> StoredRefs(b)],
           IsInjective(list), Range(list) = StoredRefs(b), NEW c,
           c = [contract |-> [ref \in Range(list) |-> Loaded(RowOf(b, ref))],
                list |-> list, stored |-> b.stored, credit |-> b.credit]
    PROVE  /\ SoundBook(n, c) /\ Open(c) = Open(b)
           /\ StoredRefs(c) = StoredRefs(b) /\ AmountsKept(b, c)
           /\ \A p : Reserved(n, c, p) = Reserved(n, b, p)
<1> DEFINE refs == StoredRefs(b)
<1>1. list \in Seq(refs)
  <2>1. IsFiniteSet(refs)
    BY StoredFacts, AllRefsFinite, FS_Subset, refs \in SUBSET AllRefs
  <2>2. Cardinality(refs) \in Nat
    BY <2>1, FS_CardinalityType
  <2>3. list \in [1..Cardinality(refs) -> refs]
    OBVIOUS
  <2> HIDE DEF refs
  <2> QED
    BY <2>2, <2>3
<1>2. /\ StoredRefs(c) = refs /\ \A r : RowOf(c, r) = RowOf(b, r)
      /\ c.stored = b.stored /\ c.credit = b.credit /\ c.list = list
      /\ DOMAIN c.contract = refs
      /\ \A r \in refs : c.contract[r] = Loaded(RowOf(b, r))
  BY DEF StoredRefs, RowOf
<1>3. ASSUME NEW r \in refs
      PROVE  /\ OwnRef(n, r) /\ r \in AllRefs
             /\ c.contract[r] \in [peer : Friends[n], amount : Nat,
                                   btcTx : {BtcTx(r.tx)}, active : BOOLEAN]
             /\ c.contract[r].peer = PeerOf(n, r)
             /\ c.contract[r].active /\ c.contract[r].amount = RowOf(b, r).amount
  <2>1. /\ r \in AllRefs /\ OwnRef(n, r) /\ RowOf(b, r) \in b.stored
        /\ Ref(RowOf(b, r).tx, RowOf(b, r).party) = r
        /\ RowOf(b, r).tx = r.tx /\ RowOf(b, r).amount \in Nat
    BY StoredFacts
  <2>2. RowOf(b, r).peer = PeerOf(n, r) /\ RowOf(b, r).btcTx = BtcTx(r.tx)
    BY <2>1 DEF SoundBook, OwnContracts
  <2>3. PeerOf(n, r) \in Friends[n]
    BY <2>1, OwnRefFacts
  <2>4. c.contract[r] = [peer |-> PeerOf(n, r), amount |-> RowOf(b, r).amount,
                         btcTx |-> BtcTx(r.tx), active |-> TRUE]
    BY <1>2, <2>2 DEF Loaded, LoadedObject, Contract
  <2> DEFINE o == c.contract[r]
  <2>5. /\ o \in [peer : Friends[n], amount : Nat, btcTx : {BtcTx(r.tx)},
                  active : BOOLEAN]
        /\ o.peer = PeerOf(n, r) /\ o.active /\ o.amount = RowOf(b, r).amount
    <3> HIDE DEF o
    <3>1. o = [peer |-> PeerOf(n, r), amount |-> RowOf(b, r).amount,
               btcTx |-> BtcTx(r.tx), active |-> TRUE]
      BY <2>4 DEF o
    <3> QED
      BY <2>1, <2>3, <3>1
  <2> QED
    BY <2>1, <2>5
<1> HIDE DEF refs
<1>4. IsBook(n, c)
  <2>1. c = [contract |-> c.contract, list |-> c.list, stored |-> c.stored,
             credit |-> c.credit]
    OBVIOUS
  <2>2. c.list \in Seq(DOMAIN c.contract) /\ IsInjective(c.list)
    BY <1>1, <1>2
  <2>3. DOMAIN c.contract \subseteq AllRefs
    BY <1>2, <1>3
  <2>4. \A ref \in DOMAIN c.contract :
            c.contract[ref] \in [peer : Friends[n], amount : Nat,
                                 btcTx : {BtcTx(ref.tx)}, active : BOOLEAN]
    BY <1>2, <1>3
  <2> QED
    BY <1>2, <2>1, <2>2, <2>3, <2>4 DEF SoundBook, IsBook
<1>5. SoundBook(n, c)
  <2>1. OwnContracts(n, c)
    BY <1>2, <1>3 DEF SoundBook, OwnContracts
  <2>2. Range(c.list) = refs
    BY <1>2 DEF refs
  <2>3. ObjectsMatchRows(c)
    BY <1>2, <1>3, <2>2 DEF ObjectsMatchRows
  <2> QED
    BY <1>4, <2>1, <2>3 DEF SoundBook
<1>6. Open(c) = Open(b) /\ Open(b) = refs
  BY <1>2, SMTT(30) DEF Open, Range, refs
<1>7. ASSUME NEW r \in Open(b)
      PROVE  AmountOf(c, r) = AmountOf(b, r)
  <2>1. r \in Range(c.list)
    BY <1>2, <1>6 DEF refs
  <2>2. AmountOf(c, r) = c.contract[r].amount
    BY <1>5, <2>1, ListedFacts
  <2>3. r \notin Range(b.list)
    BY DEF Range
  <2> QED
    BY <1>3, <1>6, <2>2, <2>3, UnlistedAmount, SMTT(30)
<1> QED
  BY <1>2, <1>5, <1>6, <1>7, ReservedSame DEF AmountsKept, refs

-----------------------------------------------------------------------------
(* Contracts come and go.                                                  *)

\* b with one contract more, over amount.
More(n, ref, amount, b, c) ==
    /\ SoundBook(n, c) /\ SameLines(b, c) /\ c.stored = b.stored
    /\ Range(c.list) = Range(b.list) \cup {ref}
    /\ \A r \in Range(b.list) : c.contract[r] = b.contract[r]
    /\ ~c.contract[ref].active
    /\ Open(c) = Open(b) \cup {ref}
    /\ AmountOf(c, ref) = amount /\ AmountsKept(b, c)
    /\ \A p : Reserved(n, c, p) = Reserved(n, b, p) + Share(n, ref, amount, p)

\* A new SENDER contract touches no credit.
LEMMA SenderMade ==
    ASSUME NEW n \in Nodes, NEW b, SoundBook(n, b), NEW ref, OwnRef(n, ref),
           ref \notin Open(b), NEW p, p = PeerOf(n, ref), NEW amount \in Nat
    PROVE  LET c == Waiting(NewSender(b, ref, p, amount), ref)
           IN More(n, ref, amount, b, c) /\ c.credit = b.credit
<1> DEFINE a == NewSender(b, ref, p, amount)
           c == Waiting(a, ref)
           new == Contract(p, amount)
           made == With(b.contract, ref, new)
           obj == [made EXCEPT ![ref].btcTx = BtcTx(ref.tx)]
           list == Append(b.list, ref)
<1>1. /\ ref \in AllRefs /\ p \in Friends[n]
      /\ b = [contract |-> b.contract, list |-> b.list, stored |-> b.stored,
              credit |-> b.credit]
      /\ b.list \in Seq(DOMAIN b.contract) /\ IsInjective(b.list)
  BY OwnRefFacts DEF OwnRef, SoundBook, IsBook
<1>2. c = [contract |-> obj, list |-> list, stored |-> b.stored, credit |-> b.credit]
  <2>1. a = [contract |-> made, list |-> list, stored |-> b.stored,
             credit |-> b.credit]
    <3> HIDE DEF made, list
    <3>1. a = [b EXCEPT !.contract = made, !.list = list]
      BY DEF NewSender, made, list
    <3> HIDE DEF a
    <3> QED
      BY <1>1, <3>1
  <2> HIDE DEF a, made, list
  <2> QED
    BY <2>1 DEF Waiting, SetBtcTxId
<1>3. /\ DOMAIN obj = DOMAIN b.contract \cup {ref}
      /\ obj[ref] = [peer |-> p, amount |-> amount, btcTx |-> BtcTx(ref.tx),
                     active |-> FALSE]
      /\ \A r \in DOMAIN b.contract : r # ref => obj[r] = b.contract[r]
  <2>1. /\ DOMAIN made = DOMAIN b.contract \cup {ref} /\ made[ref] = new
        /\ \A r \in DOMAIN b.contract : r # ref => made[r] = b.contract[r]
        /\ made = [r \in DOMAIN made |-> made[r]]
    BY DEF With
  <2> DEFINE no == FALSE
             bare == [peer |-> p, amount |-> amount, btcTx |-> NoBtcTx, active |-> no]
             told == [peer |-> p, amount |-> amount, btcTx |-> BtcTx(ref.tx), active |-> no]
  <2>2. new = bare
    BY DEF Contract
  <2> HIDE DEF made, new, no
  <2>3. /\ DOMAIN obj = DOMAIN made /\ obj[ref] = [new EXCEPT !.btcTx = BtcTx(ref.tx)]
        /\ \A r \in DOMAIN made : r # ref => obj[r] = made[r]
    BY <2>1
  <2>4. [bare EXCEPT !.btcTx = BtcTx(ref.tx)] = told
    OBVIOUS
  <2> HIDE DEF obj, bare, told
  <2>5. \A r \in DOMAIN b.contract : r # ref => obj[r] = b.contract[r]
    BY <2>1, <2>3
  <2>6. DOMAIN obj = DOMAIN b.contract \cup {ref} /\ obj[ref] = told
    BY <2>1, <2>2, <2>3, <2>4
  <2> QED
    BY <2>5, <2>6 DEF told, no
<1>4. ref \notin Range(b.list) /\ ref \notin StoredRefs(b)
  BY DEF Open
<1>5. /\ list \in Seq(DOMAIN b.contract \cup {ref}) /\ IsInjective(list)
      /\ Range(list) = Range(b.list) \cup {ref}
  <2>1. b.list \in Seq(DOMAIN b.contract \cup {ref})
    BY <1>1
  <2> QED
    BY <1>1, <1>4, <2>1, AppendFacts
<1> HIDE DEF a, c, new, made, obj, list
<1>6. /\ c.contract = obj /\ c.list = list /\ c.stored = b.stored
      /\ c.credit = b.credit
      /\ c = [contract |-> c.contract, list |-> c.list, stored |-> c.stored,
              credit |-> c.credit]
  BY <1>2
<1>7. StoredRefs(c) = StoredRefs(b) /\ \A r : RowOf(c, r) = RowOf(b, r)
  BY <1>6 DEF StoredRefs, RowOf
<1>8. IsBook(n, c)
  <2>1. ASSUME NEW r \in DOMAIN obj
        PROVE  obj[r] \in [peer : Friends[n], amount : Nat,
                           btcTx : {BtcTx(r.tx)}, active : BOOLEAN]
    <3>1. CASE r = ref
      <4> DEFINE o == obj[ref]
      <4>1. o = [peer |-> p, amount |-> amount, btcTx |-> BtcTx(ref.tx),
                 active |-> FALSE]
        BY <1>3
      <4> HIDE DEF o
      <4>2. o \in [peer : Friends[n], amount : Nat,
                   btcTx : {BtcTx(ref.tx)}, active : BOOLEAN]
        BY <1>1, <4>1
      <4> QED
        BY <3>1, <4>2 DEF o
    <3>2. CASE r # ref
      BY <1>3, <3>2 DEF SoundBook, IsBook
    <3> QED
      BY <3>1, <3>2
  <2>2. DOMAIN obj \subseteq AllRefs
    BY <1>1, <1>3 DEF SoundBook, IsBook
  <2>3. list \in Seq(DOMAIN obj)
    BY <1>3, <1>5
  <2> QED
    BY <1>5, <1>6, <2>1, <2>2, <2>3 DEF SoundBook, IsBook
<1>9. OwnContracts(n, c)
  <2>1. \A r \in DOMAIN obj : OwnRef(n, r) /\ obj[r].peer = PeerOf(n, r)
    BY <1>3 DEF SoundBook, OwnContracts
  <2> QED
    BY <1>6, <2>1 DEF SoundBook, OwnContracts
<1>10. \A r \in Range(b.list) : c.contract[r] = b.contract[r]
  BY <1>3, <1>4, <1>6, ListedFacts
<1>11. ~c.contract[ref].active
  BY <1>3, <1>6
<1>12. ObjectsMatchRows(c)
  BY <1>4, <1>5, <1>6, <1>7, <1>10, <1>11 DEF SoundBook, ObjectsMatchRows
<1>13. SoundBook(n, c)
  BY <1>8, <1>9, <1>12 DEF SoundBook
<1>14. Open(c) = Open(b) \cup {ref}
  BY <1>5, <1>6, <1>7 DEF Open
<1>15. ASSUME NEW r \in Open(b)
       PROVE  AmountOf(c, r) = AmountOf(b, r)
  <2>1. CASE r \in Range(b.list)
    <3>1. r \in Range(c.list)
      BY <1>5, <1>6, <2>1
    <3> QED
      BY <1>10, <1>13, <2>1, <3>1, ListedFacts
  <2>2. CASE r \notin Range(b.list)
    <3>1. r \notin Range(c.list)
      BY <1>5, <1>6, <2>2
    <3> QED
      BY <1>7, <1>13, <2>2, <3>1, UnlistedAmount
  <2> QED
    BY <2>1, <2>2
<1>16. AmountOf(c, ref) = amount
  <2>1. ref \in Range(c.list)
    BY <1>5, <1>6
  <2> QED
    BY <1>3, <1>6, <1>13, <2>1, ListedFacts
<1>17. ASSUME NEW q
       PROVE  Reserved(n, c, q) = Reserved(n, b, q) + Share(n, ref, amount, q)
  <2>1. ref \in Open(c) /\ Open(b) = Open(c) \ {ref}
    BY <1>14
  <2>2. Reserved(n, b, q) = Reserved(n, c, q) - Share(n, ref, AmountOf(c, ref), q)
    BY <1>13, <1>15, <2>1, ReservedLess
  <2>3. Reserved(n, c, q) \in Int /\ Share(n, ref, amount, q) \in Int
    BY <1>13, ReservedType DEF Share
  <2> QED
    BY <1>16, <2>2, <2>3
<1>18. SameLines(b, c) /\ Range(c.list) = Range(b.list) \cup {ref}
  BY <1>5, <1>6 DEF SameLines
<1> QED
  BY <1>6, <1>10, <1>11, <1>13, <1>14, <1>15, <1>16, <1>17, <1>18
     DEF More, AmountsKept, c, a

\* A new RECEIVER contract reserves what it will receive.
LEMMA ReceiverMade ==
    ASSUME NEW n \in Nodes, NEW b, SoundBook(n, b), NEW ref, OwnRef(n, ref),
           ref.party = "receiver", ref \notin Open(b), NEW p, p = PeerOf(n, ref),
           NEW amount \in Nat, amount <= PeerAvailable(Load(b, p)),
           NEW gone, gone \in [Nodes -> Int], Explained(n, b, gone)
    PROVE  LET c == Waiting(NewReceiver(b, ref, p, amount), ref)
           IN /\ More(n, ref, amount, b, c) /\ Explained(n, c, gone)
              /\ OthersKept(b, c, p)
              /\ p \in DOMAIN b.credit => c.credit[p] = Allocated(b.credit[p], amount)
<1> DEFINE x == NewSender(b, ref, p, amount)
           y == Waiting(x, ref)
           c == Waiting(NewReceiver(b, ref, p, amount), ref)
           d == Reserve(y, p, amount)
<1>1. Receivable(b, p, amount) = amount
  <2>1. PeerAvailable(Load(b, p)) \in Int
    BY LoadType DEF PeerAvailable, CreditRecord
  <2> QED
    BY <2>1 DEF Receivable
<1>2. c = d
  <2> DEFINE t == BtcTx(ref.tx)
             new == With(b.contract, ref, Contract(p, amount))
             list == Append(b.list, ref)
             obj == [new EXCEPT ![ref].btcTx = t]
             row == Allocated(Load(b, p), amount)
             credit == [q \in DOMAIN b.credit |-> IF q = p THEN row ELSE b.credit[q]]
  <2>1. x = [contract |-> new, list |-> list, stored |-> b.stored, credit |-> b.credit]
    <3>1. x = [b EXCEPT !.contract = new, !.list = list]
      BY DEF NewSender
    <3>2. b = [contract |-> b.contract, list |-> b.list, stored |-> b.stored,
               credit |-> b.credit]
      BY DEF SoundBook, IsBook
    <3> HIDE DEF x, new, list
    <3> QED
      BY <3>1, <3>2
  <2> HIDE DEF x, new, list, t
  <2>2. y = [contract |-> obj, list |-> list, stored |-> b.stored, credit |-> b.credit]
    BY <2>1 DEF Waiting, SetBtcTxId, t
  <2>3. Load(x, p) = Load(b, p) /\ Load(y, p) = Load(b, p)
    BY <2>1, <2>2 DEF Load
  <2>4. NewReceiver(b, ref, p, amount) =
            [contract |-> new, list |-> list, stored |-> b.stored, credit |-> credit]
    <3>1. NewReceiver(b, ref, p, amount) = Store(x, p, row)
      BY <1>1, <2>3 DEF NewReceiver, Reserve, x
    <3>2. x.credit = b.credit
      BY <2>1
    <3>3. Store(x, p, row) = [x EXCEPT !.credit = credit]
      BY <3>2 DEF Store
    <3> HIDE DEF row, credit
    <3> QED
      BY <2>1, <3>1, <3>3
  <2>5. c = [contract |-> obj, list |-> list, stored |-> b.stored, credit |-> credit]
    <3> HIDE DEF credit
    <3> QED
      BY <2>4 DEF Waiting, SetBtcTxId, t
  <2>6. d = [contract |-> obj, list |-> list, stored |-> b.stored, credit |-> credit]
    <3>1. d = Store(y, p, row)
      BY <2>3 DEF Reserve
    <3> HIDE DEF obj, y
    <3>2. y.credit = b.credit
      BY <2>2
    <3>3. Store(y, p, row) = [y EXCEPT !.credit = credit]
      BY <3>2 DEF Store
    <3> HIDE DEF row, credit, d
    <3> QED
      BY <2>2, <3>1, <3>3
  <2> HIDE DEF c, d, obj, credit
  <2> QED
    BY <2>5, <2>6
<1>3. More(n, ref, amount, b, y) /\ y.credit = b.credit
  BY SenderMade
<1> HIDE DEF x, y, c
<1>4. /\ CreditOnly(n, y, d)
      /\ \A q \in DOMAIN y.credit :
            d.credit[q].allocation =
                y.credit[q].allocation + (IF q = p THEN amount ELSE 0)
      /\ OthersKept(y, d, p)
      /\ p \in DOMAIN y.credit => d.credit[p] = Allocated(y.credit[p], amount)
  BY <1>3, ReserveFacts DEF More
<1> HIDE DEF d
<1>5. More(n, ref, amount, b, d)
  <2>1. /\ Open(d) = Open(y) /\ \A r : AmountOf(d, r) = AmountOf(y, r)
    BY <1>4, SameContracts DEF CreditOnly
  <2> QED
    BY <1>3, <1>4, <2>1 DEF More, CreditOnly, SameLines, AmountsKept
<1>6. ASSUME NEW q \in DOMAIN d.credit
      PROVE  d.credit[q].allocation = Reserved(n, d, q) + gone[q]
  <2>1. q \in DOMAIN b.credit /\ q \in Nodes
    BY <1>3, <1>4, FriendsAssumption DEF CreditOnly, SameLines, SoundBook, IsBook
  <2>2. b.credit[q].allocation = Reserved(n, b, q) + gone[q]
    BY <2>1 DEF Explained
  <2>3. Reserved(n, d, q) = Reserved(n, b, q) + (IF q = p THEN amount ELSE 0)
    BY <1>5 DEF More, Share
  <2>4. Reserved(n, b, q) \in Int /\ gone[q] \in Int
    BY <2>1, ReservedType
  <2> QED
    BY <1>3, <1>4, <2>1, <2>2, <2>3, <2>4
<1> QED
  BY <1>2, <1>3, <1>4, <1>5, <1>6 DEF Explained, OthersKept, c, d, y, x

\* A contract is stored and in force: it was open before.
LEMMA StipulateFacts ==
    ASSUME NEW n \in Nodes, NEW b, SoundBook(n, b), NEW ref \in Range(b.list),
           ~b.contract[ref].active
    PROVE  LET c == Stipulate(b, ref)
           IN /\ SoundBook(n, c) /\ c.list = b.list /\ c.credit = b.credit
              /\ \A r \in Range(b.list) : r # ref => c.contract[r] = b.contract[r]
              /\ StoredRefs(c) = StoredRefs(b) \cup {ref} /\ AmountsKept(b, c)
              /\ Open(c) = Open(b) /\ \A p : Reserved(n, c, p) = Reserved(n, b, p)
<1> DEFINE yes == TRUE
           o == b.contract[ref]
           on == [o EXCEPT !.active = yes]
           objs == [b.contract EXCEPT ![ref] = on]
           new == Row(ref, objs[ref])
           rows == b.stored \cup {new}
           c == Stipulate(b, ref)
<1>1. /\ ref \in DOMAIN b.contract /\ ref \in AllRefs /\ OwnRef(n, ref)
      /\ o.peer = PeerOf(n, ref) /\ o.peer \in Friends[n] /\ o.amount \in Nat
      /\ o.btcTx = BtcTx(ref.tx) /\ ref \notin StoredRefs(b)
      /\ ref.tx \in Deals /\ ref.party \in Parties /\ ref = Ref(ref.tx, ref.party)
      /\ AmountOf(b, ref) = o.amount
  BY ListedFacts, RefFacts DEF SoundBook, ObjectsMatchRows
<1>2. o = [peer |-> o.peer, amount |-> o.amount, btcTx |-> o.btcTx, active |-> o.active]
  BY <1>1 DEF SoundBook, IsBook
<1>3. on = [peer |-> o.peer, amount |-> o.amount, btcTx |-> o.btcTx, active |-> yes]
  <2> HIDE DEF o, yes
  <2> QED
    BY <1>2
<1>4. /\ DOMAIN objs = DOMAIN b.contract /\ objs[ref] = on
      /\ \A r \in DOMAIN b.contract : r # ref => objs[r] = b.contract[r]
  <2> HIDE DEF on
  <2> QED
    BY <1>1
<1>5. c = [contract |-> objs, list |-> b.list, stored |-> rows, credit |-> b.credit]
  <2> DEFINE a == Activate(b, ref)
  <2>1. b = [contract |-> b.contract, list |-> b.list, stored |-> b.stored,
             credit |-> b.credit]
    BY DEF SoundBook, IsBook
  <2>2. a = [b EXCEPT !.contract = objs]
    <3>1. objs = [b.contract EXCEPT ![ref].active = TRUE]
      OBVIOUS
    <3> HIDE DEF objs
    <3> QED
      BY <3>1 DEF Activate
  <2> HIDE DEF objs
  <2>3. a = [contract |-> objs, list |-> b.list, stored |-> b.stored, credit |-> b.credit]
    <3> HIDE DEF a
    <3> QED
      BY <2>1, <2>2
  <2>4. c = [a EXCEPT !.stored = rows]
    <3>1. a.contract = objs /\ a.stored = b.stored
      BY <2>3
    <3> HIDE DEF a
    <3> QED
      BY <3>1 DEF Stipulate, Persist, a
  <2> HIDE DEF a, rows, c
  <2> QED
    BY <2>3, <2>4
<1> HIDE DEF on, objs, c, o, yes
<1>6. new = [tx |-> ref.tx, party |-> ref.party, peer |-> o.peer, amount |-> o.amount,
             btcTx |-> o.btcTx]
  <2>1. objs[ref].peer = o.peer /\ objs[ref].amount = o.amount /\ objs[ref].btcTx = o.btcTx
    BY <1>3, <1>4
  <2> HIDE DEF new
  <2> QED
    BY <2>1 DEF Row, new
<1>7. /\ new \in [tx : Deals, party : Parties, peer : Friends[n], amount : Nat,
                  btcTx : {BtcTx(d) : d \in Deals}]
      /\ Ref(new.tx, new.party) = ref /\ new.amount = o.amount
      /\ new.peer = PeerOf(n, ref) /\ new.btcTx = BtcTx(new.tx) /\ new.tx = ref.tx
  <2> HIDE DEF new
  <2>1. o.btcTx \in {BtcTx(d) : d \in Deals}
    BY <1>1
  <2> QED
    BY <1>1, <1>6, <2>1
<1> HIDE DEF new
<1>8. /\ c.contract = objs /\ c.list = b.list /\ c.stored = rows /\ c.credit = b.credit
      /\ c = [contract |-> c.contract, list |-> c.list, stored |-> c.stored,
              credit |-> c.credit]
  BY <1>5
<1>9. \A row \in b.stored : Ref(row.tx, row.party) \in StoredRefs(b)
                            /\ Ref(row.tx, row.party) # ref
  BY <1>1 DEF StoredRefs
<1>10. StoredRefs(c) = StoredRefs(b) \cup {ref}
  BY <1>7, <1>8 DEF StoredRefs
<1>11. RowOf(c, ref) = new
  BY <1>7, <1>8, <1>9 DEF RowOf
<1>12. ASSUME NEW r \in StoredRefs(b)
       PROVE  RowOf(c, r) = RowOf(b, r)
  <2>1. /\ RowOf(b, r) \in b.stored
        /\ Ref(RowOf(b, r).tx, RowOf(b, r).party) = r /\ r # ref
    BY <1>1, StoredFacts
  <2>2. \A row \in rows : Ref(row.tx, row.party) = r => row = RowOf(b, r)
    BY <1>7, <2>1, RowFacts
  <2> QED
    BY <1>8, <2>1, <2>2 DEF RowOf
<1>13. IsBook(n, c)
  <2>1. ASSUME NEW r \in DOMAIN objs
        PROVE  objs[r] \in [peer : Friends[n], amount : Nat,
                            btcTx : {BtcTx(r.tx)}, active : BOOLEAN]
    <3>1. CASE r = ref
      <4>1. on \in [peer : Friends[n], amount : Nat,
                    btcTx : {BtcTx(ref.tx)}, active : {yes}]
        BY <1>1, <1>3
      <4>2. yes \in BOOLEAN
        BY DEF yes
      <4>3. on \in [peer : Friends[n], amount : Nat,
                    btcTx : {BtcTx(ref.tx)}, active : BOOLEAN]
        BY <4>1, <4>2
      <4> QED
        BY <1>4, <3>1, <4>3
    <3>2. CASE r # ref
      BY <1>4, <3>2 DEF SoundBook, IsBook
    <3> QED
      BY <3>1, <3>2
  <2> QED
    BY <1>4, <1>7, <1>8, <2>1 DEF SoundBook, IsBook
<1>14. OwnContracts(n, c)
  <2>1. \A r \in DOMAIN objs : OwnRef(n, r) /\ objs[r].peer = PeerOf(n, r)
    BY <1>1, <1>3, <1>4 DEF SoundBook, OwnContracts
  <2>2. \A row \in rows : LET r == Ref(row.tx, row.party)
                          IN OwnRef(n, r) /\ row.peer = PeerOf(n, r)
                             /\ row.btcTx = BtcTx(row.tx)
    BY <1>1, <1>7 DEF SoundBook, OwnContracts
  <2>3. \A row, other \in rows :
            Ref(row.tx, row.party) = Ref(other.tx, other.party) => row = other
    BY <1>7, <1>9 DEF SoundBook, OwnContracts
  <2> QED
    BY <1>8, <2>1, <2>2, <2>3 DEF OwnContracts
<1>15. ASSUME NEW r \in Range(b.list)
       PROVE  /\ r # ref => c.contract[r] = b.contract[r]
              /\ c.contract[r].amount = b.contract[r].amount
  BY <1>3, <1>4, <1>8, ListedFacts DEF o
<1>16. ASSUME NEW r \in Range(b.list)
       PROVE  /\ c.contract[r].active <=> r \in StoredRefs(c)
              /\ r \in StoredRefs(c) => RowOf(c, r).amount = c.contract[r].amount
  <2>1. CASE r = ref
    <3>1. c.contract[r].active
      BY <1>3, <1>4, <1>8, <2>1 DEF yes
    <3>2. r \in StoredRefs(c)
      BY <1>10, <2>1
    <3>3. RowOf(c, r).amount = c.contract[r].amount
      BY <1>3, <1>4, <1>7, <1>8, <1>11, <2>1
    <3> QED
      BY <3>1, <3>2, <3>3
  <2>2. CASE r # ref
    <3>1. c.contract[r] = b.contract[r]
      BY <1>15, <2>2
    <3>2. r \in StoredRefs(c) <=> r \in StoredRefs(b)
      BY <1>10, <2>2
    <3>3. /\ b.contract[r].active <=> r \in StoredRefs(b)
          /\ r \in StoredRefs(b) => RowOf(b, r).amount = b.contract[r].amount
      BY DEF SoundBook, ObjectsMatchRows
    <3> QED
      BY <1>12, <3>1, <3>2, <3>3
  <2> QED
    BY <2>1, <2>2
<1>17. SoundBook(n, c)
  BY <1>8, <1>13, <1>14, <1>16 DEF SoundBook, ObjectsMatchRows
<1>18. Open(c) = Open(b)
  BY <1>8, <1>10 DEF Open
<1>19. ASSUME NEW r \in Open(b)
       PROVE  AmountOf(c, r) = AmountOf(b, r)
  <2>1. CASE r \in Range(b.list)
    BY <1>8, <1>15, <1>17, <2>1, ListedFacts
  <2>2. CASE r \notin Range(b.list)
    <3>1. r \in StoredRefs(b)
      BY <2>2 DEF Open
    <3> QED
      BY <1>8, <1>12, <1>17, <2>2, <3>1, UnlistedAmount
  <2> QED
    BY <2>1, <2>2
<1> QED
  BY <1>8, <1>10, <1>15, <1>17, <1>18, <1>19, ReservedSame DEF c, AmountsKept

\* rmContract looks for friend and Bitcoin transaction, and finds the contract
\* itself: a hop's two contracts of a deal are with different friends.
LEMMA ContractFound ==
    ASSUME NEW n \in Nodes, NEW b, SoundBook(n, b), NEW ref \in Range(b.list),
           NEW i \in DOMAIN b.list,
           b.contract[b.list[i]].peer = b.contract[ref].peer,
           b.contract[b.list[i]].btcTx = b.contract[ref].btcTx
    PROVE  b.list[i] = ref
<1> DEFINE r == b.list[i]
<1>1. r \in Range(b.list)
  BY DEF Range
<1>2. /\ PeerOf(n, r) = PeerOf(n, ref) /\ BtcTx(r.tx) = BtcTx(ref.tx)
      /\ r \in AllRefs /\ OwnRef(n, r) /\ ref \in AllRefs /\ OwnRef(n, ref)
  BY <1>1, ListedFacts
<1> HIDE DEF r
<1>3. r.tx = ref.tx
  BY <1>2 DEF BtcTx
<1>4. /\ r = Ref(r.tx, r.party) /\ ref = Ref(ref.tx, ref.party) /\ ref.tx \in Deals
      /\ r.party \in Parties /\ ref.party \in Parties
  BY <1>2, RefFacts
<1>5. ASSUME NEW d \in Deals, OwnRef(n, Ref(d, "sender")), OwnRef(n, Ref(d, "receiver"))
      PROVE  PeerOf(n, Ref(d, "sender")) # PeerOf(n, Ref(d, "receiver"))
  BY <1>5, OwnRefs, Neighbours DEF PeerOf, Ref
<1>6. r.party = ref.party
  BY <1>2, <1>3, <1>4, <1>5 DEF Parties
<1> QED
  BY <1>3, <1>4, <1>6 DEF r

\* rmContract finds the contract itself and gives back what it reserved.
LEMMA RollbackFacts ==
    ASSUME NEW n \in Nodes, NEW b, SoundBook(n, b), NEW ref \in Range(b.list),
           NEW gone, gone \in [Nodes -> Int], Explained(n, b, gone)
    PROVE  LET c == RmContract(b, ref)
           IN /\ SoundBook(n, c) /\ SameLines(b, c) /\ Explained(n, c, gone)
              /\ Range(c.list) = Range(b.list) \ {ref}
              /\ c.contract = b.contract /\ Open(c) = Open(b) \ {ref}
              /\ StoredRefs(c) = StoredRefs(b) \ {ref} /\ AmountsKept(b, c)
              /\ OthersKept(b, c, PeerOf(n, ref))
              /\ \A q \in DOMAIN b.credit :
                    /\ c.credit[q].balance = b.credit[q].balance
                    /\ c.credit[q].allocation <= b.credit[q].allocation
<1> DEFINE o == b.contract[ref]
           alike == {i \in DOMAIN b.list : /\ b.contract[b.list[i]].peer = o.peer
                                           /\ b.contract[b.list[i]].btcTx = o.btcTx}
           k == CHOOSE i \in DOMAIN b.list : b.list[i] = ref
           p == PeerOf(n, ref)
           g == Gone(b, ref)
           c == RmContract(b, ref)
<1>1. /\ k \in DOMAIN b.list /\ b.list[k] = ref
  BY DEF Range
<1>2. /\ b.list \in Seq(DOMAIN b.contract) /\ IsInjective(b.list)
  BY DEF SoundBook, IsBook
<1>3. /\ o.peer = p /\ o.amount \in Nat /\ o.btcTx = BtcTx(ref.tx) /\ ref \in AllRefs
  BY ListedFacts
<1>4. alike = {k} /\ k \in Int
  <2>1. k \in alike
    BY <1>1
  <2>2. \A i \in alike : i = k
    <3>1. \A i \in alike : b.list[i] = ref
      BY ContractFound
    <3> HIDE DEF k
    <3> QED
      BY <1>1, <1>2, <3>1 DEF IsInjective
  <2> HIDE DEF alike, k
  <2> QED
    BY <1>1, <1>2, <2>1, <2>2
<1>5. Min(alike) = k
  <2> HIDE DEF alike, k
  <2> QED
    BY <1>4 DEF Min
<1>6. c = IF ref.party = "sender" THEN g ELSE GiveBack(g, p, o.amount)
  <2>1. c = LET removed == [RmStored(b, o.btcTx, ref.party) EXCEPT !.list = RemoveAt(@, k)]
            IN IF ref.party = "sender" THEN removed
               ELSE GiveBack(removed, o.peer, b.contract[b.list[k]].amount)
    <3>1. alike # {}
      BY <1>4
    <3> QED
      BY <1>5, <3>1 DEF RmContract
  <2>2. RmStored(b, o.btcTx, ref.party).list = b.list
    <3> DEFINE keep == {row \in b.stored : \/ o.btcTx = NoBtcTx
                                           \/ row.btcTx # o.btcTx
                                           \/ row.party # ref.party}
    <3>1. RmStored(b, o.btcTx, ref.party) = [b EXCEPT !.stored = keep]
      BY DEF RmStored
    <3>2. b = [contract |-> b.contract, list |-> b.list, stored |-> b.stored,
               credit |-> b.credit]
      BY DEF SoundBook, IsBook
    <3> HIDE DEF keep
    <3> QED
      BY <3>1, <3>2
  <2>3. [RmStored(b, o.btcTx, ref.party) EXCEPT !.list = RemoveAt(@, k)] = g
    BY <1>3, <2>2 DEF Gone, Delete
  <2> QED
    BY <1>1, <1>3, <2>1, <2>3
<1>7. Without(n, ref, b, g)
  BY GoneFacts
<1> HIDE DEF o, alike, k, g, c, p
<1>8. ASSUME NEW q \in DOMAIN b.credit
      PROVE  /\ b.credit[q].allocation = Reserved(n, b, q) + gone[q]
             /\ b.credit[q].allocation \in Int /\ Reserved(n, b, q) \in Int
             /\ gone[q] \in Int
  <2>1. q \in Nodes
    BY FriendsAssumption DEF SoundBook, IsBook
  <2> QED
    BY <2>1, ReservedType, SMTT(30) DEF Explained, SoundBook, IsBook, CreditRecord
<1>9. CASE ref.party = "sender"
  <2>1. \A q : Reserved(n, g, q) = Reserved(n, b, q) - 0
    BY <1>7, <1>9 DEF Without, Share
  <2>2. Explained(n, g, gone)
    BY <1>7, <1>8, <2>1 DEF Explained, Without
  <2>3. c = g
    BY <1>6, <1>9
  <2>4. \A q \in DOMAIN b.credit :
            /\ c.credit[q].balance = b.credit[q].balance
            /\ c.credit[q].allocation <= b.credit[q].allocation
    BY <1>7, <1>8, <2>3 DEF Without
  <2> QED
    BY <1>7, <2>2, <2>3, <2>4 DEF Without, SameLines, OthersKept, c
<1>10. CASE ref.party # "sender"
  <2>1. ref.party = "receiver"
    BY <1>3, <1>10, RefFacts DEF Parties
  <2>2. SoundBook(n, g) /\ g.credit = b.credit /\ o.amount \in Int
    BY <1>3, <1>7 DEF Without
  <2> DEFINE h == GiveBack(g, p, o.amount)
  <2>3. /\ CreditOnly(n, g, h)
        /\ \A q \in DOMAIN g.credit :
              h.credit[q].allocation =
                  g.credit[q].allocation - (IF q = p THEN o.amount ELSE 0)
        /\ OthersKept(g, h, p)
        /\ p \in DOMAIN g.credit => h.credit[p] = Deallocated(g.credit[p], o.amount)
    BY <2>2, GiveBackFacts
  <2>4. c = h
    BY <1>6, <1>10
  <2> HIDE DEF h
  <2>5. ASSUME NEW q \in DOMAIN h.credit
        PROVE  h.credit[q].allocation = Reserved(n, h, q) + gone[q]
    <3>1. q \in DOMAIN b.credit
      BY <2>2, <2>3 DEF CreditOnly, SameLines
    <3>2. Reserved(n, h, q) = Reserved(n, b, q) - Share(n, ref, o.amount, q)
      BY <1>7, <2>3 DEF Without, CreditOnly, o
    <3> QED
      BY <1>8, <2>1, <2>2, <2>3, <3>1, <3>2 DEF Share, p
  <2>6. StoredRefs(h) = StoredRefs(g) /\ \A r : AmountOf(h, r) = AmountOf(g, r)
    BY <2>3, SameContracts DEF CreditOnly
  <2>7. AmountsKept(b, h)
    BY <1>7, <2>3, <2>6 DEF AmountsKept, Without, CreditOnly
  <2>8. ASSUME NEW q \in DOMAIN b.credit
        PROVE  /\ h.credit[q].balance = b.credit[q].balance
               /\ h.credit[q].allocation <= b.credit[q].allocation
    <3>1. o.amount >= 0
      BY <1>3
    <3>2. h.credit[q].allocation <= b.credit[q].allocation
      BY <1>8, <2>2, <2>3, <3>1
    <3>3. CASE q = p
      <4>1. b.credit[q] \in CreditRecord
        BY DEF SoundBook, IsBook
      <4>2. h.credit[q] = Deallocated(b.credit[q], o.amount)
        BY <2>2, <2>3, <3>3
      <4> QED
        BY <3>2, <4>1, <4>2 DEF Deallocated, CreditRecord
    <3>4. CASE q # p
      BY <2>2, <2>3, <3>2, <3>4 DEF OthersKept
    <3> QED
      BY <3>3, <3>4
  <2>9. OthersKept(b, h, p)
    BY <2>2, <2>3 DEF OthersKept
  <2> QED
    BY <1>7, <2>2, <2>3, <2>4, <2>5, <2>6, <2>7, <2>8, <2>9
       DEF Without, CreditOnly, SameLines, Explained, c, p
<1> QED
  BY <1>9, <1>10

-----------------------------------------------------------------------------
(* The lines.                                                              *)

\* c is b after writes to table peers that leave alone what is allocated: a
\* row that is new allocates nothing.
LinesOnly(n, b, c) ==
    /\ SoundBook(n, c)
    /\ c.contract = b.contract /\ c.list = b.list /\ c.stored = b.stored
    /\ Open(c) = Open(b) /\ \A p : Reserved(n, c, p) = Reserved(n, b, p)
    /\ \A p \in DOMAIN c.credit :
          c.credit[p].allocation =
              IF p \in DOMAIN b.credit THEN b.credit[p].allocation ELSE 0

\* A friend gets a row if it has none.
LEMMA RowMade ==
    ASSUME NEW n \in Nodes, NEW b, SoundBook(n, b), NEW p \in Friends[n]
    PROVE  LET c == CreateRow(b, p)
           IN /\ LinesOnly(n, b, c) /\ OthersKept(b, c, p)
              /\ p \in DOMAIN c.credit /\ Load(c, p) = Load(b, p)
              /\ DOMAIN b.credit \subseteq DOMAIN c.credit
<1> DEFINE c == CreateRow(b, p)
<1>1. CASE p \in DOMAIN b.credit
  <2>1. c = b
    BY <1>1 DEF CreateRow
  <2> HIDE DEF c
  <2> QED
    BY <1>1, <2>1 DEF LinesOnly, OthersKept, c
<1>2. CASE p \notin DOMAIN b.credit
  <2> DEFINE x == With(b.credit, p, OpenLine(0))
  <2>1. /\ DOMAIN x = DOMAIN b.credit \cup {p} /\ x[p] = OpenLine(0)
        /\ \A q \in DOMAIN b.credit : x[q] = b.credit[q]
    BY <1>2 DEF With
  <2>2. c = [b EXCEPT !.credit = x]
    BY <1>2 DEF CreateRow
  <2>3. OpenLine(0) \in CreditRecord /\ OpenLine(0).allocation = 0
    BY DEF OpenLine, CreditRecord
  <2> HIDE DEF x, c
  <2>4. DOMAIN x \subseteq Friends[n] /\ \A q \in DOMAIN x : x[q] \in CreditRecord
    BY <2>1, <2>3 DEF SoundBook, IsBook
  <2>5. /\ SoundBook(n, c) /\ c.credit = x
        /\ c.contract = b.contract /\ c.list = b.list /\ c.stored = b.stored
        /\ Open(c) = Open(b) /\ \A q : Reserved(n, c, q) = Reserved(n, b, q)
    BY <2>2, <2>4, CreditChange
  <2>6. LinesOnly(n, b, c)
    BY <2>1, <2>3, <2>5 DEF LinesOnly
  <2>7. OthersKept(b, c, p)
    BY <2>1, <2>5 DEF OthersKept
  <2>8. Load(c, p) = OpenLine(0) /\ Load(b, p) = OpenLine(0)
    BY <1>2, <2>1, <2>5 DEF Load
  <2> QED
    BY <2>1, <2>5, <2>6, <2>7, <2>8 DEF c
<1> QED
  BY <1>1, <1>2

\* What updateCredit and updateOurCredit may leave of a friend's row: what it
\* was, or what it should be.
LEMMA LineWritten ==
    ASSUME NEW n \in Nodes, NEW b, SoundBook(n, b), NEW p \in Friends[n],
           NEW row \in CreditRecord, row.allocation = Load(b, p).allocation,
           NEW c \in Writes(b, p, row)
    PROVE  /\ LinesOnly(n, b, c) /\ OthersKept(b, c, p)
           /\ Load(c, p) \in {row, Load(b, p)}
           /\ DOMAIN b.credit \subseteq DOMAIN c.credit
<1> DEFINE a == CreateRow(b, p)
           s == Store(a, p, row)
<1>1. c \in {b, a, s}
  BY DEF Writes
<1>2. /\ LinesOnly(n, b, a) /\ OthersKept(b, a, p)
      /\ p \in DOMAIN a.credit /\ Load(a, p) = Load(b, p)
      /\ DOMAIN b.credit \subseteq DOMAIN a.credit
  BY RowMade
<1> HIDE DEF a
<1>3. CASE c = b
  BY <1>3 DEF LinesOnly, OthersKept
<1>4. CASE c = a
  BY <1>2, <1>4
<1>5. CASE c = s
  <2>1. SoundBook(n, a)
    BY <1>2 DEF LinesOnly
  <2>2. /\ SoundBook(n, s)
        /\ s.contract = a.contract /\ s.list = a.list /\ s.stored = a.stored
        /\ Open(s) = Open(a) /\ \A q : Reserved(n, s, q) = Reserved(n, a, q)
        /\ DOMAIN s.credit = DOMAIN a.credit /\ s.credit[p] = row
        /\ \A q \in DOMAIN a.credit : q # p => s.credit[q] = a.credit[q]
    BY <1>2, <2>1, StoreFacts
  <2> HIDE DEF s
  <2>3. OthersKept(b, s, p)
    BY <1>2, <2>2 DEF OthersKept
  <2>4. Load(s, p) = row
    BY <1>2, <2>2 DEF Load
  <2>5. a.credit[p].allocation = row.allocation
    BY <1>2 DEF Load
  <2>6. LinesOnly(n, b, s)
    BY <1>2, <2>2, <2>5 DEF LinesOnly
  <2> QED
    BY <1>2, <1>5, <2>2, <2>3, <2>4, <2>6
<1> QED
  BY <1>1, <1>3, <1>4, <1>5

\* A friend's row goes.
LEMMA RowRemoved ==
    ASSUME NEW n \in Nodes, NEW b, SoundBook(n, b), NEW p, NEW c,
           c = [b EXCEPT !.credit = [q \in DOMAIN b.credit \ {p} |-> b.credit[q]]]
    PROVE  LinesOnly(n, b, c) /\ OthersKept(b, c, p)
<1> DEFINE x == [q \in DOMAIN b.credit \ {p} |-> b.credit[q]]
<1>1. /\ DOMAIN x = DOMAIN b.credit \ {p}
      /\ \A q \in DOMAIN x : x[q] = b.credit[q]
  OBVIOUS
<1>2. c = [b EXCEPT !.credit = x]
  OBVIOUS
<1> HIDE DEF x
<1>3. DOMAIN x \subseteq Friends[n] /\ \A q \in DOMAIN x : x[q] \in CreditRecord
  BY <1>1 DEF SoundBook, IsBook
<1> DEFINE d == [b EXCEPT !.credit = x]
<1>4. /\ SoundBook(n, d) /\ d.credit = x
      /\ d.contract = b.contract /\ d.list = b.list /\ d.stored = b.stored
      /\ Open(d) = Open(b) /\ \A q : Reserved(n, d, q) = Reserved(n, b, q)
  BY <1>3, CreditChange
<1> HIDE DEF d
<1>5. c = d
  BY <1>2 DEF d
<1>6. /\ SoundBook(n, c) /\ c.credit = x
      /\ c.contract = b.contract /\ c.list = b.list /\ c.stored = b.stored
      /\ Open(c) = Open(b) /\ \A q : Reserved(n, c, q) = Reserved(n, b, q)
  BY <1>4, <1>5
<1> QED
  BY <1>1, <1>6 DEF LinesOnly, OthersKept

-----------------------------------------------------------------------------
(* The janitor's round: whatever it finds old, due or failing, it keeps a  *)
(* node's book sound, books a contract at most once, and accounts for the  *)
(* allocations.                                                            *)


\* What a round keeps about a node.
DeskOK(n, desk) ==
    /\ desk = [book |-> desk.book, paid |-> desk.paid, left |-> desk.left,
               broken |-> desk.broken]
    /\ SoundBook(n, desk.book)
    /\ desk.paid \in [AllRefs -> Nat] /\ \A ref \in AllRefs : desk.paid[ref] <= 1
    /\ desk.left \in [Nodes -> Int]
    /\ PaidIsGone(desk.book, desk.paid)
    /\ Explained(n, desk.book, desk.left)

\* At most ref leaves the list.
Passed(d, e, ref) ==
    /\ SameLines(d.book, e.book)
    /\ Range(d.book.list) \ {ref} \subseteq Range(e.book.list)
    /\ Range(e.book.list) \subseteq Range(d.book.list)

-----------------------------------------------------------------------------
(* What settling writes to table peers.                                    *)

\* deallocateFunds gives back what the contract reserved, or fails.
LEMMA FreedFacts ==
    ASSUME NEW n \in Nodes, NEW b, SoundBook(n, b), NEW ref \in Range(b.list), NEW fails
    PROVE  LET c == Freed(b, ref, fails)
           IN /\ CreditOnly(n, b, c)
              /\ \A q \in DOMAIN b.credit :
                    c.credit[q].allocation = b.credit[q].allocation -
                        (IF fails = "allocation" THEN 0
                         ELSE Share(n, ref, b.contract[ref].amount, q))
              /\ OthersKept(b, c, PeerOf(n, ref))
              /\ PeerOf(n, ref) \in DOMAIN b.credit =>
                    c.credit[PeerOf(n, ref)] =
                        IF ref.party = "sender" \/ fails = "allocation"
                        THEN b.credit[PeerOf(n, ref)]
                        ELSE Deallocated(b.credit[PeerOf(n, ref)], b.contract[ref].amount)
<1>1. /\ b.contract[ref].peer = PeerOf(n, ref) /\ b.contract[ref].amount \in Nat
      /\ ref.party \in Parties
  BY ListedFacts, RefFacts
<1>2. CASE ref.party = "sender" \/ fails = "allocation"
  <2>1. \A q \in DOMAIN b.credit : b.credit[q].allocation \in Int
    BY DEF SoundBook, IsBook, CreditRecord
  <2> QED
    BY <1>2, <2>1 DEF Freed, CreditOnly, SameLines, Share, OthersKept
<1>3. CASE ref.party = "receiver" /\ fails # "allocation"
  <2> DEFINE amount == b.contract[ref].amount
             p == b.contract[ref].peer
  <2>1. Freed(b, ref, fails) = GiveBack(b, p, amount) /\ amount \in Int
    BY <1>1, <1>3 DEF Freed
  <2> HIDE DEF amount, p
  <2>2. /\ CreditOnly(n, b, GiveBack(b, p, amount))
        /\ \A q \in DOMAIN b.credit :
              GiveBack(b, p, amount).credit[q].allocation =
                  b.credit[q].allocation - (IF q = p THEN amount ELSE 0)
        /\ OthersKept(b, GiveBack(b, p, amount), p)
        /\ p \in DOMAIN b.credit =>
              GiveBack(b, p, amount).credit[p] = Deallocated(b.credit[p], amount)
    BY <2>1, GiveBackFacts
  <2> QED
    BY <1>1, <1>3, <2>1, <2>2 DEF amount, p, Share
<1> QED
  BY <1>1, <1>2, <1>3 DEF Parties

\* A payment that is booked leaves the allocations alone.
LEMMA BookedFacts ==
    ASSUME NEW n \in Nodes, NEW b, SoundBook(n, b), NEW ref \in Range(b.list)
    PROVE  LET c == Booked(b, ref)
           IN /\ CreditOnly(n, b, c)
              /\ \A q \in DOMAIN b.credit :
                    c.credit[q].allocation = b.credit[q].allocation
              /\ OthersKept(b, c, PeerOf(n, ref))
              /\ PeerOf(n, ref) \in DOMAIN b.credit =>
                    c.credit[PeerOf(n, ref)] =
                        IF ref.party = "sender"
                        THEN Spent(b.credit[PeerOf(n, ref)], b.contract[ref].amount)
                        ELSE Received(b.credit[PeerOf(n, ref)], b.contract[ref].amount)
<1> DEFINE p == b.contract[ref].peer
           amount == b.contract[ref].amount
           old == Load(b, p)
           row == IF ref.party = "sender" THEN Spent(old, amount)
                  ELSE Received(old, amount)
<1>1. amount \in Int /\ p = PeerOf(n, ref)
  BY ListedFacts
<1>2. old \in CreditRecord /\ (p \in DOMAIN b.credit => old = b.credit[p])
  BY LoadType DEF Load
<1>3. Booked(b, ref) = Store(b, p, row)
  BY DEF Booked
<1>4. /\ row \in CreditRecord
      /\ row.credit = old.credit /\ row.our_credit = old.our_credit
      /\ row.allocation = old.allocation
  <2> HIDE DEF old, amount
  <2> QED
    BY <1>1, <1>2 DEF Spent, Received, CreditRecord
<1> HIDE DEF p, amount, row
<1>5. /\ CreditOnly(n, b, Store(b, p, row))
      /\ \A q \in DOMAIN b.credit :
            Store(b, p, row).credit[q].allocation =
                IF q = p THEN row.allocation ELSE b.credit[q].allocation
      /\ OthersKept(b, Store(b, p, row), p)
      /\ p \in DOMAIN b.credit => Store(b, p, row).credit[p] = row
  BY <1>4, RowWritten
<1>6. p \in DOMAIN b.credit =>
          row = IF ref.party = "sender"
                THEN Spent(b.credit[p], b.contract[ref].amount)
                ELSE Received(b.credit[p], b.contract[ref].amount)
  BY <1>2 DEF row, amount
<1> QED
  BY <1>1, <1>2, <1>3, <1>4, <1>5, <1>6

-----------------------------------------------------------------------------
(* One contract of a round.                                                *)

\* A contract is counted as taken.
Counted(taken, ref) == [taken EXCEPT ![ref] = @ + 1]

\* A contract goes for good, taken or not, and what it had allocated was
\* given back or is left behind.
LEMMA ContractGoes ==
    ASSUME NEW n \in Nodes, NEW d, DeskOK(n, d), NEW ref \in Range(d.book.list),
           NEW c, CreditOnly(n, d.book, c), NEW e,
           e = [book |-> Gone(c, ref), paid |-> e.paid, left |-> e.left,
                broken |-> e.broken],
           e.paid = d.paid \/ e.paid = Counted(d.paid, ref),
           e.left \in [Nodes -> Int],
           \A q \in DOMAIN d.book.credit :
               c.credit[q].allocation - e.left[q] =
                   d.book.credit[q].allocation - d.left[q] -
                       Share(n, ref, d.book.contract[ref].amount, q)
    PROVE  DeskOK(n, e) /\ Passed(d, e, ref)
<1> DEFINE b == d.book
           g == Gone(c, ref)
<1>1. /\ SoundBook(n, c) /\ SameLines(b, c) /\ c.contract = b.contract
      /\ c.list = b.list /\ Open(c) = Open(b)
      /\ \A p : Reserved(n, c, p) = Reserved(n, b, p)
  BY DEF CreditOnly
<1>2. Without(n, ref, c, g)
  <2>1. ref \in Range(c.list)
    BY <1>1
  <2> QED
    BY <1>1, <2>1, GoneFacts
<1>3. e.book = g
  OBVIOUS
<1> HIDE DEF g
<1>4. /\ SoundBook(n, b) /\ PaidIsGone(b, d.paid) /\ Explained(n, b, d.left)
      /\ d.left \in [Nodes -> Int] /\ d.paid \in [AllRefs -> Nat]
      /\ \A r \in AllRefs : d.paid[r] <= 1
  BY DEF DeskOK
<1>5. /\ ref \in AllRefs /\ ref \in Open(b) /\ ref.tx \in Range(agreed)
      /\ b.contract[ref].amount \in Nat
  BY <1>4, ListedFacts DEF Open, PaidIsGone
<1>6. e.paid \in [AllRefs -> Nat] /\ \A r \in AllRefs : e.paid[r] <= 1
  <2>1. d.paid[ref] = 0
    BY <1>4, <1>5 DEF PaidIsGone
  <2>2. CASE e.paid = d.paid
    BY <1>4, <2>2
  <2>3. CASE e.paid = Counted(d.paid, ref)
    <3>1. e.paid = [r \in AllRefs |-> IF r = ref THEN 1 ELSE d.paid[r]]
      BY <1>4, <2>1, <2>3 DEF Counted
    <3> QED
      BY <1>4, <3>1
  <2> QED
    BY <2>2, <2>3
<1>7. PaidIsGone(g, e.paid)
  <2>1. \A r \in AllRefs : e.paid[r] > 0 => d.paid[r] > 0 \/ r = ref
    BY <1>4, <1>5 DEF Counted
  <2>2. Open(g) = Open(b) \ {ref}
    BY <1>1, <1>2 DEF Without
  <2> QED
    BY <1>4, <1>5, <2>1, <2>2 DEF PaidIsGone
<1>8. Explained(n, g, e.left)
  <2> SUFFICES ASSUME NEW p \in DOMAIN g.credit
               PROVE  g.credit[p].allocation = Reserved(n, g, p) + e.left[p]
    BY DEF Explained
  <2>1. p \in DOMAIN b.credit /\ p \in Nodes
    BY <1>1, <1>2, <1>4, FriendsAssumption DEF Without, SameLines, SoundBook, IsBook
  <2>2. b.credit[p].allocation = Reserved(n, b, p) + d.left[p]
    BY <1>4, <2>1 DEF Explained
  <2>3. Reserved(n, b, p) \in Nat /\ d.left[p] \in Int /\ e.left[p] \in Int
    BY <1>4, <2>1, ReservedType
  <2>4. c.credit[p].allocation \in Int /\ b.credit[p].allocation \in Int
    BY <1>1, <1>2, <1>4, <2>1 DEF Without, SoundBook, IsBook, CreditRecord
  <2> QED
    BY <1>1, <1>2, <1>5, <2>1, <2>2, <2>3, <2>4 DEF Share, Without
<1>9. SameLines(b, g)
  BY <1>1, <1>2 DEF Without, SameLines
<1> QED
  BY <1>1, <1>2, <1>3, <1>6, <1>7, <1>8, <1>9 DEF DeskOK, Passed, Without

\* What a contract leaves behind.
LEMMA LeftBehindFacts ==
    ASSUME NEW n \in Nodes, NEW d, d.left \in [Nodes -> Int],
           d = [book |-> d.book, paid |-> d.paid, left |-> d.left,
                broken |-> d.broken],
           NEW ref \in AllRefs, NEW p \in Nodes, p = PeerOf(n, ref), NEW amount \in Int
    PROVE  LET e == LeftBehind(d, ref, p, amount)
           IN /\ e = [book |-> d.book, paid |-> d.paid, left |-> e.left,
                      broken |-> d.broken]
              /\ e.left \in [Nodes -> Int]
              /\ \A q \in Nodes : e.left[q] = d.left[q] + Share(n, ref, amount, q)
<1>1. CASE ref.party = "receiver"
  <2> DEFINE l == [d.left EXCEPT ![p] = @ + amount]
  <2>1. LeftBehind(d, ref, p, amount) =
            [book |-> d.book, paid |-> d.paid, left |-> l, broken |-> d.broken]
    BY <1>1 DEF LeftBehind
  <2>2. l \in [Nodes -> Int] /\ \A q \in Nodes :
            l[q] = d.left[q] + Share(n, ref, amount, q)
    BY <1>1 DEF Share
  <2> HIDE DEF l
  <2> QED
    BY <1>1, <2>1, <2>2
<1>2. CASE ref.party # "receiver"
  BY <1>2 DEF LeftBehind, Share
<1> QED
  BY <1>1, <1>2

\* broken is of no account.
LEMMA PartedFacts ==
    ASSUME NEW n \in Nodes, NEW d, NEW e, DeskOK(n, e), NEW ref, Passed(d, e, ref),
           NEW p
    PROVE  DeskOK(n, Parted(e, n, p)) /\ Passed(d, Parted(e, n, p), ref)
<1> DEFINE f == Parted(e, n, p)
<1>1. e = [book |-> e.book, paid |-> e.paid, left |-> e.left, broken |-> e.broken]
  BY DEF DeskOK
<1>2. f = [book |-> e.book, paid |-> e.paid, left |-> e.left,
           broken |-> e.broken \cup {{n, p}}]
  <2> DEFINE x == e.broken \cup {{n, p}}
  <2>1. f = [e EXCEPT !.broken = x]
    BY DEF Parted
  <2> HIDE DEF f, x
  <2>2. f = [book |-> e.book, paid |-> e.paid, left |-> e.left, broken |-> x]
    BY <1>1, <2>1
  <2> QED
    BY <2>2 DEF x
<1>3. /\ f = [book |-> f.book, paid |-> f.paid, left |-> f.left, broken |-> f.broken]
      /\ f.book = e.book /\ f.paid = e.paid /\ f.left = e.left
  BY <1>2
<1> HIDE DEF f
<1>4. DeskOK(n, f) /\ Passed(d, f, ref)
  BY <1>3 DEF DeskOK, Passed
<1> QED
  BY <1>4 DEF f

\* A book and a count are put back.
Written(d, ref, book, taken) == [d EXCEPT !.book = book, !.paid[ref] = taken]

\* A book and a count are put on the desk.
LEMMA DeskWritten ==
    ASSUME NEW n \in Nodes, NEW d, DeskOK(n, d), NEW ref \in AllRefs, NEW book, NEW x
    PROVE  LET e == Written(d, ref, book, x)
           IN /\ e = [book |-> e.book, paid |-> e.paid, left |-> e.left,
                      broken |-> e.broken]
              /\ e.book = book /\ e.left = d.left /\ e.broken = d.broken
              /\ e.paid = [d.paid EXCEPT ![ref] = x]
<1> DEFINE e == Written(d, ref, book, x)
           taken == [d.paid EXCEPT ![ref] = x]
<1>1. d = [book |-> d.book, paid |-> d.paid, left |-> d.left, broken |-> d.broken]
  BY DEF DeskOK
<1>2. e = [book |-> book, paid |-> taken, left |-> d.left, broken |-> d.broken]
  <2> DEFINE f == [d EXCEPT !.book = book]
  <2>1. f = [book |-> book, paid |-> d.paid, left |-> d.left, broken |-> d.broken]
    BY <1>1
  <2>2. e = [f EXCEPT !.paid[ref] = x]
    BY DEF Written
  <2> HIDE DEF e, f
  <2>3. f.paid = d.paid
    BY <2>1
  <2> QED
    BY <2>1, <2>2, <2>3
<1> HIDE DEF e, taken
<1>3. /\ e = [book |-> e.book, paid |-> e.paid, left |-> e.left, broken |-> e.broken]
      /\ e.book = book /\ e.paid = taken /\ e.left = d.left /\ e.broken = d.broken
  BY <1>2
<1> QED
  BY <1>3 DEF e, taken

\* A contract that is a day old goes, and what it had reserved is in left.
LEMMA ExpireFacts ==
    ASSUME NEW n \in Nodes, NEW d, DeskOK(n, d), NEW ref \in Range(d.book.list)
    PROVE  DeskOK(n, Expire(n, d, ref)) /\ Passed(d, Expire(n, d, ref), ref)
<1> DEFINE b == d.book
           p == b.contract[ref].peer
           amount == b.contract[ref].amount
           f == [d EXCEPT !.book = Gone(b, ref)]
           e == LeftBehind(f, ref, p, amount)
<1>1. /\ SoundBook(n, b) /\ d.left \in [Nodes -> Int]
      /\ d = [book |-> d.book, paid |-> d.paid, left |-> d.left, broken |-> d.broken]
  BY DEF DeskOK
<1>2. /\ ref \in AllRefs /\ p = PeerOf(n, ref) /\ p \in Nodes /\ amount \in Int
      /\ b.contract[ref].btcTx = BtcTx(ref.tx)
  BY <1>1, ListedFacts, FriendsAssumption
<1>3. Expire(n, d, ref) = e \/ Expire(n, d, ref) = Parted(e, n, p)
  BY <1>2 DEF Expire, Gone
<1>4. /\ f = [book |-> f.book, paid |-> f.paid, left |-> f.left, broken |-> f.broken]
      /\ f.book = Gone(b, ref) /\ f.paid = d.paid /\ f.left = d.left
      /\ f.broken = d.broken
  <2>1. f = [book |-> Gone(b, ref), paid |-> d.paid, left |-> d.left,
             broken |-> d.broken]
    BY <1>1
  <2> HIDE DEF f
  <2> QED
    BY <2>1
<1> HIDE DEF f, amount, p
<1>5. /\ e = [book |-> Gone(b, ref), paid |-> d.paid, left |-> e.left,
              broken |-> d.broken]
      /\ e.left \in [Nodes -> Int]
      /\ \A q \in Nodes : e.left[q] = d.left[q] + Share(n, ref, amount, q)
  <2>1. f.left \in [Nodes -> Int]
    BY <1>1, <1>4
  <2>2. /\ e = [book |-> f.book, paid |-> f.paid, left |-> e.left,
                broken |-> f.broken]
        /\ e.left \in [Nodes -> Int]
        /\ \A q \in Nodes : e.left[q] = f.left[q] + Share(n, ref, amount, q)
    BY <1>2, <1>4, <2>1, LeftBehindFacts
  <2> QED
    BY <1>4, <2>2
<1> HIDE DEF e
<1>6. CreditOnly(n, b, b)
  BY <1>1 DEF CreditOnly, SameLines
<1>7. ASSUME NEW q \in DOMAIN b.credit
      PROVE  b.credit[q].allocation - e.left[q] = b.credit[q].allocation - d.left[q] -
                 Share(n, ref, b.contract[ref].amount, q)
  <2>1. q \in Nodes /\ b.credit[q].allocation \in Int
    BY <1>1, FriendsAssumption DEF SoundBook, IsBook, CreditRecord
  <2>2. d.left[q] \in Int /\ e.left[q] \in Int
    BY <1>1, <1>5, <2>1
  <2> QED
    BY <1>2, <1>5, <2>1, <2>2 DEF amount, Share
<1>8. e.paid = d.paid /\ e = [book |-> Gone(b, ref), paid |-> e.paid,
                              left |-> e.left, broken |-> e.broken]
  BY <1>5
<1>9. DeskOK(n, e) /\ Passed(d, e, ref)
  BY <1>5, <1>6, <1>7, <1>8, ContractGoes
<1> QED
  BY <1>3, <1>9, PartedFacts

\* An object goes and its row does not.
LEMMA RemovalFails ==
    ASSUME NEW n \in Nodes, NEW d, DeskOK(n, d), NEW ref \in Range(d.book.list),
           d.book.contract[ref].active
    PROVE  LET e == [d EXCEPT !.book = Delete(@, ref)]
           IN DeskOK(n, e) /\ Passed(d, e, ref)
<1> DEFINE b == d.book
           c == Delete(b, ref)
           e == [d EXCEPT !.book = Delete(@, ref)]
<1>1. SoundBook(n, b) /\ ref \in StoredRefs(b)
  BY DEF DeskOK, SoundBook, ObjectsMatchRows
<1>2. /\ SoundBook(n, c) /\ Range(c.list) = Range(b.list) \ {ref}
      /\ c.contract = b.contract /\ c.credit = b.credit
      /\ Open(c) = Open(b) /\ \A p : Reserved(n, c, p) = Reserved(n, b, p)
  BY <1>1, ObjectLost
<1>3. /\ e = [book |-> e.book, paid |-> e.paid, left |-> e.left, broken |-> e.broken]
      /\ e.book = c /\ e.paid = d.paid /\ e.left = d.left
  <2>1. d = [book |-> d.book, paid |-> d.paid, left |-> d.left, broken |-> d.broken]
    BY DEF DeskOK
  <2>2. e = [d EXCEPT !.book = c]
    OBVIOUS
  <2> HIDE DEF c
  <2>3. e = [book |-> c, paid |-> d.paid, left |-> d.left, broken |-> d.broken]
    BY <2>1, <2>2
  <2> HIDE DEF e
  <2> QED
    BY <2>3
<1> HIDE DEF c, e
<1>4. PaidIsGone(c, d.paid) /\ Explained(n, c, d.left)
  BY <1>2 DEF DeskOK, PaidIsGone, Explained
<1>5. SameLines(b, c)
  BY <1>2 DEF SameLines
<1> QED
  BY <1>2, <1>3, <1>4, <1>5 DEF DeskOK, Passed, e

\* A contract is settled, whichever of the writes fails.
LEMMA SettleFacts ==
    ASSUME NEW n \in Nodes, NEW d, DeskOK(n, d), NEW ref \in Range(d.book.list),
           d.book.contract[ref].active, NEW fails
    PROVE  DeskOK(n, Settle(n, d, ref, fails)) /\ Passed(d, Settle(n, d, ref, fails), ref)
<1> DEFINE b == d.book
           p == b.contract[ref].peer
           amount == b.contract[ref].amount
           freed == Freed(b, ref, fails)
           made == Covered(freed, ref) /\ fails # "balance"
           c == IF made THEN Booked(freed, ref) ELSE freed
           f == Written(d, ref, Gone(c, ref),
                        IF made THEN d.paid[ref] + 1 ELSE d.paid[ref])
           e == IF fails = "allocation" THEN LeftBehind(f, ref, p, amount) ELSE f
<1>1. /\ SoundBook(n, b) /\ d.left \in [Nodes -> Int] /\ d.paid \in [AllRefs -> Nat]
      /\ d = [book |-> d.book, paid |-> d.paid, left |-> d.left, broken |-> d.broken]
  BY DEF DeskOK
<1>2. /\ ref \in AllRefs /\ p = PeerOf(n, ref) /\ p \in Nodes /\ amount \in Int
      /\ b.contract[ref].btcTx = BtcTx(ref.tx)
  BY <1>1, ListedFacts, FriendsAssumption
<1>3. \/ Settle(n, d, ref, fails) = [d EXCEPT !.book = Delete(@, ref)]
      \/ Settle(n, d, ref, fails) = e
      \/ Settle(n, d, ref, fails) = Parted(e, n, p)
  BY <1>2 DEF Settle, Gone, Written
<1>4. /\ CreditOnly(n, b, c)
      /\ \A q \in DOMAIN b.credit :
            c.credit[q].allocation = b.credit[q].allocation -
                (IF fails = "allocation" THEN 0 ELSE Share(n, ref, amount, q))
  <2>1. /\ CreditOnly(n, b, freed)
        /\ \A q \in DOMAIN b.credit :
              freed.credit[q].allocation = b.credit[q].allocation -
                  (IF fails = "allocation" THEN 0 ELSE Share(n, ref, amount, q))
    BY <1>1, FreedFacts
  <2> HIDE DEF freed, made
  <2>2. CASE ~made
    BY <2>1, <2>2
  <2>3. CASE made
    <3>1. SoundBook(n, freed) /\ ref \in Range(freed.list)
          /\ DOMAIN freed.credit = DOMAIN b.credit
      BY <2>1 DEF CreditOnly, SameLines
    <3>2. /\ CreditOnly(n, freed, Booked(freed, ref))
          /\ \A q \in DOMAIN freed.credit :
                Booked(freed, ref).credit[q].allocation = freed.credit[q].allocation
      BY <3>1, BookedFacts
    <3>3. c = Booked(freed, ref)
      BY <2>3
    <3> QED
      BY <2>1, <3>1, <3>2, <3>3, CreditOnlyTwice
  <2> QED
    BY <2>2, <2>3
<1> HIDE DEF p, amount, made, c
<1>5. /\ f = [book |-> f.book, paid |-> f.paid, left |-> f.left, broken |-> f.broken]
      /\ f.book = Gone(c, ref) /\ f.left = d.left
      /\ f.paid = d.paid \/ f.paid = Counted(d.paid, ref)
  <2> DEFINE x == IF made THEN d.paid[ref] + 1 ELSE d.paid[ref]
             g == Gone(c, ref)
  <2>1. f = Written(d, ref, g, x)
    OBVIOUS
  <2>2. x = d.paid[ref] \/ x = d.paid[ref] + 1
    OBVIOUS
  <2> HIDE DEF f, x, g
  <2>3. /\ f = [book |-> f.book, paid |-> f.paid, left |-> f.left, broken |-> f.broken]
        /\ f.book = g /\ f.left = d.left
        /\ f.paid = [d.paid EXCEPT ![ref] = x]
    BY <1>2, <2>1, DeskWritten
  <2>4. f.paid = d.paid \/ f.paid = Counted(d.paid, ref)
    BY <1>1, <1>2, <2>2, <2>3 DEF Counted
  <2> QED
    BY <2>3, <2>4 DEF g
<1> HIDE DEF f
<1>6. /\ e = [book |-> f.book, paid |-> f.paid, left |-> e.left, broken |-> f.broken]
      /\ e.left \in [Nodes -> Int]
      /\ \A q \in Nodes : e.left[q] = d.left[q] +
             (IF fails = "allocation" THEN Share(n, ref, amount, q) ELSE 0)
  <2>1. f.left \in [Nodes -> Int]
    BY <1>1, <1>5
  <2>2. LET l == LeftBehind(f, ref, p, amount)
        IN /\ l = [book |-> f.book, paid |-> f.paid, left |-> l.left,
                   broken |-> f.broken]
           /\ l.left \in [Nodes -> Int]
           /\ \A q \in Nodes : l.left[q] = f.left[q] + Share(n, ref, amount, q)
    BY <1>2, <1>5, <2>1, LeftBehindFacts
  <2>3. CASE fails = "allocation"
    BY <1>2, <1>5, <2>2, <2>3
  <2>4. CASE fails # "allocation"
    BY <1>1, <1>5, <2>1, <2>4
  <2> QED
    BY <2>3, <2>4
<1> HIDE DEF e
<1>7. ASSUME NEW q \in DOMAIN b.credit
      PROVE  c.credit[q].allocation - e.left[q] = b.credit[q].allocation - d.left[q] -
                 Share(n, ref, b.contract[ref].amount, q)
  <2>1. q \in Nodes /\ b.credit[q].allocation \in Int
    BY <1>1, FriendsAssumption DEF SoundBook, IsBook, CreditRecord
  <2>2. d.left[q] \in Int /\ Share(n, ref, amount, q) \in Int
    BY <1>1, <1>2, <2>1 DEF Share
  <2> QED
    BY <1>4, <1>6, <2>1, <2>2 DEF amount
<1>8. /\ e = [book |-> Gone(c, ref), paid |-> e.paid, left |-> e.left,
              broken |-> e.broken]
      /\ e.paid = d.paid \/ e.paid = Counted(d.paid, ref)
  BY <1>5, <1>6
<1>9. DeskOK(n, e) /\ Passed(d, e, ref)
  BY <1>4, <1>6, <1>7, <1>8, ContractGoes
<1> QED
  BY <1>3, <1>9, PartedFacts, RemovalFails

\* One contract of the list.
LEMMA PollOneFacts ==
    ASSUME NEW n \in Nodes, NEW d, DeskOK(n, d), NEW ref \in Range(d.book.list),
           NEW old, NEW seen, NEW fails
    PROVE  LET e == PollOne(n, d, ref, old, seen, fails)
           IN DeskOK(n, e) /\ Passed(d, e, ref)
<1>1. DeskOK(n, d) /\ Passed(d, d, ref)
  BY DEF Passed, SameLines
<1> QED
  BY <1>1, ExpireFacts, SettleFacts DEF PollOne, Due

-----------------------------------------------------------------------------
(* The round.                                                              *)

\* f[i] is the desk after the first i contracts of the list.
Steps(f, n, k, list, old, seen, failure) ==
    f = [i \in 0..k |->
            IF i = 0 THEN Desk(n)
            ELSE PollOne(n, f[i - 1], list[i], old, seen, FailsFor(list[i], failure))]

\* There is a sequence of desks that goes through the list, step by step.
LEMMA StepsExist ==
    ASSUME NEW n, NEW list, NEW old, NEW seen, NEW failure, NEW m \in Nat
    PROVE  \E f : Steps(f, n, m, list, old, seen, failure)
<1> DEFINE S(f, k) == Steps(f, n, k, list, old, seen, failure)
           P(x, i) == PollOne(n, x, list[i], old, seen, FailsFor(list[i], failure))
           D == Desk(n)
           T == {k \in Nat : \E f : S(f, k)}
<1>1. \A f, k : S(f, k) <=> f = [i \in 0..k |-> IF i = 0 THEN D ELSE P(f[i - 1], i)]
  BY DEF Steps
<1> HIDE DEF S, P, D
<1>2. 0 \in T
  <2> DEFINE f == [i \in 0..0 |-> D]
  <2>1. f = [i \in 0..0 |-> IF i = 0 THEN D ELSE P(f[i - 1], i)]
    OBVIOUS
  <2>2. S(f, 0)
    BY <1>1, <2>1
  <2> QED
    BY <2>2
<1>3. ASSUME NEW k \in 0..(m - 1), k \in T
      PROVE  k + 1 \in T
  <2>1. PICK f : S(f, k)
    BY <1>3
  <2>2. f = [i \in 0..k |-> IF i = 0 THEN D ELSE P(f[i - 1], i)]
    BY <1>1, <2>1
  <2> DEFINE g == [i \in 0..(k + 1) |-> IF i \in 0..k THEN f[i] ELSE P(f[k], k + 1)]
  <2>3. ASSUME NEW i \in 0..(k + 1)
        PROVE  g[i] = IF i = 0 THEN D ELSE P(g[i - 1], i)
    <3>1. CASE i = 0
      <4>1. f[0] = D
        BY <2>2
      <4> QED
        BY <3>1, <4>1
    <3>2. CASE i \in 1..k
      <4>1. f[i] = P(f[i - 1], i)
        BY <2>2, <3>2
      <4>2. g[i] = f[i] /\ g[i - 1] = f[i - 1]
        BY <3>2
      <4> QED
        BY <3>2, <4>1, <4>2
    <3>3. CASE i = k + 1
      <4>1. g[i] = P(f[k], k + 1) /\ g[i - 1] = f[k]
        BY <3>3
      <4> QED
        BY <3>3, <4>1
    <3> QED
      BY <3>1, <3>2, <3>3
  <2>4. g = [i \in 0..(k + 1) |-> g[i]]
    OBVIOUS
  <2> HIDE DEF g
  <2>5. g = [i \in 0..(k + 1) |-> IF i = 0 THEN D ELSE P(g[i - 1], i)]
    BY <2>3, <2>4
  <2>6. S(g, k + 1)
    BY <1>1, <2>5
  <2> QED
    BY <2>6
<1> HIDE DEF T
<1>4. m \in T
  BY <1>2, <1>3, InductionUpTo
<1> QED
  BY <1>4 DEF T, S

\* The recursive round is the end of such a sequence.
LEMMA RoundSteps ==
    ASSUME NEW n, NEW list, Len(list) \in Nat, NEW old, NEW seen, NEW failure
    PROVE  \E f : /\ Steps(f, n, Len(list), list, old, seen, failure)
                  /\ Round(n, list, old, seen, failure) = f[Len(list)]
<1> DEFINE P(x, i) == PollOne(n, x, list[i], old, seen, FailsFor(list[i], failure))
           Q(x, i) == TheOne({PollOne(n, d, list[i], old, seen,
                                      FailsFor(list[i], failure)) : d \in {x}})
           E(f) == f = [i \in 0..Len(list) |-> IF i = 0 THEN Desk(n) ELSE Q(f[i - 1], i)]
           r == CHOOSE f : E(f)
<1>1. \A x, i : Q(x, i) = P(x, i)
  BY DEF TheOne
<1>2. \A f : E(f) <=> Steps(f, n, Len(list), list, old, seen, failure)
  BY <1>1 DEF Steps
<1>3. Round(n, list, old, seen, failure) = r[Len(list)]
  BY DEF Round
<1>4. \E f : Steps(f, n, Len(list), list, old, seen, failure)
  BY StepsExist
<1> HIDE DEF E
<1>5. E(r)
  BY <1>2, <1>4
<1> QED
  BY <1>2, <1>3, <1>5

\* What a round over contracts of n's list leaves.
LEMMA RoundKeeps ==
    ASSUME NEW n \in Nodes, DeskOK(n, Desk(n)),
           NEW list, Len(list) \in Nat, IsInjective(list), DOMAIN list = 1..Len(list),
           \A i \in DOMAIN list : list[i] \in Range(books[n].list),
           NEW old, NEW seen, NEW failure
    PROVE  LET e == Round(n, list, old, seen, failure)
           IN /\ DeskOK(n, e) /\ SameLines(books[n], e.book)
              /\ Range(e.book.list) \subseteq Range(books[n].list)
<1> DEFINE m == Len(list)
<1>1. PICK f : /\ Steps(f, n, m, list, old, seen, failure)
               /\ Round(n, list, old, seen, failure) = f[m]
  BY RoundSteps
<1> DEFINE P(x, i) == PollOne(n, x, list[i], old, seen, FailsFor(list[i], failure))
           Fine(x, k) ==
               /\ DeskOK(n, x) /\ SameLines(books[n], x.book)
               /\ Range(x.book.list) \subseteq Range(books[n].list)
               /\ \A j \in (k + 1)..m : list[j] \in Range(x.book.list)
           T == {k \in 0..m : Fine(f[k], k)}
<1>2. f = [i \in 0..m |-> IF i = 0 THEN Desk(n) ELSE P(f[i - 1], i)]
  BY <1>1 DEF Steps
<1>3. 0 \in T
  <2>1. f[0] = Desk(n) /\ 0 \in 0..m
    BY <1>2
  <2>2. Desk(n).book = books[n]
    BY DEF Desk
  <2>3. SameLines(books[n], books[n])
    BY DEF SameLines
  <2>4. \A j \in (0 + 1)..m : list[j] \in Range(books[n].list)
    OBVIOUS
  <2> QED
    BY <2>1, <2>2, <2>3, <2>4
<1>4. ASSUME NEW k \in 0..(m - 1), k \in T
      PROVE  k + 1 \in T
  <2> DEFINE ref == list[k + 1]
             x == f[k]
             y == f[k + 1]
  <2>1. /\ DeskOK(n, x) /\ SameLines(books[n], x.book)
        /\ Range(x.book.list) \subseteq Range(books[n].list)
        /\ \A j \in (k + 1)..m : list[j] \in Range(x.book.list)
    BY <1>4
  <2>2. y = P(x, k + 1)
    <3>1. k + 1 \in 0..m /\ k + 1 # 0 /\ (k + 1) - 1 = k
      OBVIOUS
    <3> HIDE DEF P
    <3> QED
      BY <1>2, <3>1
  <2>3. ref \in Range(x.book.list)
    BY <2>1
  <2> HIDE DEF x, y
  <2>4. DeskOK(n, y) /\ Passed(x, y, ref)
    BY <2>1, <2>2, <2>3, PollOneFacts
  <2>5. \A j \in (k + 2)..m : list[j] \in Range(x.book.list) /\ list[j] # ref
    <3>1. ASSUME NEW j \in (k + 2)..m
          PROVE  list[j] \in Range(x.book.list) /\ list[j] # ref
      <4>1. j \in DOMAIN list /\ k + 1 \in DOMAIN list /\ j # k + 1 /\ j \in (k + 1)..m
        OBVIOUS
      <4> QED
        BY <2>1, <4>1 DEF IsInjective
    <3> QED
      BY <3>1
  <2>6. SameLines(books[n], y.book)
    BY <2>1, <2>4 DEF Passed, SameLines
  <2>7. Fine(y, k + 1)
    BY <2>1, <2>4, <2>5, <2>6 DEF Passed
  <2> QED
    BY <2>7 DEF y
<1>5. m \in 0..m /\ m \in Nat
  OBVIOUS
<1> HIDE DEF T
<1>6. m \in T
  BY <1>3, <1>4, <1>5, InductionUpTo
<1> QED
  BY <1>1, <1>6 DEF T

-----------------------------------------------------------------------------
\* The invariant, sorted by what steps change: one node, and what lies
\* between nodes.
NodeOK(n) ==
    /\ DeskOK(n, Desk(n))
    /\ ~up[n] => books[n].list = <<>>

World ==
    /\ DOMAIN books = Nodes
    /\ up \in [Nodes -> BOOLEAN]
    /\ \A pair \in online : /\ pair \in Nodes \X Nodes
                            /\ pair[2] \in Friends[pair[1]]
                            /\ up[pair[1]] /\ up[pair[2]]
    /\ net \in [Nodes -> [Nodes -> Seq([our_credit : Int, balance : Int])]]
    /\ mishaps \in 0..MaxMishaps /\ payments \in 0..MaxPayments
    /\ agreed \in Seq(Deals) /\ IsInjective(agreed)
    /\ btc \in [Deals -> {"waiting", "sent", "confirmed"}]
    /\ DOMAIN paid = Nodes /\ DOMAIN left = Nodes
    /\ paid = [n \in Nodes |-> paid[n]] /\ left = [n \in Nodes |-> left[n]]

IInv == World /\ LinesAreTold /\ \A n \in Nodes : NodeOK(n)

\* The invariant says all of Sound.
LEMMA IInvIsSound == IInv => Sound
<1> SUFFICES ASSUME IInv
             PROVE  Sound
  OBVIOUS
<1>1. ASSUME NEW n \in Nodes
      PROVE  /\ SoundBook(n, books[n]) /\ paid[n] \in [AllRefs -> Nat]
             /\ left[n] \in [Nodes -> Int] /\ PaidIsGone(books[n], paid[n])
             /\ \A ref \in AllRefs : paid[n][ref] <= 1
             /\ Explained(n, books[n], left[n])
             /\ ~up[n] => books[n].list = <<>>
  BY DEF IInv, NodeOK, DeskOK, Desk
<1>2. paid \in [Nodes -> [AllRefs -> Nat]] /\ left \in [Nodes -> [Nodes -> Int]]
  BY <1>1 DEF IInv, World
<1>3. TypeOK
  BY <1>1, <1>2 DEF IInv, World, TypeOK, SoundBook
<1>4. BooksAreSound /\ BookedIsGone /\ PaidOnce
  BY <1>1 DEF BooksAreSound, SoundBook, BookedIsGone, PaidOnce
<1>5. AllocationExplained
  BY <1>1 DEF AllocationExplained, Explained, Reserved
<1> QED
  BY <1>3, <1>4, <1>5 DEF Sound, IInv

-----------------------------------------------------------------------------
(* One node moves, or none.                                                *)

\* A node that holds what a desk holds.
LEMMA NodeMoves ==
    ASSUME NEW n \in Nodes, NEW e, DeskOK(n, e), Range(agreed) \subseteq Range(agreed)',
           books'[n] = e.book, paid'[n] = e.paid, left'[n] = e.left,
           ~up'[n] => e.book.list = <<>>
    PROVE  NodeOK(n)'
<1>1. PaidIsGone(e.book, e.paid)'
  BY DEF DeskOK, PaidIsGone
<1> QED
  BY <1>1 DEF NodeOK, DeskOK, Desk

\* A node that a step leaves alone.
LEMMA NodeStays ==
    ASSUME NEW n \in Nodes, NodeOK(n), Range(agreed) \subseteq Range(agreed)',
           books'[n] = books[n], paid'[n] = paid[n], left'[n] = left[n],
           up'[n] = up[n]
    PROVE  NodeOK(n)'
<1>1. DeskOK(n, Desk(n)) /\ (~up[n] => books[n].list = <<>>)
  BY DEF NodeOK
<1>2. Desk(n).book = books[n] /\ Desk(n).paid = paid[n] /\ Desk(n).left = left[n]
  BY DEF Desk
<1> HIDE DEF Desk
<1> QED
  BY <1>1, <1>2, NodeMoves

\* Steps that leave the lines of every node alone, and what is under way
\* between friends who still see each other.
LEMMA LinesStay ==
    ASSUME LinesAreTold, World, untold' = untold,
           \A n \in Nodes : SameLines(books[n], books'[n]),
           \A pair \in online' : pair \in online /\ net'[pair[1]][pair[2]] = net[pair[1]][pair[2]]
    PROVE  LinesAreTold'
<1> SUFFICES ASSUME NEW n \in Nodes, NEW p \in Friends[n], <<n, p>> \notin untold'
             PROVE  /\ p \in DOMAIN books'[n].credit
                    /\ <<n, p>> \in online' => Told(n, p)' = books'[n].credit[p].credit
  BY DEF LinesAreTold
<1>1. /\ p \in DOMAIN books[n].credit
      /\ <<n, p>> \in online => Told(n, p) = books[n].credit[p].credit
  BY DEF LinesAreTold
<1>2. SameLines(books[n], books'[n]) /\ SameLines(books[p], books'[p])
  BY FriendsAssumption
<1>3. Load(books'[p], n).our_credit = Load(books[p], n).our_credit
  BY <1>2 DEF SameLines, Load
<1>4. ASSUME <<n, p>> \in online'
      PROVE  Told(n, p)' = Told(n, p) /\ <<n, p>> \in online
  BY <1>3, <1>4 DEF Told
<1> QED
  BY <1>1, <1>2, <1>4 DEF SameLines

-----------------------------------------------------------------------------
(* The beginning.                                                          *)

\* A book without contracts is sound.
LEMMA InitialBook ==
    ASSUME NEW n \in Nodes, NEW b,
           b = [contract |-> <<>>, list |-> <<>>, stored |-> {},
                credit |-> [p \in Friends[n] |-> OpenLine(FirstLine)]]
    PROVE  /\ SoundBook(n, b) /\ Open(b) = {}
           /\ \A p : Reserved(n, b, p) = 0
           /\ DOMAIN b.credit = Friends[n] /\ \A p \in Friends[n] : b.credit[p] = OpenLine(FirstLine)
<1>1. /\ b.contract = <<>> /\ b.list = <<>> /\ b.stored = {}
      /\ DOMAIN b.credit = Friends[n]
      /\ \A p \in Friends[n] : b.credit[p] = OpenLine(FirstLine)
      /\ b = [contract |-> b.contract, list |-> b.list, stored |-> b.stored,
              credit |-> b.credit]
  OBVIOUS
<1>2. OpenLine(FirstLine) \in CreditRecord
  BY RouteAssumption DEF OpenLine, CreditRecord
<1>3. IsBook(n, b)
  <2>1. DOMAIN b.contract = {} /\ <<>> \in Seq({}) /\ IsInjective(<<>>)
    BY <1>1 DEF IsInjective
  <2>2. \A p \in DOMAIN b.credit : b.credit[p] \in CreditRecord
    BY <1>1, <1>2
  <2>3. DOMAIN b.contract \subseteq AllRefs /\ DOMAIN b.credit \subseteq Friends[n]
    BY <1>1, <2>1
  <2> QED
    BY <1>1, <2>1, <2>2, <2>3 DEF IsBook
<1>4. Range(b.list) = {} /\ StoredRefs(b) = {}
  BY <1>1 DEF Range, StoredRefs
<1>5. SoundBook(n, b)
  <2>1. DOMAIN b.contract = {}
    BY <1>1
  <2> QED
    BY <1>1, <1>3, <1>4, <2>1 DEF SoundBook, OwnContracts, ObjectsMatchRows
<1>6. Open(b) = {}
  BY <1>4 DEF Open
<1>7. ASSUME NEW p
      PROVE  Reserved(n, b, p) = 0
  <2>1. ReceiversFrom(n, b, p) = {}
    BY <1>6 DEF ReceiversFrom
  <2> DEFINE f == [r \in {} |-> AmountOf(b, r)]
  <2>2. Reserved(n, b, p) = SumFunctionOnSet(f, {})
    BY <2>1 DEF Reserved, Worth
  <2> HIDE DEF f
  <2> QED
    BY <2>2, SumEmpty
<1> QED
  BY <1>1, <1>5, <1>6, <1>7

\* The program starts in the invariant.
LEMMA InitOK == Init => IInv
<1> SUFFICES ASSUME Init
             PROVE  IInv
  OBVIOUS
<1>1. ASSUME NEW n \in Nodes
      PROVE  /\ SoundBook(n, books[n]) /\ Open(books[n]) = {}
             /\ \A p : Reserved(n, books[n], p) = 0
             /\ DOMAIN books[n].credit = Friends[n]
             /\ \A p \in Friends[n] : books[n].credit[p] = OpenLine(FirstLine)
  <2> DEFINE b == books[n]
  <2>1. b = [contract |-> <<>>, list |-> <<>>, stored |-> {},
             credit |-> [p \in Friends[n] |-> OpenLine(FirstLine)]]
    BY DEF Init
  <2> HIDE DEF b
  <2> QED
    BY <2>1, InitialBook DEF b
<1>2. World
  <2>1. agreed \in Seq(Deals) /\ IsInjective(agreed)
    BY DEF Init, IsInjective
  <2>2. net \in [Nodes -> [Nodes -> Seq([our_credit : Int, balance : Int])]]
    BY DEF Init
  <2>3. mishaps \in 0..MaxMishaps /\ payments \in 0..MaxPayments
    BY RouteAssumption DEF Init
  <2>4. btc \in [Deals -> {"waiting", "sent", "confirmed"}]
    BY DEF Init
  <2>5. /\ DOMAIN paid = Nodes /\ DOMAIN left = Nodes
        /\ paid = [n \in Nodes |-> paid[n]] /\ left = [n \in Nodes |-> left[n]]
    BY DEF Init
  <2>6. /\ DOMAIN books = Nodes /\ up \in [Nodes -> BOOLEAN]
        /\ \A n \in Nodes : up[n]
    BY DEF Init
  <2>7. \A pair \in online : /\ pair \in Nodes \X Nodes
                             /\ pair[2] \in Friends[pair[1]]
                             /\ up[pair[1]] /\ up[pair[2]]
    BY <2>6 DEF Init
  <2> QED
    BY <2>1, <2>2, <2>3, <2>4, <2>5, <2>6, <2>7 DEF World
<1>3. LinesAreTold
  <2> SUFFICES ASSUME NEW n \in Nodes, NEW p \in Friends[n]
               PROVE  /\ p \in DOMAIN books[n].credit
                      /\ Told(n, p) = books[n].credit[p].credit
    BY DEF LinesAreTold
  <2>1. p \in Nodes /\ n \in Friends[p]
    BY FriendsAssumption
  <2>2. net[n][p] = <<>>
    BY <2>1 DEF Init
  <2>3. Load(books[p], n) = OpenLine(FirstLine) /\ books[n].credit[p] = OpenLine(FirstLine)
    BY <1>1, <2>1 DEF Load
  <2> QED
    BY <1>1, <2>2, <2>3 DEF Told, OpenLine
<1>4. ASSUME NEW n \in Nodes
      PROVE  NodeOK(n)
  <2>1. /\ paid[n] \in [AllRefs -> Nat] /\ \A ref \in AllRefs : paid[n][ref] = 0
        /\ left[n] \in [Nodes -> Int] /\ \A p \in Nodes : left[n][p] = 0
        /\ up[n]
    BY DEF Init
  <2>2. PaidIsGone(books[n], paid[n])
    BY <1>1, <2>1 DEF PaidIsGone
  <2>3. Explained(n, books[n], left[n])
    <3> SUFFICES ASSUME NEW p \in DOMAIN books[n].credit
                 PROVE  books[n].credit[p].allocation =
                            Reserved(n, books[n], p) + left[n][p]
      BY DEF Explained
    <3>1. p \in Friends[n] /\ p \in Nodes
      BY <1>1, FriendsAssumption
    <3>2. books[n].credit[p].allocation = 0
      BY <1>1, <3>1 DEF OpenLine
    <3>3. Reserved(n, books[n], p) = 0
      BY <1>1
    <3> QED
      BY <2>1, <3>1, <3>2, <3>3
  <2> QED
    BY <1>1, <2>1, <2>2, <2>3 DEF NodeOK, DeskOK, Desk
<1> QED
  BY <1>2, <1>3, <1>4 DEF IInv

-----------------------------------------------------------------------------
(* The janitor, and the end and the beginning of a process.                *)

\* A desk is put back.
LEMMA DeskPut ==
    ASSUME IInv, NEW n \in Nodes, NEW e, DeskOK(n, e), SameLines(books[n], e.book),
           PutDesk(n, e), ~up'[n] => e.book.list = <<>>,
           \A m \in Nodes : m # n => up'[m] = up[m],
           agreed' = agreed, untold' = untold,
           \A pair \in online' : pair \in online /\ net'[pair[1]][pair[2]] = net[pair[1]][pair[2]]
    PROVE  /\ LinesAreTold' /\ \A m \in Nodes : NodeOK(m)'
           /\ DOMAIN books' = Nodes /\ DOMAIN paid' = Nodes /\ DOMAIN left' = Nodes
           /\ paid' = [m \in Nodes |-> paid'[m]] /\ left' = [m \in Nodes |-> left'[m]]
<1>1. /\ DOMAIN books = Nodes /\ DOMAIN paid = Nodes /\ DOMAIN left = Nodes
      /\ paid = [m \in Nodes |-> paid[m]] /\ left = [m \in Nodes |-> left[m]]
  BY DEF IInv, World
<1>2. /\ books' = [books EXCEPT ![n] = e.book]
      /\ paid' = [paid EXCEPT ![n] = e.paid]
      /\ left' = [left EXCEPT ![n] = e.left]
  BY DEF PutDesk
<1>3. /\ books'[n] = e.book /\ paid'[n] = e.paid /\ left'[n] = e.left
      /\ DOMAIN books' = Nodes /\ DOMAIN paid' = Nodes /\ DOMAIN left' = Nodes
      /\ \A m \in Nodes : m # n => /\ books'[m] = books[m] /\ paid'[m] = paid[m]
                                   /\ left'[m] = left[m]
  BY <1>1, <1>2
<1>4. paid' = [m \in Nodes |-> paid'[m]] /\ left' = [m \in Nodes |-> left'[m]]
  BY <1>1, <1>2
<1>5. NodeOK(n)'
  BY <1>3, NodeMoves
<1>6. ASSUME NEW m \in Nodes, m # n
      PROVE  NodeOK(m)'
  BY <1>3, <1>6, NodeStays DEF IInv
<1>7. \A m \in Nodes : SameLines(books[m], books'[m])
  BY <1>3 DEF SameLines
<1>8. LinesAreTold'
  BY <1>7, LinesStay DEF IInv
<1> QED
  BY <1>3, <1>4, <1>5, <1>6, <1>8

\* A list and its beginnings are fit for a round.
LEMMA ListFacts ==
    ASSUME IInv, NEW n \in Nodes, NEW k \in 0..Len(books[n].list)
    PROVE  LET list == books[n].list
               part == SubSeq(list, 1, k)
           IN /\ DeskOK(n, Desk(n))
              /\ Len(list) \in Nat /\ IsInjective(list) /\ DOMAIN list = 1..Len(list)
              /\ \A i \in DOMAIN list : list[i] \in Range(books[n].list)
              /\ Len(part) \in Nat /\ IsInjective(part) /\ DOMAIN part = 1..Len(part)
              /\ \A i \in DOMAIN part : part[i] \in Range(books[n].list)
<1>1. DeskOK(n, Desk(n)) /\ Desk(n).book = books[n]
  BY DEF IInv, NodeOK, Desk
<1>2. /\ books[n].list \in Seq(DOMAIN books[n].contract) /\ IsInjective(books[n].list)
  BY <1>1 DEF DeskOK, SoundBook, IsBook
<1> DEFINE list == books[n].list
           part == SubSeq(list, 1, k)
<1>3. /\ Len(list) \in Nat /\ DOMAIN list = 1..Len(list)
      /\ \A i \in DOMAIN list : list[i] \in Range(list)
  BY <1>2 DEF Range
<1>4. /\ DOMAIN part = 1..k /\ Len(part) = k
      /\ \A i \in 1..k : part[i] = list[i]
  <2> HIDE DEF list
  <2> QED
    BY <1>2, <1>3 DEF list
<1> HIDE DEF part
<1>5. IsInjective(part)
  BY <1>2, <1>3, <1>4 DEF IsInjective
<1> QED
  BY <1>1, <1>2, <1>3, <1>4, <1>5 DEF part

\* A round of any list of old, confirmed and failing contracts.
LEMMA PollStep ==
    ASSUME IInv, NEW n \in Nodes, up[n], NEW old, NEW seen, NEW failure,
           PutDesk(n, Round(n, books[n].list, old, seen, failure)),
           UNCHANGED <<up, online, net, untold, agreed, btc, payments>>,
           mishaps' \in 0..MaxMishaps
    PROVE  IInv'
<1> DEFINE e == Round(n, books[n].list, old, seen, failure)
<1>1. DeskOK(n, e) /\ SameLines(books[n], e.book)
  <2>1. 0 \in 0..Len(books[n].list)
    <3>1. books[n].list \in Seq(DOMAIN books[n].contract)
      BY DEF IInv, NodeOK, DeskOK, Desk, SoundBook, IsBook
    <3> QED
      BY <3>1
  <2>2. /\ DeskOK(n, Desk(n)) /\ Len(books[n].list) \in Nat
        /\ IsInjective(books[n].list) /\ DOMAIN books[n].list = 1..Len(books[n].list)
        /\ \A i \in DOMAIN books[n].list : books[n].list[i] \in Range(books[n].list)
    BY <2>1, ListFacts
  <2> QED
    BY <2>2, RoundKeeps
<1>2. /\ LinesAreTold' /\ \A m \in Nodes : NodeOK(m)'
      /\ DOMAIN books' = Nodes /\ DOMAIN paid' = Nodes /\ DOMAIN left' = Nodes
      /\ paid' = [m \in Nodes |-> paid'[m]] /\ left' = [m \in Nodes |-> left'[m]]
  <2> HIDE DEF e
  <2>1. PutDesk(n, e)
    BY DEF e
  <2> QED
    BY <1>1, <2>1, DeskPut
<1>3. World'
  BY <1>2 DEF IInv, World
<1> QED
  BY <1>2, <1>3 DEF IInv

\* The janitor's round.
LEMMA PollOK ==
    ASSUME IInv, NEW n \in Nodes, Poll(n)
    PROVE  IInv'
<1>1. PutDesk(n, Round(n, books[n].list, {}, Confirmed, NoFailure))
  BY DEF Poll
<1>2. up[n] /\ UNCHANGED <<up, online, net, untold, mishaps, agreed, btc, payments>>
  BY DEF Poll
<1>3. mishaps' \in 0..MaxMishaps
  BY <1>2 DEF IInv, World
<1> QED
  BY <1>1, <1>2, <1>3, PollStep

\* Mishaps are counted down.
LEMMA InterfereFacts ==
    ASSUME IInv, Interfere
    PROVE  mishaps' \in 0..MaxMishaps
BY RouteAssumption DEF IInv, World, Interfere

\* The janitor's round among old contracts and failing writes.
LEMMA PollBadlyOK ==
    ASSUME IInv, NEW n \in Nodes, PollBadly(n)
    PROVE  IInv'
<1>1. PICK old, seen, failure : PutDesk(n, Round(n, books[n].list, old, seen, failure))
  BY DEF PollBadly
<1>2. /\ up[n] /\ Interfere
      /\ UNCHANGED <<up, online, net, untold, agreed, btc, payments>>
  BY DEF PollBadly
<1> QED
  BY <1>1, <1>2, InterfereFacts, PollStep

\* A confirmation is nothing to the books.
LEMMA ConfirmOK ==
    ASSUME IInv, NEW d \in Deals, Confirm(d)
    PROVE  IInv'
<1>1. /\ btc' = [btc EXCEPT ![d] = "confirmed"]
      /\ UNCHANGED <<books, up, online, net, untold, mishaps, agreed, payments, paid,
                     left, broken>>
  BY DEF Confirm, lineVars
<1>2. ASSUME NEW n \in Nodes
      PROVE  NodeOK(n)'
  BY <1>1, NodeStays DEF IInv
<1>3. LinesAreTold'
  BY <1>1 DEF IInv, LinesAreTold, Told
<1>4. World'
  BY <1>1 DEF IInv, World
<1> QED
  BY <1>2, <1>3, <1>4 DEF IInv

\* What a process takes with it is in left.
LEMMA EndedFacts ==
    ASSUME NEW n \in Nodes, NEW d, DeskOK(n, d)
    PROVE  LET e == Ended(n, d)
           IN /\ DeskOK(n, e) /\ SameLines(d.book, e.book) /\ e.book.list = <<>>
              /\ e.book.credit = d.book.credit /\ e.paid = d.paid /\ e.broken = d.broken
              /\ Open(e.book) = StoredRefs(d.book) /\ StoredRefs(e.book) = StoredRefs(d.book)
              /\ AmountsKept(d.book, e.book)
              /\ \A p \in Nodes : e.left[p] >= d.left[p]
<1> DEFINE b == d.book
           c == [contract |-> <<>>, list |-> <<>>, stored |-> b.stored,
                 credit |-> b.credit]
           W(p) == Worth(b, (Range(b.list) \ StoredRefs(b)) \cap ReceiversFrom(n, b, p))
           l == [p \in Nodes |-> d.left[p] + W(p)]
           e == Ended(n, d)
<1>1. /\ SoundBook(n, b) /\ d.left \in [Nodes -> Int] /\ PaidIsGone(b, d.paid)
      /\ Explained(n, b, d.left)
      /\ d = [book |-> d.book, paid |-> d.paid, left |-> d.left, broken |-> d.broken]
  BY DEF DeskOK
<1>2. /\ SoundBook(n, c) /\ Open(c) = StoredRefs(b)
      /\ StoredRefs(c) = StoredRefs(b) /\ AmountsKept(b, c)
      /\ \A p : Reserved(n, b, p) = Reserved(n, c, p) + W(p) /\ W(p) \in Nat
  <2> DEFINE x == c
  <2>1. x = [contract |-> <<>>, list |-> <<>>, stored |-> b.stored,
             credit |-> b.credit]
    OBVIOUS
  <2> HIDE DEF x
  <2> QED
    BY <1>1, <2>1, MemoryLost
<1>3. e = [book |-> c, paid |-> d.paid, left |-> l, broken |-> d.broken]
  <2>1. c = [b EXCEPT !.list = <<>>, !.contract = <<>>]
    <3>1. b = [contract |-> b.contract, list |-> b.list, stored |-> b.stored,
               credit |-> b.credit]
      BY <1>1 DEF SoundBook, IsBook
    <3> DEFINE nil == <<>>
               z == [b EXCEPT !.list = nil, !.contract = nil]
    <3>2. z = [b EXCEPT !.list = nil, !.contract = nil]
      OBVIOUS
    <3> HIDE DEF b, nil, z
    <3>3. z = [contract |-> nil, list |-> nil, stored |-> b.stored, credit |-> b.credit]
      BY <3>1, <3>2
    <3> QED
      BY <3>3 DEF nil, z
  <2> HIDE DEF c, W
  <2>2. e = [d EXCEPT !.book = c, !.left = l]
    BY <2>1 DEF Ended, W
  <2> HIDE DEF e, l
  <2> QED
    BY <1>1, <2>2
<1>4. /\ e = [book |-> e.book, paid |-> e.paid, left |-> e.left, broken |-> e.broken]
      /\ e.book = c /\ e.paid = d.paid /\ e.left = l /\ e.broken = d.broken
  <2> HIDE DEF e, c, l
  <2> QED
    BY <1>3
<1>5. c.credit = b.credit /\ c.list = <<>>
  OBVIOUS
<1> HIDE DEF c, e, W
<1>6. l \in [Nodes -> Int] /\ \A p \in Nodes : l[p] = d.left[p] + W(p)
  BY <1>1, <1>2
<1> HIDE DEF l
<1>7. PaidIsGone(c, d.paid)
  BY <1>1, <1>2 DEF PaidIsGone, Open
<1>8. Explained(n, c, l)
  <2> SUFFICES ASSUME NEW p \in DOMAIN b.credit
               PROVE  b.credit[p].allocation = Reserved(n, c, p) + l[p]
    BY <1>5 DEF Explained
  <2>1. p \in Nodes
    BY <1>1, FriendsAssumption DEF SoundBook, IsBook
  <2>2. b.credit[p].allocation = Reserved(n, b, p) + d.left[p]
    BY <1>1 DEF Explained
  <2>3. Reserved(n, c, p) \in Int /\ d.left[p] \in Int /\ W(p) \in Int
    BY <1>1, <1>2, <2>1, ReservedType
  <2> QED
    BY <1>2, <1>6, <2>1, <2>2, <2>3
<1>9. DeskOK(n, e)
  BY <1>1, <1>2, <1>4, <1>5, <1>6, <1>7, <1>8 DEF DeskOK
<1>10. SameLines(b, e.book) /\ e.book.list = <<>> /\ e.book.credit = b.credit
  BY <1>4, <1>5 DEF SameLines
<1>11. \A p \in Nodes : e.left[p] >= d.left[p]
  BY <1>1, <1>2, <1>4, <1>6
<1> QED
  BY <1>2, <1>4, <1>9, <1>10, <1>11 DEF e

\* A process ends, perhaps in the middle of a round.
LEMMA CrashOK ==
    ASSUME IInv, NEW n \in Nodes, Crash(n)
    PROVE  IInv'
<1>1. PICK done \in 0..Len(books[n].list) :
          PutDesk(n, Ended(n, Round(n, SubSeq(books[n].list, 1, done), {}, Confirmed,
                                    NoFailure)))
  BY DEF Crash
<1>2. /\ Interfere /\ up' = [up EXCEPT ![n] = FALSE]
      /\ online' = {pair \in online : n \notin Range(pair)}
      /\ net' = [f \in Nodes |-> [t \in Nodes |->
                    IF n \in {f, t} THEN <<>> ELSE net[f][t]]]
      /\ UNCHANGED <<untold, agreed, btc, payments>>
  BY DEF Crash
<1> DEFINE part == SubSeq(books[n].list, 1, done)
           d == Round(n, part, {}, Confirmed, NoFailure)
           e == Ended(n, d)
<1>3. DeskOK(n, d) /\ SameLines(books[n], d.book)
  <2>1. /\ DeskOK(n, Desk(n)) /\ Len(part) \in Nat /\ IsInjective(part)
        /\ DOMAIN part = 1..Len(part)
        /\ \A i \in DOMAIN part : part[i] \in Range(books[n].list)
    BY ListFacts
  <2> HIDE DEF part
  <2> QED
    BY <2>1, RoundKeeps
<1> HIDE DEF d
<1>4. DeskOK(n, e) /\ SameLines(d.book, e.book) /\ e.book.list = <<>>
  BY <1>3, EndedFacts
<1>5. PutDesk(n, e)
  BY <1>1 DEF d
<1> HIDE DEF e
<1>6. SameLines(books[n], e.book)
  BY <1>3, <1>4 DEF SameLines
<1>7. ASSUME NEW pair \in online'
      PROVE  /\ pair \in online /\ pair \in Nodes \X Nodes
             /\ pair[1] # n /\ pair[2] # n
             /\ net'[pair[1]][pair[2]] = net[pair[1]][pair[2]]
  <2>1. pair \in online /\ pair \in Nodes \X Nodes /\ n \notin Range(pair)
    BY <1>2 DEF IInv, World
  <2>2. PICK f \in Nodes, t \in Nodes : pair = <<f, t>>
    BY <2>1
  <2>3. f \in Range(pair) /\ t \in Range(pair)
    <3>1. 1 \in DOMAIN pair /\ 2 \in DOMAIN pair /\ pair[1] = f /\ pair[2] = t
      BY <2>2
    <3> QED
      BY <3>1 DEF Range
  <2> QED
    BY <1>2, <2>1, <2>2, <2>3
<1>8. up' \in [Nodes -> BOOLEAN] /\ \A m \in Nodes : m # n => up'[m] = up[m]
  BY <1>2 DEF IInv, World
<1>9. /\ LinesAreTold' /\ \A m \in Nodes : NodeOK(m)'
      /\ DOMAIN books' = Nodes /\ DOMAIN paid' = Nodes /\ DOMAIN left' = Nodes
      /\ paid' = [m \in Nodes |-> paid'[m]] /\ left' = [m \in Nodes |-> left'[m]]
  BY <1>2, <1>4, <1>5, <1>6, <1>7, <1>8, DeskPut
<1>10. net' \in [Nodes -> [Nodes -> Seq([our_credit : Int, balance : Int])]]
  BY <1>2 DEF IInv, World
<1>11. \A pair \in online' : /\ pair \in Nodes \X Nodes
                             /\ pair[2] \in Friends[pair[1]]
                             /\ up'[pair[1]] /\ up'[pair[2]]
  BY <1>7, <1>8 DEF IInv, World
<1>12. mishaps' \in 0..MaxMishaps
  BY <1>2, InterfereFacts
<1>13. World'
  BY <1>2, <1>8, <1>9, <1>10, <1>11, <1>12 DEF IInv, World
<1> QED
  BY <1>9, <1>13 DEF IInv

-----------------------------------------------------------------------------
(* Books change, and what is known of them does not.                       *)

\* One node's book changes; its lines do not, and its allocations add up.
LEMMA BookPut ==
    ASSUME IInv, NEW n \in Nodes, NEW c, SoundBook(n, c), SameLines(books[n], c),
           Open(c) \subseteq Open(books[n]), Explained(n, c, left[n]),
           books' = [books EXCEPT ![n] = c],
           UNCHANGED <<online, net, untold, agreed, payments, paid, left, broken>>,
           mishaps' \in 0..MaxMishaps, up' \in [Nodes -> BOOLEAN], \A m \in Nodes : up[m] => up'[m],
           \A m \in Nodes : m # n => up'[m] = up[m],
           ~up'[n] => c.list = <<>>,
           btc' \in [Deals -> {"waiting", "sent", "confirmed"}]
    PROVE  IInv'
<1> DEFINE e == [book |-> c, paid |-> paid[n], left |-> left[n], broken |-> broken]
<1>1. /\ e = [book |-> e.book, paid |-> e.paid, left |-> e.left, broken |-> e.broken]
      /\ e.book = c /\ e.paid = paid[n] /\ e.left = left[n] /\ e.broken = broken
  OBVIOUS
<1> HIDE DEF e
<1>2. /\ paid[n] \in [AllRefs -> Nat] /\ \A ref \in AllRefs : paid[n][ref] <= 1
      /\ left[n] \in [Nodes -> Int] /\ PaidIsGone(books[n], paid[n])
  BY DEF IInv, NodeOK, DeskOK, Desk
<1>3. PaidIsGone(c, paid[n])
  BY <1>2 DEF PaidIsGone
<1>4. DeskOK(n, e)
  BY <1>1, <1>2, <1>3 DEF DeskOK
<1>5. PutDesk(n, e)
  <2>1. paid = [paid EXCEPT ![n] = paid[n]] /\ left = [left EXCEPT ![n] = left[n]]
    BY DEF IInv, World
  <2> QED
    BY <1>1, <2>1 DEF PutDesk
<1>6. /\ LinesAreTold' /\ \A m \in Nodes : NodeOK(m)'
      /\ DOMAIN books' = Nodes /\ DOMAIN paid' = Nodes /\ DOMAIN left' = Nodes
      /\ paid' = [m \in Nodes |-> paid'[m]] /\ left' = [m \in Nodes |-> left'[m]]
  <2>1. SameLines(books[n], e.book) /\ (~up'[n] => e.book.list = <<>>)
    BY <1>1
  <2>2. \A pair \in online' : pair \in online /\ net'[pair[1]][pair[2]] = net[pair[1]][pair[2]]
    OBVIOUS
  <2>3. agreed' = agreed /\ untold' = untold /\ \A m \in Nodes : m # n => up'[m] = up[m]
    OBVIOUS
  <2> QED
    BY <1>4, <1>5, <2>1, <2>2, <2>3, DeskPut
<1>7. \A pair \in online' : /\ pair \in Nodes \X Nodes
                            /\ pair[2] \in Friends[pair[1]]
                            /\ up'[pair[1]] /\ up'[pair[2]]
  BY DEF IInv, World
<1>8. World'
  BY <1>6, <1>7 DEF IInv, World
<1> QED
  BY <1>6, <1>8 DEF IInv

\* What the invariant says of a node.
LEMMA NodeFacts ==
    ASSUME IInv, NEW n \in Nodes
    PROVE  /\ SoundBook(n, books[n]) /\ Explained(n, books[n], left[n])
           /\ left[n] \in [Nodes -> Int] /\ PaidIsGone(books[n], paid[n])
           /\ ~up[n] => books[n].list = <<>>
BY DEF IInv, NodeOK, DeskOK, Desk

\* A process starts and loads what is stored.
\* A process starts with the contracts of its rows.
LEMMA RestartOutcome ==
    ASSUME IInv, NEW n \in Nodes, Restart(n)
    PROVE  \E c : /\ books' = [books EXCEPT ![n] = c] /\ SoundBook(n, c)
                  /\ Open(c) = Open(books[n]) /\ StoredRefs(c) = StoredRefs(books[n])
                  /\ Range(c.list) = StoredRefs(books[n]) /\ AmountsKept(books[n], c)
                  /\ \A p : Reserved(n, c, p) = Reserved(n, books[n], p)
                  /\ c.credit = books[n].credit
<1> DEFINE b == books[n]
<1>1. PICK list \in Reloads(StoredRefs(b)) : books' = [books EXCEPT ![n] = Reloaded(@, list)]
  BY DEF Restart
<1> DEFINE objs == [ref \in Range(list) |-> Loaded(RowOf(b, ref))]
           c == Reloaded(b, list)
<1>2. SoundBook(n, b) /\ b.list = <<>>
  BY NodeFacts DEF Restart
<1>3. c = [contract |-> objs, list |-> list, stored |-> b.stored, credit |-> b.credit]
  <2>1. b = [contract |-> b.contract, list |-> b.list, stored |-> b.stored,
             credit |-> b.credit]
    BY <1>2 DEF SoundBook, IsBook
  <2>2. c = [b EXCEPT !.list = list, !.contract = objs]
    BY DEF Reloaded
  <2> HIDE DEF b, objs, c
  <2> QED
    BY <2>1, <2>2
<1>4. /\ list \in [1..Cardinality(StoredRefs(b)) -> StoredRefs(b)]
      /\ IsInjective(list) /\ Range(list) = StoredRefs(b)
  BY DEF Reloads
<1>5. books' = [books EXCEPT ![n] = c]
  BY <1>1
<1> HIDE DEF b, c
<1>6. /\ SoundBook(n, c) /\ Open(c) = Open(b)
      /\ StoredRefs(c) = StoredRefs(b) /\ AmountsKept(b, c)
      /\ \A p : Reserved(n, c, p) = Reserved(n, b, p)
  BY <1>2, <1>3, <1>4, ReloadFacts
<1>7. c.credit = b.credit /\ c.list = list
  <2> HIDE DEF objs
  <2> QED
    BY <1>3
<1> QED
  BY <1>4, <1>5, <1>6, <1>7 DEF b

LEMMA RestartOK ==
    ASSUME IInv, NEW n \in Nodes, Restart(n)
    PROVE  IInv'
<1>1. /\ ~up[n] /\ up' = [up EXCEPT ![n] = TRUE]
      /\ UNCHANGED <<online, net, untold, mishaps, agreed, btc, payments, paid, left, broken>>
  BY DEF Restart
<1>2. PICK c : /\ books' = [books EXCEPT ![n] = c] /\ SoundBook(n, c)
               /\ Open(c) = Open(books[n]) /\ c.credit = books[n].credit
               /\ \A p : Reserved(n, c, p) = Reserved(n, books[n], p)
  BY RestartOutcome
<1>3. Explained(n, c, left[n]) /\ SameLines(books[n], c)
  BY <1>2, NodeFacts DEF Explained, SameLines
<1>4. /\ up' \in [Nodes -> BOOLEAN] /\ up'[n] /\ \A m \in Nodes : m # n => up'[m] = up[m]
      /\ \A m \in Nodes : up[m] => up'[m]
  BY <1>1 DEF IInv, World
<1>5. btc' \in [Deals -> {"waiting", "sent", "confirmed"}] /\ mishaps' \in 0..MaxMishaps
  BY <1>1 DEF IInv, World
<1> QED
  BY <1>1, <1>2, <1>3, <1>4, <1>5, BookPut

\* A row whose balance alone is written.
LEMMA BalanceWritten ==
    ASSUME NEW n \in Nodes, NEW b, SoundBook(n, b), NEW p,
           NEW gone, Explained(n, b, gone), NEW row \in CreditRecord,
           row = Spent(Load(b, p), 1) \/ row = Received(Load(b, p), 1)
    PROVE  LET c == Store(b, p, row)
           IN SoundBook(n, c) /\ SameLines(b, c) /\ Open(c) = Open(b) /\ c.list = b.list
              /\ Explained(n, c, gone)
<1> DEFINE c == Store(b, p, row)
           old == Load(b, p)
<1>1. old \in CreditRecord /\ (p \in DOMAIN b.credit => old = b.credit[p])
  BY LoadType DEF Load
<1>2. /\ row.credit = old.credit /\ row.our_credit = old.our_credit
      /\ row.allocation = old.allocation
  <2> HIDE DEF old
  <2>1. row = Spent(old, 1) \/ row = Received(old, 1)
    BY DEF old
  <2> QED
    BY <1>1, <2>1 DEF Spent, Received, CreditRecord
<1>3. /\ CreditOnly(n, b, c)
      /\ \A q \in DOMAIN b.credit :
            c.credit[q].allocation =
                IF q = p THEN row.allocation ELSE b.credit[q].allocation
  BY <1>2, RowWritten
<1> HIDE DEF c
<1>4. Explained(n, c, gone)
  BY <1>1, <1>2, <1>3 DEF Explained, CreditOnly, SameLines
<1> QED
  BY <1>3, <1>4 DEF CreditOnly, c

\* A payment moves balances alone.
LEMMA PayOK ==
    ASSUME IInv, NEW n \in Nodes, NEW p \in Friends[n], Pay(n, p)
    PROVE  IInv'
<1> DEFINE a == Store(books[n], p, Spent(Load(books[n], p), 1))
           b == Store(books[p], n, Received(Load(books[p], n), 1))
<1>1. p \in Nodes /\ p # n
  BY FriendsAssumption
<1>2. /\ books' = [books EXCEPT ![n] = a, ![p] = b] /\ up[n] /\ up[p]
      /\ payments' = payments + 1 /\ payments < MaxPayments
      /\ UNCHANGED <<up, online, net, untold, mishaps, agreed, btc, paid, left, broken>>
  BY <1>1 DEF Pay
<1>3. SoundBook(n, books[n]) /\ SoundBook(p, books[p])
      /\ Explained(n, books[n], left[n]) /\ Explained(p, books[p], left[p])
  BY <1>1, NodeFacts
<1>4. /\ Spent(Load(books[n], p), 1) \in CreditRecord
      /\ Received(Load(books[p], n), 1) \in CreditRecord
  <2>1. Load(books[n], p) \in CreditRecord /\ Load(books[p], n) \in CreditRecord
    BY <1>1, <1>3, LoadType
  <2>2. \A x \in CreditRecord : Spent(x, 1) \in CreditRecord /\ Received(x, 1) \in CreditRecord
    BY DEF Spent, Received, CreditRecord
  <2> QED
    BY <2>1, <2>2
<1>5. SoundBook(n, a) /\ SameLines(books[n], a) /\ Open(a) = Open(books[n])
      /\ a.list = books[n].list /\ Explained(n, a, left[n])
  BY <1>3, <1>4, BalanceWritten
<1>6. SoundBook(p, b) /\ SameLines(books[p], b) /\ Open(b) = Open(books[p])
      /\ b.list = books[p].list /\ Explained(p, b, left[p])
  BY <1>1, <1>3, <1>4, BalanceWritten
<1> HIDE DEF a, b
<1>7. /\ DOMAIN books' = Nodes /\ books'[n] = a /\ books'[p] = b
      /\ \A m \in Nodes : m \notin {n, p} => books'[m] = books[m]
  BY <1>1, <1>2 DEF IInv, World
<1>8. ASSUME NEW m \in Nodes
      PROVE  SoundBook(m, books'[m]) /\ SameLines(books[m], books'[m])
             /\ Open(books'[m]) = Open(books[m]) /\ books'[m].list = books[m].list
             /\ Explained(m, books'[m], left[m])
  <2>1. CASE m \notin {n, p}
    BY <1>7, <2>1, NodeFacts DEF SameLines
  <2> QED
    BY <1>5, <1>6, <1>7, <2>1
<1>9. ASSUME NEW m \in Nodes
      PROVE  NodeOK(m)'
  <2>1. /\ paid[m] \in [AllRefs -> Nat] /\ \A ref \in AllRefs : paid[m][ref] <= 1
        /\ left[m] \in [Nodes -> Int] /\ PaidIsGone(books[m], paid[m])
        /\ ~up[m] => books[m].list = <<>>
    BY DEF IInv, NodeOK, DeskOK, Desk
  <2>2. PaidIsGone(books'[m], paid[m])
    BY <1>8, <2>1 DEF PaidIsGone
  <2> DEFINE e == [book |-> books'[m], paid |-> paid[m], left |-> left[m],
                   broken |-> broken]
  <2>3. /\ e = [book |-> e.book, paid |-> e.paid, left |-> e.left, broken |-> e.broken]
        /\ e.book = books'[m] /\ e.paid = paid[m] /\ e.left = left[m]
    OBVIOUS
  <2> HIDE DEF e
  <2>4. DeskOK(m, e)
    BY <1>8, <2>1, <2>2, <2>3 DEF DeskOK
  <2>5. /\ paid'[m] = paid[m] /\ left'[m] = left[m] /\ up'[m] = up[m]
        /\ agreed' = agreed
    BY <1>2
  <2>6. ~up'[m] => e.book.list = <<>>
    BY <1>8, <2>1, <2>3, <2>5
  <2> QED
    BY <2>3, <2>4, <2>5, <2>6, NodeMoves
<1>10. LinesAreTold'
  BY <1>2, <1>8, LinesStay DEF IInv
<1>11. payments' \in 0..MaxPayments
  BY <1>2, RouteAssumption DEF IInv, World
<1>12. World'
  BY <1>2, <1>7, <1>11 DEF IInv, World
<1> QED
  BY <1>9, <1>10, <1>12 DEF IInv

-----------------------------------------------------------------------------
(* The decision on a deal, contract by contract.                           *)

\* c is b with fewer contracts or as many, accounted for.
Settles(n, b, c, gone) ==
    /\ SoundBook(n, c) /\ SameLines(b, c) /\ Explained(n, c, gone)
    /\ Open(c) \subseteq Open(b)

\* The contracts refs of a list are stored, or rolled back.
Stores(n, b, c, refs) ==
    /\ SoundBook(n, c) /\ c.list = b.list /\ c.credit = b.credit
    /\ StoredRefs(c) = StoredRefs(b) \cup refs /\ AmountsKept(b, c)
    /\ Open(c) = Open(b) /\ \A p : Reserved(n, c, p) = Reserved(n, b, p)
RollsBack(n, b, c, gone, refs) ==
    /\ Settles(n, b, c, gone)
    /\ Range(c.list) = Range(b.list) \ refs /\ Open(c) = Open(b) \ refs
    /\ StoredRefs(c) = StoredRefs(b) \ refs /\ AmountsKept(b, c)
    /\ \A q \in DOMAIN b.credit :
          /\ c.credit[q].balance = b.credit[q].balance
          /\ c.credit[q].allocation <= b.credit[q].allocation

\* Two contracts that are decided one after the other.
LEMMA StoresTwice ==
    ASSUME NEW n, NEW a, NEW b, NEW c, NEW s, NEW r, Stores(n, a, b, s), Stores(n, b, c, r)
    PROVE  Stores(n, a, c, s \cup r)
BY DEF Stores, AmountsKept

LEMMA RollsBackTwice ==
    ASSUME NEW n \in Nodes, NEW a, SoundBook(n, a), NEW b, NEW c, NEW gone, NEW s, NEW r,
           RollsBack(n, a, b, gone, s), RollsBack(n, b, c, gone, r)
    PROVE  RollsBack(n, a, c, gone, s \cup r)
<1>1. Settles(n, a, c, gone)
  BY DEF RollsBack, Settles, SameLines
<1>2. AmountsKept(a, c)
  BY DEF RollsBack, AmountsKept
<1>3. ASSUME NEW q \in DOMAIN a.credit
      PROVE  /\ c.credit[q].balance = a.credit[q].balance
             /\ c.credit[q].allocation <= a.credit[q].allocation
  <2>1. q \in DOMAIN b.credit /\ q \in DOMAIN c.credit
    BY DEF RollsBack, Settles, SameLines
  <2>2. SoundBook(n, b) /\ SoundBook(n, c)
    BY DEF RollsBack, Settles
  <2>3. /\ a.credit[q].allocation \in Int /\ b.credit[q].allocation \in Int
        /\ c.credit[q].allocation \in Int
    BY <2>1, <2>2 DEF SoundBook, IsBook, CreditRecord
  <2>4. /\ b.credit[q].balance = a.credit[q].balance
        /\ b.credit[q].allocation <= a.credit[q].allocation
    BY DEF RollsBack
  <2>5. /\ c.credit[q].balance = b.credit[q].balance
        /\ c.credit[q].allocation <= b.credit[q].allocation
    BY <2>1 DEF RollsBack
  <2> QED
    BY <2>3, <2>4, <2>5
<1>4. /\ Range(c.list) = Range(a.list) \ (s \cup r) /\ Open(c) = Open(a) \ (s \cup r)
      /\ StoredRefs(c) = StoredRefs(a) \ (s \cup r)
  BY DEF RollsBack
<1> QED
  BY <1>1, <1>2, <1>3, <1>4 DEF RollsBack

\* The contracts of an undecided deal are in the list, and not in force.
LEMMA UndecidedFacts ==
    ASSUME IInv, NEW n \in Nodes, NEW d \in Deals, Undecided(n, d)
    PROVE  LET b == books[n]
               s == Ref(d, "sender")
               r == Ref(d, "receiver")
           IN /\ up[n] /\ s # r
              /\ IsPayer(n, d) => s \in Range(b.list) /\ ~b.contract[s].active
              /\ IsPayee(n, d) => r \in Range(b.list) /\ ~b.contract[r].active
<1>1. Ref(d, "sender") # Ref(d, "receiver")
  BY DEF Ref
<1>2. \A ref \in Refs(n, d) : ref \in Range(books[n].list) /\ ~books[n].contract[ref].active
  BY DEF Undecided, Listed, Contains, Range
<1>3. /\ IsPayer(n, d) => Ref(d, "sender") \in Refs(n, d)
      /\ IsPayee(n, d) => Ref(d, "receiver") \in Refs(n, d)
  BY DEF Refs
<1> QED
  BY <1>1, <1>2, <1>3 DEF Undecided

\* A node stores the contracts of a deal.
LEMMA CommitOutcome ==
    ASSUME IInv, NEW n \in Nodes, NEW d \in Deals, Commit(n, d)
    PROVE  \E c : /\ books' = [books EXCEPT ![n] = c]
                  /\ Stores(n, books[n], c, Refs(n, d))
<1> DEFINE b == books[n]
           s == Ref(d, "sender")
           r == Ref(d, "receiver")
           x == IF IsPayer(n, d) THEN Stipulate(b, s) ELSE b
           c == IF IsPayee(n, d) THEN Stipulate(x, r) ELSE x
           ss == IF IsPayer(n, d) THEN {s} ELSE {}
           rr == IF IsPayee(n, d) THEN {r} ELSE {}
<1>1. books' = [books EXCEPT ![n] = c] /\ Undecided(n, d)
  BY DEF Commit, ForEachContract
<1>2. /\ s # r
      /\ IsPayer(n, d) => s \in Range(b.list) /\ ~b.contract[s].active
      /\ IsPayee(n, d) => r \in Range(b.list) /\ ~b.contract[r].active
  BY <1>1, UndecidedFacts
<1>3. SoundBook(n, b)
  BY NodeFacts
<1>4. Refs(n, d) = ss \cup rr
  BY DEF Refs
<1> HIDE DEF b, s, r
<1>5. ASSUME NEW a, SoundBook(n, a), NEW ref \in Range(a.list), ~a.contract[ref].active
      PROVE  /\ Stores(n, a, Stipulate(a, ref), {ref})
             /\ \A q \in Range(a.list) : q # ref =>
                   Stipulate(a, ref).contract[q] = a.contract[q]
  BY <1>5, StipulateFacts DEF Stores
<1>6. ASSUME NEW a, SoundBook(n, a)
      PROVE  Stores(n, a, a, {})
  BY <1>6 DEF Stores, AmountsKept
<1>7. /\ Stores(n, b, x, ss)
      /\ IsPayee(n, d) => x.contract[r] = b.contract[r]
  <2>1. CASE IsPayer(n, d)
    <3>1. /\ Stores(n, b, Stipulate(b, s), {s})
          /\ \A q \in Range(b.list) : q # s => Stipulate(b, s).contract[q] = b.contract[q]
      BY <1>2, <1>3, <1>5, <2>1
    <3> QED
      BY <1>2, <2>1, <3>1
  <2>2. CASE ~IsPayer(n, d)
    BY <1>3, <1>6, <2>2
  <2> QED
    BY <2>1, <2>2
<1> HIDE DEF x, ss
<1>8. Stores(n, x, c, rr)
  <2>1. SoundBook(n, x) /\ x.list = b.list
    BY <1>7 DEF Stores
  <2>2. CASE IsPayee(n, d)
    <3>1. Stores(n, x, Stipulate(x, r), {r})
      BY <1>2, <1>5, <1>7, <2>1, <2>2
    <3> QED
      BY <2>2, <3>1
  <2>3. CASE ~IsPayee(n, d)
    BY <1>6, <2>1, <2>3
  <2> QED
    BY <2>2, <2>3
<1> HIDE DEF c, rr
<1>9. Stores(n, b, c, ss \cup rr)
  BY <1>7, <1>8, StoresTwice
<1> QED
  BY <1>1, <1>4, <1>9 DEF b

LEMMA CommitOK ==
    ASSUME IInv, NEW n \in Nodes, NEW d \in Deals, Commit(n, d)
    PROVE  IInv'
<1>1. /\ up[n] /\ btc' = IF IsPayer(n, d) THEN btc ELSE [btc EXCEPT ![d] = "sent"]
      /\ UNCHANGED <<up, online, net, untold, mishaps, agreed, payments, paid, left, broken>>
  BY DEF Commit, Undecided
<1>2. PICK c : books' = [books EXCEPT ![n] = c] /\ Stores(n, books[n], c, Refs(n, d))
  BY CommitOutcome
<1>3. /\ SoundBook(n, c) /\ SameLines(books[n], c) /\ Explained(n, c, left[n])
      /\ Open(c) \subseteq Open(books[n])
  BY <1>2, NodeFacts DEF Stores, SameLines, Explained
<1>4. btc' \in [Deals -> {"waiting", "sent", "confirmed"}] /\ mishaps' \in 0..MaxMishaps
  BY <1>1 DEF IInv, World
<1>5. up' \in [Nodes -> BOOLEAN] /\ up' = up
  BY <1>1 DEF IInv, World
<1> QED
  BY <1>1, <1>2, <1>3, <1>4, <1>5, BookPut

\* A node rolls the contracts of a deal back.
LEMMA AbandonOutcome ==
    ASSUME IInv, NEW n \in Nodes, NEW d \in Deals, Abandon(n, d)
    PROVE  \E c : /\ books' = [books EXCEPT ![n] = c]
                  /\ RollsBack(n, books[n], c, left[n], Refs(n, d))
<1> DEFINE b == books[n]
           s == Ref(d, "sender")
           r == Ref(d, "receiver")
           x == IF IsPayer(n, d) THEN RmContract(b, s) ELSE b
           c == IF IsPayee(n, d) THEN RmContract(x, r) ELSE x
           ss == IF IsPayer(n, d) THEN {s} ELSE {}
           rr == IF IsPayee(n, d) THEN {r} ELSE {}
<1>1. books' = [books EXCEPT ![n] = c] /\ Undecided(n, d)
  BY DEF Abandon, ForEachContract
<1>2. /\ s # r
      /\ IsPayer(n, d) => s \in Range(b.list)
      /\ IsPayee(n, d) => r \in Range(b.list)
  BY <1>1, UndecidedFacts
<1>3. SoundBook(n, b) /\ Explained(n, b, left[n]) /\ left[n] \in [Nodes -> Int]
  BY NodeFacts
<1>4. Refs(n, d) = ss \cup rr
  BY DEF Refs
<1> HIDE DEF b, s, r
<1>5. ASSUME NEW a, SoundBook(n, a), Explained(n, a, left[n]), NEW ref \in Range(a.list)
      PROVE  RollsBack(n, a, RmContract(a, ref), left[n], {ref})
  BY <1>3, <1>5, RollbackFacts DEF RollsBack, Settles
<1>6. ASSUME NEW a, SoundBook(n, a), Explained(n, a, left[n])
      PROVE  RollsBack(n, a, a, left[n], {})
  <2>1. \A q \in DOMAIN a.credit : a.credit[q].allocation \in Int
    BY <1>6 DEF SoundBook, IsBook, CreditRecord
  <2> QED
    BY <1>6, <2>1 DEF RollsBack, Settles, SameLines, AmountsKept
<1>7. RollsBack(n, b, x, left[n], ss)
  BY <1>2, <1>3, <1>5, <1>6
<1> HIDE DEF x
<1>8. /\ SoundBook(n, x) /\ Explained(n, x, left[n])
      /\ IsPayee(n, d) => r \in Range(x.list)
  BY <1>2, <1>7 DEF RollsBack, Settles
<1>9. RollsBack(n, x, c, left[n], rr)
  BY <1>5, <1>6, <1>8
<1> HIDE DEF c, ss, rr
<1>10. RollsBack(n, b, c, left[n], ss \cup rr)
  BY <1>3, <1>7, <1>9, RollsBackTwice
<1> QED
  BY <1>1, <1>4, <1>10 DEF b

LEMMA AbandonOK ==
    ASSUME IInv, NEW n \in Nodes, NEW d \in Deals, Abandon(n, d)
    PROVE  IInv'
<1>1. /\ up[n] /\ Interfere
      /\ UNCHANGED <<up, online, net, untold, agreed, btc, payments, paid, left, broken>>
  BY DEF Abandon, Undecided
<1>2. PICK c : /\ books' = [books EXCEPT ![n] = c]
               /\ RollsBack(n, books[n], c, left[n], Refs(n, d))
  BY AbandonOutcome
<1>3. mishaps' \in 0..MaxMishaps
  BY <1>1, InterfereFacts
<1>4. /\ up' \in [Nodes -> BOOLEAN] /\ up' = up
      /\ btc' \in [Deals -> {"waiting", "sent", "confirmed"}]
  BY <1>1 DEF IInv, World
<1> QED
  BY <1>1, <1>2, <1>3, <1>4, BookPut DEF RollsBack, Settles

-----------------------------------------------------------------------------
(* A deal is agreed on.                                                    *)

\* A deal that is not in the list of those agreed on.
LEMMA NewDeal ==
    ASSUME IInv, NEW d \in Deals, ~Contains(agreed, d)
    PROVE  d \notin Range(agreed)
<1>1. agreed \in Seq(Deals)
  BY DEF IInv, World
<1>2. Len(agreed) \in Nat /\ DOMAIN agreed = 1..Len(agreed)
  BY <1>1
<1>3. \A i \in 1..Len(agreed) : agreed[i] # d
  BY DEF Contains
<1> QED
  BY <1>2, <1>3 DEF Range

\* What is agreed on is no more than any payee can take.
LEMMA AgreedFacts ==
    ASSUME IInv, NEW d \in Deals,
           \A n \in Nodes : IsPayee(n, d) => CanReceive(books[n], Prev(n, d))
    PROVE  /\ Agreed(d) \in Nat
           /\ \A n \in Nodes : IsPayee(n, d) =>
                 Agreed(d) <= PeerAvailable(Load(books[n], Prev(n, d)))
<1> DEFINE T == {Amount[d]} \cup
                {PeerAvailable(Load(books[n], Prev(n, d))) :
                    n \in {m \in Nodes : IsPayee(m, d)}}
<1>1. T \subseteq Nat
  <2>1. Amount[d] \in Nat
    BY RouteAssumption
  <2>2. ASSUME NEW n \in Nodes, IsPayee(n, d)
        PROVE  PeerAvailable(Load(books[n], Prev(n, d))) \in Nat
    <3>1. Load(books[n], Prev(n, d)) \in CreditRecord
      BY NodeFacts, LoadType
    <3>2. PeerAvailable(Load(books[n], Prev(n, d))) > 0
      BY <2>2 DEF CanReceive
    <3> QED
      BY <3>1, <3>2 DEF PeerAvailable, CreditRecord
  <2> QED
    BY <2>1, <2>2
<1>2. T # {}
  OBVIOUS
<1> HIDE DEF T
<1>3. PICK m \in T : \A k \in T : ~(k < m)
  BY <1>1, <1>2, SmallestNat
<1>4. \A k \in T : m =< k
  BY <1>1, <1>3
<1>5. Min(T) \in T /\ \A k \in T : Min(T) =< k
  BY <1>4 DEF Min
<1>6. Agreed(d) = Min(T)
  BY DEF Agreed, T
<1>7. \A n \in Nodes : IsPayee(n, d) => PeerAvailable(Load(books[n], Prev(n, d))) \in T
  BY DEF T
<1> QED
  BY <1>1, <1>5, <1>6, <1>7

\* c is b with n's contracts on d, each over amount.
Makes(n, d, amount, b, c) ==
    /\ SameLines(b, c) /\ c.stored = b.stored
    /\ Range(c.list) = Range(b.list) \cup Refs(n, d)
    /\ Open(c) = Open(b) \cup Refs(n, d) /\ AmountsKept(b, c)
    /\ \A ref \in Refs(n, d) : AmountOf(c, ref) = amount
    /\ \A q \in DOMAIN b.credit :
          c.credit[q] = IF IsPayee(n, d) /\ q = Prev(n, d) THEN Allocated(b.credit[q], amount)
                        ELSE b.credit[q]

\* A node of the route has its contracts on the deal, and nothing else moves.
LEMMA ContractsMade ==
    ASSUME IInv, NEW d \in Deals, ~Contains(agreed, d), NEW n \in Nodes,
           \A m \in Nodes : IsPayee(m, d) => CanReceive(books[m], Prev(m, d))
    PROVE  LET c == WithContracts(n, d)
           IN /\ SoundBook(n, c) /\ SameLines(books[n], c) /\ Explained(n, c, left[n])
              /\ Makes(n, d, Agreed(d), books[n], c)
<1> DEFINE b == books[n]
           s == Ref(d, "sender")
           r == Ref(d, "receiver")
           k == Agreed(d)
           x == IF IsPayee(n, d) THEN Waiting(NewReceiver(b, r, Prev(n, d), k), r) ELSE b
           c == IF IsPayer(n, d) THEN Waiting(NewSender(x, s, Following(n, d), k), s) ELSE x
           mine == IF IsPayee(n, d) THEN {r} ELSE {}
<1>1. /\ k \in Nat
      /\ IsPayee(n, d) => k <= PeerAvailable(Load(b, Prev(n, d)))
  BY AgreedFacts
<1>2. /\ SoundBook(n, b) /\ Explained(n, b, left[n]) /\ left[n] \in [Nodes -> Int]
      /\ PaidIsGone(b, paid[n])
  BY NodeFacts
<1>3. r \notin Open(b) /\ s \notin Open(b)
  <2>1. d \notin Range(agreed)
    BY NewDeal
  <2>2. r.tx = d /\ s.tx = d
    BY DEF Ref
  <2> HIDE DEF b, r, s
  <2> QED
    BY <1>2, <2>1, <2>2 DEF PaidIsGone
<1>4. /\ r # s /\ r.party = "receiver" /\ s.party = "sender"
      /\ PeerOf(n, r) = Prev(n, d) /\ PeerOf(n, s) = Following(n, d)
  BY DEF Ref, PeerOf
<1>5. /\ IsPayee(n, d) => OwnRef(n, r)
      /\ IsPayer(n, d) => OwnRef(n, s)
  BY OwnRefs
<1>6. WithContracts(n, d) = c
  BY DEF WithContracts
<1>7. Refs(n, d) = mine \cup (IF IsPayer(n, d) THEN {s} ELSE {})
  BY DEF Refs
<1> HIDE DEF b, s, r, k
<1>8. /\ SoundBook(n, x) /\ Explained(n, x, left[n])
      /\ SameLines(b, x) /\ x.stored = b.stored
      /\ Range(x.list) = Range(b.list) \cup mine
      /\ Open(x) = Open(b) \cup mine /\ AmountsKept(b, x)
      /\ \A ref \in mine : AmountOf(x, ref) = k
      /\ \A q \in DOMAIN b.credit :
            x.credit[q] = IF IsPayee(n, d) /\ q = Prev(n, d) THEN Allocated(b.credit[q], k)
                          ELSE b.credit[q]
  <2>1. CASE IsPayee(n, d)
    <3> DEFINE z == Waiting(NewReceiver(b, r, Prev(n, d), k), r)
    <3>1. /\ More(n, r, k, b, z) /\ Explained(n, z, left[n]) /\ OthersKept(b, z, Prev(n, d))
          /\ Prev(n, d) \in DOMAIN b.credit =>
                z.credit[Prev(n, d)] = Allocated(b.credit[Prev(n, d)], k)
      BY <1>1, <1>2, <1>3, <1>4, <1>5, <2>1, ReceiverMade
    <3> HIDE DEF z
    <3>2. /\ SoundBook(n, z) /\ SameLines(b, z) /\ z.stored = b.stored
          /\ Range(z.list) = Range(b.list) \cup {r}
          /\ Open(z) = Open(b) \cup {r} /\ AmountsKept(b, z) /\ AmountOf(z, r) = k
      BY <3>1 DEF More
    <3>3. \A q \in DOMAIN b.credit :
             z.credit[q] = IF q = Prev(n, d) THEN Allocated(b.credit[q], k) ELSE b.credit[q]
      BY <3>1 DEF OthersKept
    <3>4. x = z /\ mine = {r}
      BY <2>1 DEF z
    <3> HIDE DEF x, mine
    <3> QED
      BY <2>1, <3>1, <3>2, <3>3, <3>4
  <2>2. CASE ~IsPayee(n, d)
    <3>1. x = b /\ mine = {}
      BY <2>2
    <3> HIDE DEF x, mine
    <3> QED
      BY <1>2, <2>2, <3>1 DEF SameLines, AmountsKept
  <2> QED
    BY <2>1, <2>2
<1> HIDE DEF x
<1>9. SoundBook(n, c) /\ Explained(n, c, left[n]) /\ Makes(n, d, k, b, c)
  <2>1. CASE IsPayer(n, d)
    <3> DEFINE z == Waiting(NewSender(x, s, Following(n, d), k), s)
    <3>1. s \notin Open(x)
      BY <1>3, <1>4, <1>8
    <3>2. More(n, s, k, x, z) /\ z.credit = x.credit
      BY <1>1, <1>4, <1>5, <1>8, <2>1, <3>1, SenderMade
    <3> HIDE DEF z
    <3>3. \A p : Reserved(n, z, p) = Reserved(n, x, p)
      <4>1. \A p : Share(n, s, k, p) = 0
        BY <1>4 DEF Share
      <4>2. \A p : Reserved(n, x, p) \in Nat
        BY <1>8, ReservedType
      <4> QED
        BY <3>2, <4>1, <4>2 DEF More
    <3>4. Explained(n, z, left[n])
      BY <1>8, <3>2, <3>3 DEF Explained
    <3>5. /\ SoundBook(n, z) /\ SameLines(x, z) /\ z.stored = x.stored
          /\ Range(z.list) = Range(x.list) \cup {s}
          /\ Open(z) = Open(x) \cup {s} /\ AmountsKept(x, z) /\ AmountOf(z, s) = k
      BY <3>2 DEF More
    <3>6. Refs(n, d) = mine \cup {s}
      BY <1>7, <2>1
    <3> HIDE DEF mine
    <3>7. SameLines(b, z)
      BY <1>8, <3>5 DEF SameLines
    <3>8. AmountsKept(b, z) /\ \A ref \in mine : AmountOf(z, ref) = k
      BY <1>8, <3>5 DEF AmountsKept
    <3>9. Makes(n, d, k, b, z)
      BY <1>8, <3>2, <3>5, <3>6, <3>7, <3>8 DEF Makes
    <3>10. c = z
      BY <2>1 DEF z
    <3> QED
      BY <3>4, <3>5, <3>9, <3>10
  <2>2. CASE ~IsPayer(n, d)
    <3>1. c = x /\ Refs(n, d) = mine
      BY <1>7, <2>2
    <3> HIDE DEF c, mine
    <3> QED
      BY <1>8, <3>1 DEF Makes
  <2> QED
    BY <2>1, <2>2
<1> HIDE DEF c
<1> QED
  BY <1>6, <1>9 DEF b, k, Makes

\* What becomes of all books when d is agreed on.
LEMMA AgreeOutcome ==
    ASSUME IInv, NEW d \in Deals, Agree(d), NEW n \in Nodes
    PROVE  /\ Makes(n, d, Agreed(d), books[n], books'[n])
           /\ SoundBook(n, books'[n]) /\ Explained(n, books'[n], left[n])
           /\ ~up[n] => books'[n].list = <<>>
<1>1. /\ ~Contains(agreed, d) /\ \A m \in Range(Route[d]) : up[m]
      /\ \A m \in Nodes : IsPayee(m, d) => CanReceive(books[m], Prev(m, d))
      /\ books' = [m \in Nodes |-> IF On(m, d) THEN WithContracts(m, d) ELSE books[m]]
  BY DEF Agree
<1>2. CASE On(n, d)
  <2>1. up[n] /\ books'[n] = WithContracts(n, d)
    BY <1>1, <1>2 DEF On
  <2> QED
    BY <1>1, <2>1, ContractsMade
<1>3. CASE ~On(n, d)
  <2>1. books'[n] = books[n]
    BY <1>1, <1>3
  <2>2. ~IsPayer(n, d) /\ ~IsPayee(n, d) /\ Refs(n, d) = {}
    BY <1>3 DEF Refs, IsPayer, IsPayee
  <2>3. PICK b : b = books[n]
    OBVIOUS
  <2>4. Makes(n, d, Agreed(d), b, b)
    BY <2>2 DEF Makes, SameLines, AmountsKept
  <2> QED
    BY <2>1, <2>3, <2>4, NodeFacts
<1> QED
  BY <1>2, <1>3

\* All nodes of a route have their contracts, none of which was there before.
LEMMA AgreeOK ==
    ASSUME IInv, NEW d \in Deals, Agree(d)
    PROVE  IInv'
<1>1. /\ ~Contains(agreed, d) /\ \A n \in Range(Route[d]) : up[n]
      /\ \A n \in Nodes : IsPayee(n, d) => CanReceive(books[n], Prev(n, d))
      /\ books' = [n \in Nodes |-> IF On(n, d) THEN WithContracts(n, d) ELSE books[n]]
      /\ agreed' = Append(agreed, d)
      /\ UNCHANGED <<up, online, net, untold, mishaps, btc, payments, paid, left,
                     broken>>
  BY DEF Agree
<1>2. /\ agreed' \in Seq(Deals) /\ Range(agreed') = Range(agreed) \cup {d}
      /\ IsInjective(agreed')
  <2>1. d \notin Range(agreed)
    BY <1>1, NewDeal
  <2>2. agreed \in Seq(Deals) /\ IsInjective(agreed)
    BY DEF IInv, World
  <2> QED
    BY <1>1, <2>1, <2>2, AppendFacts
<1>3. Range(agreed)' = Range(agreed) \cup {d}
  BY <1>2 DEF Range
<1>4. ASSUME NEW n \in Nodes
      PROVE  /\ SoundBook(n, books'[n]) /\ SameLines(books[n], books'[n])
             /\ Explained(n, books'[n], left[n])
             /\ Open(books'[n]) \subseteq
                    Open(books[n]) \cup {Ref(d, "sender"), Ref(d, "receiver")}
             /\ ~up[n] => books'[n].list = <<>>
  <2>1. Refs(n, d) \subseteq {Ref(d, "sender"), Ref(d, "receiver")}
    BY DEF Refs
  <2> QED
    BY <2>1, AgreeOutcome DEF Makes
<1>5. ASSUME NEW n \in Nodes
      PROVE  NodeOK(n)'
  <2>1. /\ paid[n] \in [AllRefs -> Nat] /\ \A ref \in AllRefs : paid[n][ref] <= 1
        /\ left[n] \in [Nodes -> Int] /\ PaidIsGone(books[n], paid[n])
    BY DEF IInv, NodeOK, DeskOK, Desk
  <2>2. PaidIsGone(books[n], paid[n])'
    <3>1. \A ref \in Open(books'[n]) : ref.tx \in Range(agreed) \cup {d}
      BY <1>4, <2>1 DEF PaidIsGone, Ref
    <3>2. \A ref \in AllRefs : paid[n][ref] > 0 =>
              ref.tx \in Range(agreed) /\ ref \notin Open(books'[n])
      <4>1. d \notin Range(agreed)
        BY <1>1, NewDeal
      <4> QED
        BY <1>4, <2>1, <4>1 DEF PaidIsGone, Ref
    <3>3. paid'[n] = paid[n]
      BY <1>1
    <3> QED
      BY <1>3, <3>1, <3>2, <3>3 DEF PaidIsGone
  <2>3. paid'[n] = paid[n] /\ left'[n] = left[n] /\ up'[n] = up[n]
    BY <1>1
  <2>4. DeskOK(n, Desk(n))'
    BY <1>4, <2>1, <2>2, <2>3 DEF DeskOK, Desk
  <2> QED
    BY <1>4, <2>3, <2>4 DEF NodeOK
<1>6. LinesAreTold'
  BY <1>1, <1>4, LinesStay DEF IInv
<1>7. World'
  BY <1>1, <1>2 DEF IInv, World
<1> QED
  BY <1>5, <1>6, <1>7 DEF IInv

-----------------------------------------------------------------------------
(* The lines.                                                              *)

\* What LinesAreTold says of n and p.
PairTold(n, p) ==
    <<n, p>> \notin untold =>
        /\ p \in DOMAIN books[n].credit
        /\ <<n, p>> \in online => Told(n, p) = books[n].credit[p].credit
Between(a, b, n, p) == (n = a /\ p = b) \/ (n = b /\ p = a)

\* A step between a and b, which writes a's row for b at most, is nothing to
\* other friends.
LEMMA OtherPairs ==
    ASSUME IInv, NEW a \in Nodes, NEW b \in Friends[a], NEW w,
           OthersKept(books[a], w, b), books'[a] = w,
           \A m \in Nodes : m # a => books'[m] = books[m],
           \A n, p \in Nodes : ~Between(a, b, n, p) =>
               /\ net'[n][p] = net[n][p]
               /\ <<n, p>> \in untold => <<n, p>> \in untold'
               /\ <<n, p>> \in online' => <<n, p>> \in online,
           NEW n \in Nodes, NEW p \in Friends[n], ~Between(a, b, n, p)
    PROVE  PairTold(n, p)'
<1>1. p \in Nodes /\ p # n /\ a # b
  BY FriendsAssumption
<1>3. PairTold(n, p)
  BY DEF IInv, LinesAreTold, PairTold
<1>4. p \in DOMAIN books[n].credit =>
          p \in DOMAIN books'[n].credit /\ books'[n].credit[p] = books[n].credit[p]
  BY <1>1 DEF OthersKept, Between
<1>5. Load(books'[p], n) = Load(books[p], n)
  BY <1>1 DEF OthersKept, Between, Load
<1>6. /\ net'[n][p] = net[n][p]
      /\ <<n, p>> \in untold => <<n, p>> \in untold'
      /\ <<n, p>> \in online' => <<n, p>> \in online
  BY <1>1
<1>7. Told(n, p)' = Told(n, p)
  BY <1>5, <1>6 DEF Told
<1> QED
  BY <1>3, <1>4, <1>6, <1>7 DEF PairTold

\* The books account for the allocations, whatever is written of lines.
LEMMA LineNodes ==
    ASSUME IInv, \A m \in Nodes : LinesOnly(m, books[m], books'[m]),
           left' = [n \in Nodes |-> [p \in Nodes |->
               IF p \in DOMAIN books'[n].credit \ DOMAIN books[n].credit
               THEN -Worth(books[n], ReceiversFrom(n, books[n], p)) ELSE left[n][p]]],
           UNCHANGED <<up, agreed, paid>>
    PROVE  \A n \in Nodes : NodeOK(n)'
<1> SUFFICES ASSUME NEW n \in Nodes
             PROVE  NodeOK(n)'
  OBVIOUS
<1>1. /\ SoundBook(n, books'[n]) /\ books'[n].list = books[n].list
      /\ Open(books'[n]) = Open(books[n])
      /\ \A p : Reserved(n, books'[n], p) = Reserved(n, books[n], p)
      /\ \A p \in DOMAIN books'[n].credit :
            books'[n].credit[p].allocation =
                IF p \in DOMAIN books[n].credit THEN books[n].credit[p].allocation ELSE 0
  BY DEF LinesOnly
<1>2. /\ paid[n] \in [AllRefs -> Nat] /\ \A ref \in AllRefs : paid[n][ref] <= 1
      /\ left[n] \in [Nodes -> Int] /\ PaidIsGone(books[n], paid[n])
      /\ SoundBook(n, books[n]) /\ Explained(n, books[n], left[n])
      /\ ~up[n] => books[n].list = <<>>
  BY DEF IInv, NodeOK, DeskOK, Desk
<1>3. \A p : Reserved(n, books[n], p) \in Nat
  BY <1>2, ReservedType
<1>4. /\ left'[n] \in [Nodes -> Int]
      /\ \A p \in Nodes : left'[n][p] =
            IF p \in DOMAIN books'[n].credit \ DOMAIN books[n].credit
            THEN -Reserved(n, books[n], p) ELSE left[n][p]
  BY <1>2, <1>3 DEF Reserved
<1>5. Explained(n, books'[n], left'[n])
  <2> SUFFICES ASSUME NEW p \in DOMAIN books'[n].credit
               PROVE  books'[n].credit[p].allocation =
                          Reserved(n, books'[n], p) + left'[n][p]
    BY DEF Explained
  <2>1. p \in Nodes
    BY <1>1, FriendsAssumption DEF SoundBook, IsBook
  <2>2. CASE p \in DOMAIN books[n].credit
    BY <1>1, <1>2, <1>4, <2>1, <2>2 DEF Explained
  <2>3. CASE p \notin DOMAIN books[n].credit
    BY <1>1, <1>3, <1>4, <2>1, <2>3
  <2> QED
    BY <2>2, <2>3
<1>6. PaidIsGone(books[n], paid[n])'
  BY <1>1, <1>2 DEF PaidIsGone
<1>7. paid'[n] = paid[n] /\ up'[n] = up[n]
  OBVIOUS
<1>8. DeskOK(n, Desk(n))'
  BY <1>1, <1>2, <1>4, <1>5, <1>6, <1>7 DEF DeskOK, Desk
<1> QED
  BY <1>1, <1>2, <1>7, <1>8 DEF NodeOK

Item == [our_credit : Int, balance : Int]

\* What is known of the items under way from a to b, and of those behind the
\* first.
LEMMA QueueFacts ==
    ASSUME IInv, NEW a \in Nodes, NEW b \in Nodes
    PROVE  /\ net[a][b] \in Seq(Item) /\ Len(net[a][b]) \in Nat
           /\ \A q \in Seq(Item) : [net EXCEPT ![a][b] = q] \in [Nodes -> [Nodes -> Seq(Item)]]
           /\ net[a][b] # <<>> =>
                 /\ Head(net[a][b]).our_credit \in Int
                 /\ Tail(net[a][b]) \in Seq(Item)
                 /\ Tail(net[a][b]) = <<>> => Len(net[a][b]) = 1
                 /\ Tail(net[a][b]) # <<>> =>
                       Tail(net[a][b])[Len(Tail(net[a][b]))] = net[a][b][Len(net[a][b])]
<1>1. net \in [Nodes -> [Nodes -> Seq(Item)]]
  BY DEF IInv, World, Item
<1> DEFINE q == net[a][b]
<1>2. q \in Seq(Item) /\ Len(q) \in Nat
  BY <1>1
<1>3. \A x \in Seq(Item) : [net EXCEPT ![a][b] = x] \in [Nodes -> [Nodes -> Seq(Item)]]
  BY <1>1
<1> HIDE DEF q
<1>4. ASSUME q # <<>>
      PROVE  /\ Head(q).our_credit \in Int
             /\ Tail(q) \in Seq(Item)
             /\ Tail(q) = <<>> => Len(q) = 1
             /\ Tail(q) # <<>> => Tail(q)[Len(Tail(q))] = q[Len(q)]
  <2>1. Head(q) \in Item /\ Tail(q) \in Seq(Item) /\ Len(q) > 0 /\ Len(Tail(q)) = Len(q) - 1
    BY <1>2, <1>4
  <2>2. Tail(q) = <<>> => Len(q) = 1
    BY <1>2, <2>1
  <2>3. Tail(q) # <<>> => Tail(q)[Len(Tail(q))] = q[Len(q)]
    BY <1>2, <2>1
  <2> QED
    BY <2>1, <2>2, <2>3 DEF Item
<1> QED
  BY <1>2, <1>3, <1>4 DEF q

\* A step of the lines.
LineMoves ==
    /\ DOMAIN books' = Nodes /\ \A m \in Nodes : LinesOnly(m, books[m], books'[m])
    /\ LinesAreTold' /\ up' = up
    /\ \A pair \in online' : /\ pair \in Nodes \X Nodes
                             /\ pair[2] \in Friends[pair[1]]
                             /\ up[pair[1]] /\ up[pair[2]]
    /\ net' \in [Nodes -> [Nodes -> Seq(Item)]] /\ mishaps' \in 0..MaxMishaps

\* One node's book is written.
LEMMA OneBook ==
    ASSUME IInv, NEW a \in Nodes, NEW w, LinesOnly(a, books[a], w),
           books' = [books EXCEPT ![a] = w]
    PROVE  /\ DOMAIN books' = Nodes /\ books'[a] = w
           /\ \A m \in Nodes : m # a => books'[m] = books[m]
           /\ \A m \in Nodes : LinesOnly(m, books[m], books'[m])
<1>1. /\ DOMAIN books' = Nodes /\ books'[a] = w
      /\ \A m \in Nodes : m # a => books'[m] = books[m]
  BY DEF IInv, World
<1>2. \A m \in Nodes : LinesOnly(m, books[m], books[m])
  BY NodeFacts DEF LinesOnly
<1> QED
  BY <1>1, <1>2

\* A book that stays.
LEMMA SameBook ==
    ASSUME IInv, NEW a \in Nodes, NEW b
    PROVE  LinesOnly(a, books[a], books[a]) /\ OthersKept(books[a], books[a], b)
BY NodeFacts DEF LinesOnly, OthersKept

\* RetroShare reports a friend: it is sent what there is on it.
LEMMA StatusChangeOK ==
    ASSUME IInv, NEW a \in Nodes, NEW b \in Friends[a], StatusChange(a, b)
    PROVE  LineMoves
<1> DEFINE q == net[a][b]
           g == Greeting(a, b)
<1>1. /\ up[a] /\ up[b] /\ online' = online \cup {<<a, b>>}
      /\ net' = [net EXCEPT ![a][b] = q \o g]
      /\ untold' = IF b \in DOMAIN books[a].credit THEN untold \ {<<a, b>>} ELSE untold
      /\ UNCHANGED <<books, up, mishaps>>
  BY DEF StatusChange
<1>2. b \in Nodes /\ a # b /\ a \in Friends[b]
  BY FriendsAssumption
<1>3. q \in Seq(Item) /\ g \in Seq(Item) /\ net \in [Nodes -> [Nodes -> Seq(Item)]]
  <2>1. SoundBook(a, books[a])
    BY NodeFacts
  <2>2. \A p \in DOMAIN books[a].credit : CreditItem(books[a].credit[p]) \in Item
    BY <2>1 DEF SoundBook, IsBook, CreditRecord, CreditItem, Item
  <2>3. g \in Seq(Item)
    BY <2>2 DEF Greeting
  <2> QED
    BY <1>2, <2>3, QueueFacts DEF IInv, World, Item
<1>4. b \in DOMAIN books[a].credit =>
          q \o g # <<>> /\ (q \o g)[Len(q \o g)].our_credit = books[a].credit[b].credit
  <2> SUFFICES ASSUME b \in DOMAIN books[a].credit
               PROVE  /\ q \o g # <<>>
                      /\ (q \o g)[Len(q \o g)].our_credit = books[a].credit[b].credit
    OBVIOUS
  <2> DEFINE item == CreditItem(books[a].credit[b])
  <2>1. g = <<item>>
    BY DEF Greeting
  <2>2. item.our_credit = books[a].credit[b].credit
    BY DEF CreditItem
  <2>3. item \in Item
    BY <1>3, <2>1
  <2> HIDE DEF q, g, item
  <2> QED
    BY <1>3, <2>1, <2>2, <2>3, JoinedFacts
<1> HIDE DEF g
<1>5. /\ net' \in [Nodes -> [Nodes -> Seq(Item)]] /\ net'[a][b] = q \o g
      /\ \A n, p \in Nodes : ~(n = a /\ p = b) => net'[n][p] = net[n][p]
  <2>1. q \o g \in Seq(Item)
    BY <1>3
  <2> QED
    BY <1>1, <1>2, <1>3, <2>1
<1>6. PairTold(a, b)'
  <2> SUFFICES ASSUME <<a, b>> \notin untold'
               PROVE  b \in DOMAIN books[a].credit /\ Told(a, b)' = books[a].credit[b].credit
    BY <1>1 DEF PairTold
  <2>1. b \in DOMAIN books[a].credit
    BY <1>1 DEF IInv, LinesAreTold
  <2> QED
    BY <1>4, <1>5, <2>1 DEF Told
<1>7. PairTold(b, a)'
  <2>1. PairTold(b, a)
    BY <1>2 DEF IInv, LinesAreTold, PairTold
  <2>2. net'[b][a] = net[b][a] /\ (<<b, a>> \in untold <=> <<b, a>> \in untold')
    BY <1>1, <1>2, <1>5
  <2>3. <<b, a>> \in online' => <<b, a>> \in online
    BY <1>1, <1>2
  <2> QED
    BY <1>1, <2>1, <2>2, <2>3 DEF PairTold, Told
<1>8. ASSUME NEW n \in Nodes, NEW p \in Friends[n], ~Between(a, b, n, p)
      PROVE  PairTold(n, p)'
  <2>1. \A x, y \in Nodes : ~Between(a, b, x, y) =>
            /\ net'[x][y] = net[x][y]
            /\ <<x, y>> \in untold => <<x, y>> \in untold'
            /\ <<x, y>> \in online' => <<x, y>> \in online
    BY <1>1, <1>5 DEF Between
  <2>2. OthersKept(books[a], books[a], b) /\ \A m \in Nodes : books'[m] = books[m]
    BY <1>1, SameBook
  <2> QED
    BY <1>8, <2>1, <2>2, OtherPairs
<1>9. LinesAreTold'
  BY <1>6, <1>7, <1>8 DEF LinesAreTold, PairTold, Between
<1>10. DOMAIN books' = Nodes /\ \A m \in Nodes : LinesOnly(m, books[m], books'[m])
  BY <1>1, SameBook DEF IInv, World
<1>11. \A pair \in online' : /\ pair \in Nodes \X Nodes
                             /\ pair[2] \in Friends[pair[1]]
                             /\ up[pair[1]] /\ up[pair[2]]
  BY <1>1, <1>2 DEF IInv, World
<1> QED
  BY <1>1, <1>5, <1>9, <1>10, <1>11 DEF LineMoves, IInv, World

\* A connection breaks.
LEMMA DisconnectOK ==
    ASSUME IInv, NEW a \in Nodes, NEW b \in Friends[a], Disconnect(a, b)
    PROVE  LineMoves
<1>1. /\ online' = online \ {<<a, b>>, <<b, a>>} /\ Interfere
      /\ net' = [net EXCEPT ![a][b] = <<>>, ![b][a] = <<>>]
      /\ UNCHANGED <<books, up, untold>>
  BY DEF Disconnect
<1>2. b \in Nodes /\ a # b /\ a \in Friends[b]
  BY FriendsAssumption
<1>3. /\ net' \in [Nodes -> [Nodes -> Seq(Item)]]
      /\ \A n, p \in Nodes : ~Between(a, b, n, p) => net'[n][p] = net[n][p]
  <2>1. net \in [Nodes -> [Nodes -> Seq(Item)]]
    BY DEF IInv, World, Item
  <2> DEFINE nil == <<>>
  <2>2. nil \in Seq(Item) /\ net' = [net EXCEPT ![a][b] = nil, ![b][a] = nil]
    BY <1>1
  <2> HIDE DEF nil
  <2> QED
    BY <1>2, <2>1, <2>2 DEF Between
<1>4. PairTold(a, b)' /\ PairTold(b, a)'
  BY <1>1, <1>2 DEF IInv, LinesAreTold, PairTold
<1>5. ASSUME NEW n \in Nodes, NEW p \in Friends[n], ~Between(a, b, n, p)
      PROVE  PairTold(n, p)'
  <2>1. \A x, y \in Nodes : ~Between(a, b, x, y) =>
            /\ net'[x][y] = net[x][y]
            /\ <<x, y>> \in untold => <<x, y>> \in untold'
            /\ <<x, y>> \in online' => <<x, y>> \in online
    BY <1>1, <1>3
  <2>2. OthersKept(books[a], books[a], b) /\ \A m \in Nodes : books'[m] = books[m]
    BY <1>1, SameBook
  <2> QED
    BY <1>5, <2>1, <2>2, OtherPairs
<1>6. LinesAreTold'
  BY <1>4, <1>5 DEF LinesAreTold, PairTold, Between
<1>7. DOMAIN books' = Nodes /\ \A m \in Nodes : LinesOnly(m, books[m], books'[m])
  BY <1>1, SameBook DEF IInv, World
<1>8. \A pair \in online' : /\ pair \in Nodes \X Nodes
                            /\ pair[2] \in Friends[pair[1]]
                            /\ up[pair[1]] /\ up[pair[2]]
  BY <1>1 DEF IInv, World
<1> QED
  BY <1>1, <1>3, <1>6, <1>7, <1>8, InterfereFacts DEF LineMoves

\* A user gives a friend a new line.
LEMMA EditFriendOK ==
    ASSUME IInv, NEW a \in Nodes, NEW b \in Friends[a], NEW line \in Lines,
           EditFriend(a, b, line)
    PROVE  LineMoves
<1> DEFINE old == Load(books[a], b)
           c == [old EXCEPT !.credit = line]
           q == net[a][b]
           posted == Post(a, b, q, c)
<1>1. PICK w \in Writes(books[a], b, c) :
          /\ books' = [books EXCEPT ![a] = w]
          /\ net' = [net EXCEPT ![a][b] = posted]
          /\ untold' = IF b \in DOMAIN w.credit /\ Load(w, b) = c
                       THEN untold \ {<<a, b>>} ELSE untold \cup {<<a, b>>}
  BY DEF EditFriend
<1>2. up[a] /\ Interfere /\ UNCHANGED <<up, online>>
  BY DEF EditFriend
<1>3. b \in Nodes /\ a # b /\ a \in Friends[b] /\ line \in Int
  BY FriendsAssumption
<1>4. SoundBook(a, books[a]) /\ old \in CreditRecord
  BY NodeFacts, LoadType
<1>5. /\ c \in CreditRecord /\ c.credit = line /\ c.our_credit = old.our_credit
      /\ c.allocation = old.allocation
  <2> HIDE DEF old
  <2> QED
    BY <1>3, <1>4 DEF CreditRecord
<1>6. CreditItem(c) \in Item /\ CreditItem(c).our_credit = line
  BY <1>5 DEF CreditItem, Item, CreditRecord
<1> HIDE DEF c
<1>7. /\ LinesOnly(a, books[a], w) /\ OthersKept(books[a], w, b)
      /\ Load(w, b) \in {c, old} /\ DOMAIN books[a].credit \subseteq DOMAIN w.credit
  BY <1>4, <1>5, LineWritten
<1>8. /\ DOMAIN books' = Nodes /\ books'[a] = w
      /\ \A m \in Nodes : m # a => books'[m] = books[m]
      /\ \A m \in Nodes : LinesOnly(m, books[m], books'[m])
  BY <1>1, <1>7, OneBook
<1>9. /\ q \in Seq(Item) /\ posted \in Seq(Item)
      /\ <<a, b>> \in online => posted # <<>> /\ posted[Len(posted)].our_credit = line
  <2> DEFINE item == CreditItem(c)
  <2>1. q \in Seq(Item)
    BY <1>3, QueueFacts
  <2> HIDE DEF q
  <2>2. posted = IF <<a, b>> \in online THEN Append(q, item) ELSE q
    BY DEF Post
  <2>3. item \in Item /\ item.our_credit = line
    BY <1>6
  <2> HIDE DEF item, posted
  <2>4. Append(q, item) \in Seq(Item) /\ Append(q, item) # <<>>
        /\ Append(q, item)[Len(Append(q, item))] = item
    BY <2>1, <2>3
  <2> QED
    BY <2>1, <2>2, <2>3, <2>4 DEF q
<1> HIDE DEF posted
<1>10. /\ net' \in [Nodes -> [Nodes -> Seq(Item)]] /\ net'[a][b] = posted
       /\ \A n, p \in Nodes : ~(n = a /\ p = b) => net'[n][p] = net[n][p]
  <2>1. net \in [Nodes -> [Nodes -> Seq(Item)]]
    BY DEF IInv, World, Item
  <2> QED
    BY <1>1, <1>3, <1>9, <2>1
<1>11. PairTold(a, b)'
  <2> SUFFICES ASSUME <<a, b>> \notin untold'
               PROVE  /\ b \in DOMAIN w.credit
                      /\ <<a, b>> \in online => Told(a, b)' = w.credit[b].credit
    BY <1>2, <1>8 DEF PairTold
  <2>1. b \in DOMAIN w.credit /\ Load(w, b) = c
    BY <1>1
  <2>2. w.credit[b].credit = line
    BY <1>5, <2>1 DEF Load
  <2>3. <<a, b>> \in online => Told(a, b)' = line
    BY <1>9, <1>10 DEF Told
  <2> QED
    BY <2>1, <2>2, <2>3
<1>12. PairTold(b, a)'
  <2>1. PairTold(b, a)
    BY <1>3 DEF IInv, LinesAreTold, PairTold
  <2>2. /\ net'[b][a] = net[b][a] /\ (<<b, a>> \in untold <=> <<b, a>> \in untold')
        /\ books'[b] = books[b]
    BY <1>1, <1>3, <1>8, <1>10
  <2>3. Load(books'[a], b).our_credit = Load(books[a], b).our_credit
    BY <1>5, <1>7, <1>8
  <2>4. Told(b, a)' = Told(b, a)
    BY <2>2, <2>3 DEF Told
  <2> QED
    BY <1>2, <2>1, <2>2, <2>4 DEF PairTold
<1>13. ASSUME NEW n \in Nodes, NEW p \in Friends[n], ~Between(a, b, n, p)
       PROVE  PairTold(n, p)'
  <2>1. \A x, y \in Nodes : ~Between(a, b, x, y) =>
            /\ net'[x][y] = net[x][y]
            /\ <<x, y>> \in untold => <<x, y>> \in untold'
            /\ <<x, y>> \in online' => <<x, y>> \in online
    BY <1>1, <1>2, <1>10 DEF Between
  <2> QED
    BY <1>7, <1>8, <1>13, <2>1, OtherPairs
<1>14. LinesAreTold'
  BY <1>11, <1>12, <1>13 DEF LinesAreTold, PairTold, Between
<1>15. \A pair \in online' : /\ pair \in Nodes \X Nodes
                             /\ pair[2] \in Friends[pair[1]]
                             /\ up[pair[1]] /\ up[pair[2]]
  BY <1>2 DEF IInv, World
<1> QED
  BY <1>2, <1>8, <1>10, <1>14, <1>15, InterfereFacts DEF LineMoves

\* A user forgets a friend's row.
LEMMA ResetFriendOK ==
    ASSUME IInv, NEW a \in Nodes, NEW b \in Friends[a], ResetFriend(a, b)
    PROVE  LineMoves
<1> DEFINE w == [books[a] EXCEPT !.credit =
                    [q \in DOMAIN books[a].credit \ {b} |-> books[a].credit[q]]]
<1>1. /\ Interfere /\ untold' = untold \cup {<<a, b>>, <<b, a>>}
      /\ UNCHANGED <<up, online, net>>
  BY DEF ResetFriend
<1>2. books' = [books EXCEPT ![a] = w]
  BY DEF ResetFriend
<1>3. LinesOnly(a, books[a], w) /\ OthersKept(books[a], w, b)
  <2>1. SoundBook(a, books[a])
    BY NodeFacts
  <2>2. w = [books[a] EXCEPT !.credit =
                    [q \in DOMAIN books[a].credit \ {b} |-> books[a].credit[q]]]
    OBVIOUS
  <2> HIDE DEF w
  <2> QED
    BY <2>1, <2>2, RowRemoved
<1> HIDE DEF w
<1>4. /\ DOMAIN books' = Nodes /\ books'[a] = w
      /\ \A m \in Nodes : m # a => books'[m] = books[m]
      /\ \A m \in Nodes : LinesOnly(m, books[m], books'[m])
  BY <1>2, <1>3, OneBook
<1>5. PairTold(a, b)' /\ PairTold(b, a)'
  BY <1>1 DEF PairTold
<1>6. ASSUME NEW n \in Nodes, NEW p \in Friends[n], ~Between(a, b, n, p)
      PROVE  PairTold(n, p)'
  <2>1. \A x, y \in Nodes : ~Between(a, b, x, y) =>
            /\ net'[x][y] = net[x][y]
            /\ <<x, y>> \in untold => <<x, y>> \in untold'
            /\ <<x, y>> \in online' => <<x, y>> \in online
    BY <1>1
  <2> QED
    BY <1>3, <1>4, <1>6, <2>1, OtherPairs
<1>7. LinesAreTold'
  BY <1>5, <1>6 DEF LinesAreTold, PairTold, Between
<1>8. /\ \A pair \in online' : /\ pair \in Nodes \X Nodes
                               /\ pair[2] \in Friends[pair[1]]
                               /\ up[pair[1]] /\ up[pair[2]]
      /\ net' \in [Nodes -> [Nodes -> Seq(Item)]]
  BY <1>1 DEF IInv, World, Item
<1> QED
  BY <1>1, <1>4, <1>7, <1>8, InterfereFacts DEF LineMoves

\* A node reads what its friend told it: the book, or the mark that the
\* friend's line stays untold, has what the item said.
LEMMA HandleCreditOK ==
    ASSUME IInv, NEW a \in Nodes, NEW b \in Friends[a], HandleCredit(a, b)
    PROVE  LineMoves
<1> DEFINE old == Load(books[a], b)
           q == net[b][a]
           told == Head(q).our_credit
           c == [old EXCEPT !.our_credit = told]
<1>1. /\ q # <<>> /\ net' = [net EXCEPT ![b][a] = Tail(q)]
      /\ UNCHANGED <<up, online, mishaps>>
  BY DEF HandleCredit
<1>2. PICK w :
          /\ w = books[a] \/ w \in Writes(books[a], b, c)
          /\ books'[a] = w /\ DOMAIN books' = Nodes
          /\ \A m \in Nodes : m # a => books'[m] = books[m]
          /\ <<b, a>> \notin untold' => Load(w, b) = c
          /\ untold' \in {untold, untold \cup {<<b, a>>}}
  <2>1. DOMAIN books = Nodes
    BY DEF IInv, World
  <2>2. CASE c = old
    <3>1. UNCHANGED <<books, untold>>
      BY <2>2 DEF HandleCredit
    <3> QED
      BY <2>1, <2>2, <3>1
  <2>3. CASE c # old
    <3>1. PICK w \in Writes(books[a], b, c) :
             /\ books' = [books EXCEPT ![a] = w]
             /\ untold' = IF Load(w, b) = c THEN untold ELSE untold \cup {<<b, a>>}
      BY <2>3 DEF HandleCredit
    <3> HIDE DEF c
    <3> QED
      BY <2>1, <3>1
  <2> QED
    BY <2>2, <2>3
<1>3. b \in Nodes /\ a # b /\ a \in Friends[b]
  BY FriendsAssumption
<1>4. SoundBook(a, books[a]) /\ old \in CreditRecord
  BY NodeFacts, LoadType
<1>5. /\ told \in Int /\ Tail(q) \in Seq(Item)
      /\ Tail(q) = <<>> => Len(q) = 1
      /\ Tail(q) # <<>> => Tail(q)[Len(Tail(q))] = q[Len(q)]
  BY <1>1, <1>3, QueueFacts
<1>6. /\ c \in CreditRecord /\ c.credit = old.credit /\ c.our_credit = told
      /\ c.allocation = old.allocation
  <2> HIDE DEF old, told
  <2> QED
    BY <1>4, <1>5 DEF CreditRecord
<1>7. Told(b, a) = IF Len(q) = 1 THEN told ELSE q[Len(q)].our_credit
  BY <1>1 DEF Told
<1> HIDE DEF c, told
<1>8. /\ LinesOnly(a, books[a], w) /\ OthersKept(books[a], w, b)
      /\ Load(w, b) \in {c, old} /\ DOMAIN books[a].credit \subseteq DOMAIN w.credit
  <2>1. CASE w = books[a]
    BY <2>1, SameBook
  <2>2. CASE w \in Writes(books[a], b, c)
    BY <1>4, <1>6, <2>2, LineWritten
  <2> QED
    BY <1>2, <2>1, <2>2
<1>9. \A m \in Nodes : LinesOnly(m, books[m], books'[m])
  BY <1>2, <1>8, SameBook
<1>10. /\ net' \in [Nodes -> [Nodes -> Seq(Item)]] /\ net'[b][a] = Tail(q)
       /\ \A n, p \in Nodes : ~(n = b /\ p = a) => net'[n][p] = net[n][p]
  <2>1. net \in [Nodes -> [Nodes -> Seq(Item)]]
    BY DEF IInv, World, Item
  <2> QED
    BY <1>1, <1>3, <1>5, <2>1
<1>11. PairTold(a, b)'
  <2>1. PairTold(a, b)
    BY <1>3 DEF IInv, LinesAreTold, PairTold
  <2>2. /\ net'[a][b] = net[a][b] /\ (<<a, b>> \in untold <=> <<a, b>> \in untold')
        /\ books'[b] = books[b]
    BY <1>2, <1>3, <1>10
  <2>3. Told(a, b)' = Told(a, b)
    BY <2>2 DEF Told
  <2>4. b \in DOMAIN books[a].credit => b \in DOMAIN w.credit /\ w.credit[b].credit = books[a].credit[b].credit
    BY <1>6, <1>8 DEF Load
  <2> QED
    BY <1>1, <1>2, <2>1, <2>2, <2>3, <2>4 DEF PairTold
<1>12. PairTold(b, a)'
  <2> SUFFICES ASSUME <<b, a>> \notin untold'
               PROVE  /\ a \in DOMAIN books[b].credit
                      /\ <<b, a>> \in online => Told(b, a)' = books[b].credit[a].credit
    BY <1>1, <1>2, <1>3 DEF PairTold
  <2>1. /\ a \in DOMAIN books[b].credit
        /\ <<b, a>> \in online => Told(b, a) = books[b].credit[a].credit
    BY <1>2, <1>3 DEF IInv, LinesAreTold
  <2>2. Load(books'[a], b).our_credit = told
    BY <1>2, <1>6
  <2>3. Told(b, a)' = Told(b, a)
    <3>1. CASE Tail(q) = <<>>
      BY <1>5, <1>7, <1>10, <2>2, <3>1 DEF Told
    <3>2. CASE Tail(q) # <<>>
      <4>1. Told(b, a) = q[Len(q)].our_credit
        BY <1>1 DEF Told
      <4> QED
        BY <1>5, <1>10, <3>2, <4>1 DEF Told
    <3> QED
      BY <3>1, <3>2
  <2> QED
    BY <2>1, <2>3
<1>13. ASSUME NEW n \in Nodes, NEW p \in Friends[n], ~Between(a, b, n, p)
       PROVE  PairTold(n, p)'
  <2>1. \A x, y \in Nodes : ~Between(a, b, x, y) =>
            /\ net'[x][y] = net[x][y]
            /\ <<x, y>> \in untold => <<x, y>> \in untold'
            /\ <<x, y>> \in online' => <<x, y>> \in online
    BY <1>1, <1>2, <1>10 DEF Between
  <2> QED
    BY <1>2, <1>8, <1>13, <2>1, OtherPairs
<1>14. LinesAreTold'
  BY <1>11, <1>12, <1>13 DEF LinesAreTold, PairTold, Between
<1>15. \A pair \in online' : /\ pair \in Nodes \X Nodes
                             /\ pair[2] \in Friends[pair[1]]
                             /\ up[pair[1]] /\ up[pair[2]]
  BY <1>1 DEF IInv, World
<1>16. mishaps' \in 0..MaxMishaps
  BY <1>1 DEF IInv, World
<1> QED
  BY <1>1, <1>2, <1>9, <1>10, <1>14, <1>15, <1>16 DEF LineMoves

\* A step of the lines keeps the invariant.
LEMMA LineStepOK ==
    ASSUME IInv, LineStep
    PROVE  IInv'
<1>1. PICK a \in Nodes : \E b \in Friends[a] :
          \/ StatusChange(a, b)
          \/ Disconnect(a, b)
          \/ \E line \in Lines : EditFriend(a, b, line)
          \/ ResetFriend(a, b)
          \/ HandleCredit(a, b)
  BY DEF LineStep
<1>2. /\ left' = [m \in Nodes |-> [q \in Nodes |->
             IF q \in DOMAIN books'[m].credit \ DOMAIN books[m].credit
             THEN -Worth(books[m], ReceiversFrom(m, books[m], q)) ELSE left[m][q]]]
      /\ UNCHANGED <<agreed, btc, payments, paid>>
  BY DEF LineStep
<1>3. LineMoves
  BY <1>1, StatusChangeOK, DisconnectOK, EditFriendOK, ResetFriendOK, HandleCreditOK
<1>4. \A n \in Nodes : NodeOK(n)'
  BY <1>2, <1>3, LineNodes DEF LineMoves
<1>5. DOMAIN left' = Nodes /\ left' = [n \in Nodes |-> left'[n]]
  BY <1>2
<1>6. World'
  BY <1>2, <1>3, <1>5 DEF LineMoves, Item, IInv, World
<1> QED
  BY <1>3, <1>4, <1>6 DEF LineMoves, IInv

-----------------------------------------------------------------------------
(* The theorems.                                                           *)

\* Every step keeps the invariant.
LEMMA NextOK == IInv /\ [Next]_vars => IInv'
<1> SUFFICES ASSUME IInv, [Next]_vars
             PROVE  IInv'
  OBVIOUS
<1>1. ASSUME NEW d \in Deals, Agree(d) \/ Confirm(d)
      PROVE  IInv'
  BY <1>1, AgreeOK, ConfirmOK
<1>2. ASSUME NEW n \in Nodes, NEW d \in Deals, Commit(n, d) \/ Abandon(n, d)
      PROVE  IInv'
  BY <1>2, CommitOK, AbandonOK
<1>3. ASSUME NEW n \in Nodes, Poll(n) \/ PollBadly(n) \/ Crash(n) \/ Restart(n)
      PROVE  IInv'
  BY <1>3, PollOK, PollBadlyOK, CrashOK, RestartOK
<1>4. ASSUME NEW n \in Nodes, NEW p \in Friends[n], Pay(n, p)
      PROVE  IInv'
  BY <1>4, PayOK
<1>5. ASSUME LineStep
      PROVE  IInv'
  BY <1>5, LineStepOK
<1>6. ASSUME UNCHANGED vars
      PROVE  IInv'
  <2>1. UNCHANGED <<books, up, online, net, untold, mishaps, agreed, btc, payments,
                    paid, left, broken>>
    BY <1>6 DEF vars, lineVars
  <2>2. \A n \in Nodes : NodeOK(n)'
    BY <2>1, NodeStays DEF IInv
  <2>3. LinesAreTold' /\ World'
    BY <2>1 DEF IInv, LinesAreTold, Told, World
  <2> QED
    BY <2>2, <2>3 DEF IInv
<1> QED
  BY <1>1, <1>2, <1>3, <1>4, <1>5, <1>6 DEF Next

\* The invariant is one.
LEMMA InvariantHolds == Spec => []IInv
<1> QED
  BY InitOK, NextOK, PTL DEF Spec

\* Whatever friends, routes, amounts, polls, crashes, restarts, failing
\* writes and edited lines there are, books are sound: contracts are owned by
\* a node of the route, rows and objects match, allocations are accounted for
\* and lines are told.  All of it is kept step by step.
THEOREM AlwaysSound == Spec => []Sound
<1> QED
  BY InvariantHolds, IInvIsSound, PTL

\* What the state variables hold.
THEOREM SettlementTypes == Spec => []TypeOK
<1>1. Sound => TypeOK
  BY DEF Sound
<1> QED
  BY <1>1, AlwaysSound, PTL

\* pollContracts and loadBtcContracts: no contract moves a balance twice,
\* though any of the writes fails, the process dies in the middle of a round,
\* and rows come back as objects after a restart.
THEOREM PaidOnlyOnce == Spec => []PaidOnce
<1>1. Sound => PaidOnce
  BY DEF Sound
<1> QED
  BY <1>1, AlwaysSound, PTL

\* Credit::allocate and deallocate: what a node reserves for a friend is what
\* its open RECEIVER contracts with the friend are worth, and what contracts
\* left behind.
THEOREM AllocationsAddUp == Spec => []AllocationExplained
<1>1. Sound => AllocationExplained
  BY DEF Sound
<1> QED
  BY <1>1, AlwaysSound, PTL

\* Two connected friends between whom no item is under way agree on the line,
\* unless a reset or a failed write was never told.
THEOREM LinesAlwaysAgree == Spec => []LinesAgree
<1>1. Sound => LinesAgree
  BY DEF Sound, LinesAgree, LinesAreTold, Settled, Told, Load
<1> QED
  BY <1>1, AlwaysSound, PTL
=============================================================================
