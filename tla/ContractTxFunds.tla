--------------------------- MODULE ContractTxFunds ---------------------------
(***************************************************************************)
(* Proofs about what is sold in exchange transactions: Counted             *)
(* (ContractTxInv) is inductive together with Owed, so that state has its  *)
(* types, no part of an ask is sold twice, and what was sold of an ask and *)
(* what is left of it is what was offered.                                 *)
(***************************************************************************)
EXTENDS ContractTxProofs

LEMMA MinFacts ==
    ASSUME NEW S, S \subseteq Nat, S # {}
    PROVE  Min(S) \in S /\ \A x \in S : Min(S) <= x
<1>1. PICK m \in S : \A x \in S : ~(x < m)
  BY SmallestNat
<1>2. \A x \in S : m <= x
  BY <1>1
<1> QED
  BY <1>2 DEF Min

-----------------------------------------------------------------------------
(* Books that gain no contracts.                                           *)

Tidy(b, c) == IsOrderly(c) /\ Range(c.list) \subseteq Range(b.list)
Takings(b) == {row \in b.stored : row.party = "receiver"}

LEMMA TidyTwice ==
    ASSUME NEW b, NEW c, NEW d, Tidy(b, c), Tidy(c, d)
    PROVE  Tidy(b, d)
BY DEF Tidy

LEMMA CreditTidy ==
    ASSUME NEW b, IsBook(b), IsOrderly(b), NEW peer, NEW amount \in Int
    PROVE  Tidy(b, Reserve(b, peer, amount)) /\ Tidy(b, GiveBack(b, peer, amount))
<1>1. Load(b, peer) \in CreditRecord
  BY DEF Load, IsOrderly, OpenLine, CreditRecord
<1>2. ASSUME NEW c \in CreditRecord
      PROVE  Tidy(b, Store(b, peer, c))
  <2> DEFINE d == Store(b, peer, c)
  <2>1. /\ d.contract = b.contract /\ d.list = b.list /\ d.stored = b.stored
        /\ d.credit = [p \in DOMAIN b.credit |-> IF p = peer THEN c ELSE b.credit[p]]
    BY DEF Store, IsBook
  <2> HIDE DEF d
  <2>2. d.credit \in [Nodes -> CreditRecord]
    BY <2>1 DEF IsOrderly
  <2>3. IsOrderly(d)
    BY <2>1, <2>2 DEF IsOrderly
  <2> QED
    BY <2>1, <2>3 DEF Tidy, d
<1>3. Allocated(Load(b, peer), amount) \in CreditRecord
  BY <1>1 DEF Allocated, CreditRecord
<1>4. Deallocated(Load(b, peer), amount) \in CreditRecord
  BY <1>1 DEF Deallocated, CreditRecord
<1> QED
  BY <1>2, <1>3, <1>4 DEF Reserve, GiveBack

\* A contract changes, or is added as an object.
LEMMA ContractTidy ==
    ASSUME NEW b, IsOrderly(b), NEW ref \in DOMAIN b.contract, NEW d \in Contracts,
           NEW c, c.contract = [b.contract EXCEPT ![ref] = d], c.list = b.list,
           c.stored = b.stored, c.credit = b.credit
    PROVE  Tidy(b, c)
<1>1. DOMAIN c.contract = DOMAIN b.contract
  OBVIOUS
<1>2. \A r \in DOMAIN c.contract : c.contract[r] \in Contracts
  BY DEF IsOrderly
<1> QED
  BY <1>1, <1>2 DEF Tidy, IsOrderly

LEMMA EditTidy ==
    ASSUME NEW b, IsBook(b), IsOrderly(b), NEW ref \in DOMAIN b.contract
    PROVE  /\ \A amount \in Nat : Tidy(b, SetBtcAmount(b, ref, amount))
           /\ \A btcTx \in BtcTxs : Tidy(b, SetBtcTxId(b, ref, btcTx))
           /\ Tidy(b, Activate(b, ref))
<1>1. b.contract[ref] \in Contracts /\ DOMAIN b = {"contract", "list", "stored", "credit"}
  BY DEF IsOrderly, IsBook
<1>2. ASSUME NEW amount \in Nat
      PROVE  Tidy(b, SetBtcAmountOnly(b, ref, amount))
  <2>1. PICK d : d = [b.contract[ref] EXCEPT !.amount = amount]
    OBVIOUS
  <2>2. PICK c : c = SetBtcAmountOnly(b, ref, amount)
    OBVIOUS
  <2>3. d \in Contracts
    BY <1>1, <2>1 DEF Contracts
  <2>4. /\ c.contract = [b.contract EXCEPT ![ref] = d]
        /\ c.list = b.list /\ c.stored = b.stored /\ c.credit = b.credit
    BY <1>1, <2>1, <2>2 DEF SetBtcAmountOnly
  <2> QED
    BY <2>2, <2>3, <2>4, ContractTidy
<1>3. ASSUME NEW btcTx \in BtcTxs
      PROVE  Tidy(b, SetBtcTxId(b, ref, btcTx))
  <2>1. PICK d : d = [b.contract[ref] EXCEPT !.btcTx = btcTx]
    OBVIOUS
  <2>2. PICK c : c = SetBtcTxId(b, ref, btcTx)
    OBVIOUS
  <2>3. d \in Contracts
    BY <1>1, <2>1 DEF Contracts
  <2>4. /\ c.contract = [b.contract EXCEPT ![ref] = d]
        /\ c.list = b.list /\ c.stored = b.stored /\ c.credit = b.credit
    BY <1>1, <2>1, <2>2 DEF SetBtcTxId
  <2> QED
    BY <2>2, <2>3, <2>4, ContractTidy
<1>4. Tidy(b, Activate(b, ref))
  <2>1. PICK d : d = [b.contract[ref] EXCEPT !.active = TRUE]
    OBVIOUS
  <2>2. PICK c : c = Activate(b, ref)
    OBVIOUS
  <2>3. d \in Contracts
    BY <1>1, <2>1 DEF Contracts
  <2>4. /\ c.contract = [b.contract EXCEPT ![ref] = d]
        /\ c.list = b.list /\ c.stored = b.stored /\ c.credit = b.credit
    BY <1>1, <2>1, <2>2 DEF Activate
  <2> QED
    BY <2>2, <2>3, <2>4, ContractTidy
<1>5. ASSUME NEW amount \in Nat
      PROVE  Tidy(b, SetBtcAmount(b, ref, amount))
  <2>1. PICK c : c = SetBtcAmountOnly(b, ref, amount)
    OBVIOUS
  <2>2. Tidy(b, c) /\ IsBook(c)
    BY <1>2, <2>1, SetAmountOnlyFacts DEF Edited
  <2>3. b.contract[ref].amount - amount \in Int
    BY <1>1 DEF Contracts
  <2>4. Tidy(c, GiveBack(c, b.contract[ref].peer, b.contract[ref].amount - amount))
    BY <2>2, <2>3, CreditTidy DEF Tidy
  <2> QED
    BY <2>1, <2>2, <2>4, TidyTwice DEF SetBtcAmount
<1> QED
  BY <1>3, <1>4, <1>5

LEMMA PersistTidy ==
    ASSUME NEW b, IsBook(b), IsOrderly(b), NEW ref \in DOMAIN b.contract,
           b.contract[ref].btcTx = ref.tx, b.contract[ref].peer \in Nodes
    PROVE  /\ Tidy(b, Persist(b, ref))
           /\ ref.party = "sender" => Takings(Persist(b, ref)) = Takings(b)
<1> DEFINE c == Persist(b, ref)
           row == Row(ref, b.contract[ref])
<1>1. /\ c.contract = b.contract /\ c.list = b.list /\ c.credit = b.credit
      /\ c.stored = b.stored \cup {row}
  BY DEF Persist, IsBook
<1>2. row \in Rows /\ row.party = ref.party
  BY DEF Row, Rows, IsOrderly, Contracts, Refs
<1> HIDE DEF c, row
<1>3. IsOrderly(c)
  BY <1>1, <1>2 DEF IsOrderly
<1> QED
  BY <1>1, <1>2, <1>3 DEF Tidy, Takings, c

LEMMA RmTidy ==
    ASSUME NEW b, IsBook(b), IsOrderly(b), NEW ref \in DOMAIN b.contract
    PROVE  Tidy(b, RmContract(b, ref))
<1> DEFINE peer == b.contract[ref].peer
           btcTx == b.contract[ref].btcTx
           less == RmStored(b, btcTx, ref.party)
           gone(i) == [less EXCEPT !.list = RemoveAt(@, i)]
           alike == {i \in DOMAIN b.list : /\ b.contract[b.list[i]].peer = peer
                                           /\ b.contract[b.list[i]].btcTx = btcTx}
           found(i) == b.contract[b.list[i]]
<1>1. /\ less.contract = b.contract /\ less.list = b.list /\ less.credit = b.credit
      /\ less.stored \subseteq b.stored /\ DOMAIN less = DOMAIN b
  BY DEF RmStored, IsBook
<1>2. \A i : /\ gone(i).contract = b.contract /\ gone(i).list = RemoveAt(b.list, i)
             /\ gone(i).stored \subseteq b.stored /\ gone(i).credit = b.credit
             /\ DOMAIN gone(i) = DOMAIN b
  BY <1>1 DEF IsBook
<1>3. \/ RmContract(b, ref) = b
      \/ \E i \in DOMAIN b.list :
            \/ RmContract(b, ref) = gone(i)
            \/ RmContract(b, ref) = GiveBack(gone(i), peer, found(i).amount)
  <2>1. CASE alike = {}
    BY <2>1 DEF RmContract
  <2>2. CASE alike # {}
    <3>1. alike \subseteq Nat
      BY DEF IsOrderly
    <3>2. Min(alike) \in alike
      <4> HIDE DEF alike
      <4> QED
        BY <2>2, <3>1, MinFacts
    <3> QED
      BY <2>2, <3>2 DEF RmContract
  <2> QED
    BY <2>1, <2>2
<1> HIDE DEF less
<1>4. ASSUME NEW i \in DOMAIN b.list
      PROVE  Tidy(b, gone(i)) /\ IsBook(gone(i)) /\ found(i).amount \in Int
  <2>1. /\ RemoveAt(b.list, i) \in Seq(DOMAIN b.contract)
        /\ Range(RemoveAt(b.list, i)) = Range(b.list) \ {b.list[i]}
        /\ IsInjective(RemoveAt(b.list, i))
    BY RemoveAtFacts DEF IsOrderly
  <2>2. IsOrderly(gone(i))
    BY <1>2, <2>1 DEF IsOrderly
  <2>3. IsBook(gone(i))
    BY <1>2 DEF IsBook
  <2>4. b.list[i] \in DOMAIN b.contract
    BY DEF IsOrderly
  <2> QED
    BY <1>2, <2>1, <2>2, <2>3, <2>4 DEF Tidy, IsOrderly, Contracts
<1>5. ASSUME NEW i \in DOMAIN b.list
      PROVE  Tidy(b, GiveBack(gone(i), peer, found(i).amount))
  <2>1. PICK g : g = gone(i)
    OBVIOUS
  <2>2. PICK x : x = found(i).amount
    OBVIOUS
  <2>3. Tidy(b, g) /\ IsBook(g) /\ x \in Int
    BY <1>4, <2>1, <2>2
  <2>4. Tidy(g, GiveBack(g, peer, x))
    BY <2>3, CreditTidy DEF Tidy
  <2> QED
    BY <2>1, <2>2, <2>3, <2>4, TidyTwice
<1>6. Tidy(b, b)
  BY DEF Tidy
<1> QED
  BY <1>3, <1>4, <1>5, <1>6

-----------------------------------------------------------------------------
(* Books that gain contracts.                                              *)

Grown(b, c, refs) == IsOrderly(c) /\ Range(c.list) \subseteq Range(b.list) \cup refs

LEMMA NewSenderTidy ==
    ASSUME NEW b, IsBook(b), IsOrderly(b), NEW ref \in Refs, ref \notin Range(b.list),
           NEW peer \in Nodes \cup {NoHop}, NEW amount \in Nat
    PROVE  /\ Grown(b, NewSender(b, ref, peer, amount), {ref})
           /\ NewSender(b, ref, peer, amount).contract[ref].amount = amount
<1>1. PICK c : c = NewSender(b, ref, peer, amount)
  OBVIOUS
<1>2. PICK d : d = Contract(peer, amount)
  OBVIOUS
<1>3. d \in Contracts /\ d.amount = amount
  BY <1>2 DEF Contract, Contracts, BtcTxs
<1>4. /\ DOMAIN c.contract = DOMAIN b.contract \cup {ref} /\ c.contract[ref] = d
      /\ \A r \in DOMAIN b.contract : r # ref => c.contract[r] = b.contract[r]
      /\ c.list = Append(b.list, ref) /\ c.stored = b.stored /\ c.credit = b.credit
  BY <1>1, <1>2 DEF NewSender, With, IsBook
<1>5. PICK S : S = DOMAIN c.contract
  OBVIOUS
<1>6. b.list \in Seq(S) /\ ref \in S
  BY <1>4, <1>5 DEF IsOrderly
<1>7. c.list \in Seq(S) /\ Range(c.list) = Range(b.list) \cup {ref} /\ IsInjective(c.list)
  BY <1>4, <1>6, AppendFacts DEF IsOrderly
<1>8. IsOrderly(c)
  BY <1>3, <1>4, <1>5, <1>7 DEF IsOrderly
<1> QED
  BY <1>1, <1>3, <1>4, <1>7, <1>8 DEF Grown

LEMMA NewReceiverTidy ==
    ASSUME NEW b, IsBook(b), IsOrderly(b), NEW ref \in Refs, ref \notin Range(b.list),
           NEW peer \in Nodes, CanReceive(b, peer), NEW amount \in Nat
    PROVE  /\ Grown(b, NewReceiver(b, ref, peer, amount), {ref})
           /\ NewReceiver(b, ref, peer, amount).contract[ref].amount \in Nat
<1>1. PICK x : x = Receivable(b, peer, amount)
  OBVIOUS
<1>2. x \in Nat
  <2>1. Load(b, peer) \in CreditRecord
    BY DEF Load, IsOrderly, OpenLine, CreditRecord
  <2>2. PeerAvailable(Load(b, peer)) \in Int
    BY <2>1 DEF PeerAvailable, CreditRecord
  <2> QED
    BY <1>1, <2>2 DEF Receivable, CanReceive
<1>3. PICK c : c = NewSender(b, ref, peer, x)
  OBVIOUS
<1>4. /\ Grown(b, c, {ref}) /\ c.contract[ref].amount = x /\ IsBook(c)
  BY <1>2, <1>3, NewSenderTidy, NewSenderFacts DEF Made
<1>5. PICK d : d = Reserve(c, peer, x)
  OBVIOUS
<1>6. Tidy(c, d) /\ d.contract = c.contract
  <2>1. "credit" \in DOMAIN c
    BY <1>4 DEF IsBook
  <2> QED
    BY <1>2, <1>4, <1>5, <2>1, CreditTidy, CreditOnly DEF Grown, SameDeals
<1>7. d = NewReceiver(b, ref, peer, amount)
  BY <1>1, <1>3, <1>5 DEF NewReceiver
<1> QED
  BY <1>2, <1>4, <1>6, <1>7 DEF Grown, Tidy

\* Two lists that have nothing in common.
LEMMA JoinedLists ==
    ASSUME NEW S, NEW q \in Seq(S), NEW r \in Seq(S), IsInjective(q), IsInjective(r),
           Range(q) \cap Range(r) = {}
    PROVE  /\ q \o r \in Seq(S) /\ IsInjective(q \o r)
           /\ Range(q \o r) \subseteq Range(q) \cup Range(r)
<1>1. PICK c : c = q \o r
  OBVIOUS
<1>2. /\ c \in Seq(S) /\ DOMAIN c = 1..(Len(q) + Len(r)) /\ DOMAIN q = 1..Len(q)
      /\ DOMAIN r = 1..Len(r) /\ Len(q) \in Nat /\ Len(r) \in Nat
      /\ \A i \in DOMAIN c : c[i] = IF i <= Len(q) THEN q[i] ELSE r[i - Len(q)]
  BY <1>1
<1>3. \A i \in DOMAIN c : \/ i \in DOMAIN q /\ c[i] = q[i]
                          \/ i - Len(q) \in DOMAIN r /\ c[i] = r[i - Len(q)] /\ i \in Int
  <2> SUFFICES ASSUME NEW i \in DOMAIN c
               PROVE  \/ i \in DOMAIN q /\ c[i] = q[i]
                      \/ i - Len(q) \in DOMAIN r /\ c[i] = r[i - Len(q)] /\ i \in Int
    OBVIOUS
  <2>1. PICK k, l : k = Len(q) /\ l = Len(r)
    OBVIOUS
  <2>2. i \in 1..(k + l) /\ k \in Nat /\ l \in Nat
    BY <1>2, <2>1
  <2>3. CASE i <= k
    BY <1>2, <2>1, <2>2, <2>3
  <2>4. CASE ~(i <= k)
    <3>1. i - k \in 1..l
      BY <2>2, <2>4
    <3> QED
      BY <1>2, <2>1, <2>2, <2>4, <3>1
  <2> QED
    BY <2>3, <2>4
<1>4. Range(c) \subseteq Range(q) \cup Range(r)
  BY <1>3 DEF Range
<1>5. ASSUME NEW i \in DOMAIN c, NEW j \in DOMAIN c, c[i] = c[j]
      PROVE  i = j
  <2>1. CASE i \in DOMAIN q /\ j \in DOMAIN q /\ c[i] = q[i] /\ c[j] = q[j]
    BY <1>5, <2>1 DEF IsInjective
  <2>2. ASSUME NEW k \in DOMAIN q, NEW l \in DOMAIN r, q[k] = r[l]
        PROVE  FALSE
    BY <2>2 DEF Range
  <2>3. CASE /\ i - Len(q) \in DOMAIN r /\ c[i] = r[i - Len(q)]
             /\ j - Len(q) \in DOMAIN r /\ c[j] = r[j - Len(q)]
    <3>1. i - Len(q) = j - Len(q)
      BY <1>5, <2>3 DEF IsInjective
    <3> QED
      BY <1>2, <3>1
  <2> QED
    BY <1>3, <1>5, <2>1, <2>2, <2>3
<1> QED
  BY <1>1, <1>2, <1>4, <1>5 DEF IsInjective

LEMMA NewSendersTidy ==
    ASSUME NEW b, IsBook(b), IsOrderly(b), NEW made, DOMAIN made \subseteq Refs,
           \A ref \in DOMAIN made : made[ref] \in Contracts,
           NEW refs \in Seq(DOMAIN made), IsInjective(refs), Range(b.list) \cap DOMAIN made = {}
    PROVE  Grown(b, NewSenders(b, refs, made), DOMAIN made)
<1>1. PICK c : c = NewSenders(b, refs, made)
  OBVIOUS
<1>2. PICK S : S = DOMAIN b.contract \cup DOMAIN made
  OBVIOUS
<1>3. /\ c.contract = [ref \in S |-> IF ref \in DOMAIN made THEN made[ref] ELSE b.contract[ref]]
      /\ c.list = b.list \o refs /\ c.stored = b.stored /\ c.credit = b.credit
  BY <1>1, <1>2 DEF NewSenders, IsBook
<1>4. DOMAIN c.contract = S /\ \A ref \in S : c.contract[ref] \in Contracts
  BY <1>2, <1>3 DEF IsOrderly
<1>5. b.list \in Seq(S) /\ refs \in Seq(S) /\ Range(refs) \subseteq DOMAIN made
  BY <1>2 DEF IsOrderly, Range
<1>6. c.list \in Seq(S) /\ IsInjective(c.list) /\ Range(c.list) \subseteq Range(b.list) \cup DOMAIN made
  <2>1. IsInjective(b.list) /\ Range(b.list) \cap Range(refs) = {}
    BY <1>5 DEF IsOrderly
  <2> QED
    BY <1>3, <1>5, <2>1, JoinedLists
<1>7. IsOrderly(c)
  BY <1>2, <1>3, <1>4, <1>6 DEF IsOrderly
<1> QED
  BY <1>1, <1>6, <1>7 DEF Grown

-----------------------------------------------------------------------------
(* Links.                                                                  *)

Links == [Nodes -> [Nodes -> Seq(Items)]]
NoNewQueries(b) ==
    \A f, t \in Nodes : \A item \in Range(b[f][t]) :
        item.phase = "QUERY" => item \in Range(net[f][t])

LEMMA TakenTyped ==
    ASSUME net \in Links, NEW n \in Nodes, NEW p \in Nodes, net[p][n] # <<>>
    PROVE  Taken(n, p) \in Links /\ Head(net[p][n]) \in Items
<1>1. net[p][n] \in Seq(Items)
  BY DEF Links
<1>2. Tail(net[p][n]) \in Seq(Items) /\ Head(net[p][n]) \in Items
  BY <1>1, LeftFacts DEF Range
<1> QED
  BY <1>2 DEF Taken, Links

LEMMA SentTyped ==
    ASSUME NEW a \in Links, NEW n \in Nodes, NEW u, NEW new \in Items
    PROVE  Sent(a, n, u, new) \in Links
<1>1. CASE u \in Nodes /\ up[u]
  <2>1. a[n][u] \in Seq(Items)
    BY <1>1 DEF Links
  <2>2. Append(a[n][u], new) \in Seq(Items)
    BY <2>1
  <2> QED
    BY <1>1, <2>2 DEF Sent, Links
<1>2. CASE ~(u \in Nodes /\ up[u])
  BY <1>2 DEF Sent
<1> QED
  BY <1>1, <1>2

LEMMA TakenNoQueries ==
    ASSUME Owed, NEW n \in Nodes, NEW p \in Nodes, net[p][n] # <<>>
    PROVE  NoNewQueries(Taken(n, p)) /\ Known(Taken(n, p))
<1>1. Fewer(net, Taken(n, p))
  BY TakenFacts DEF Owed, Shape
<1> QED
  BY <1>1 DEF Fewer, NoNewQueries

LEMMA SentNoQueries ==
    ASSUME NEW a, Known(a), NoNewQueries(a), NEW n \in Nodes, NEW u, NEW new \in Items,
           new.phase # "QUERY"
    PROVE  NoNewQueries(Sent(a, n, u, new)) /\ Known(Sent(a, n, u, new))
<1>1. new.tx \in TxIds /\ new.phase \in Phases
  BY DEF Items
<1>2. More(a, Sent(a, n, u, new), n, u, new)
  BY <1>1, SentFacts
<1> QED
  BY <1>2 DEF More, NoNewQueries

\* What a handler takes and sends, if it is not a QUERY.
Quiet(b) == b \in Links /\ NoNewQueries(b) /\ Known(b)

LEMMA TakeQuietly ==
    ASSUME Owed, net \in Links, NEW n \in Nodes, NEW p \in Nodes, net[p][n] # <<>>
    PROVE  Quiet(Taken(n, p)) /\ Head(net[p][n]) \in Items
BY TakenTyped, TakenNoQueries DEF Quiet

LEMMA SendQuietly ==
    ASSUME NEW a, Quiet(a), NEW n \in Nodes, NEW u, NEW new \in Items, new.phase # "QUERY"
    PROVE  Quiet(Sent(a, n, u, new))
BY SentTyped, SentNoQueries DEF Quiet

LEMMA ItemsFit ==
    ASSUME NEW id \in TxIds
    PROVE  /\ \A phase \in Phases : /\ Order(phase, id) \in Items
                                    /\ Order(phase, id).phase = phase
           /\ \A phase \in Phases, amount \in Nat, btcTx \in BtcTxs :
                 /\ Item(phase, id, amount, btcTx) \in Items
                 /\ Item(phase, id, amount, btcTx).phase = phase
<1>1. NoBtcTx \in BtcTxs
  BY DEF BtcTxs
<1> QED
  BY <1>1 DEF Order, Item, Items

-----------------------------------------------------------------------------
(* What does not change what is counted.                                   *)

LEMMA FromStays ==
    \A n, a : From(n, a)' = From(n, a)
BY DEF From, Closed

LEMMA MadeOnceStays ==
    ASSUME NEW j \in TxIds, MadeOnce(j),
           \A m \in Nodes : Noted(m, j)' => Noted(m, j),
           \A f, t \in Nodes : \A item \in Range(net'[f][t]) :
              item.tx = j /\ item.phase = "QUERY" => item \in Range(net[f][t]),
           j[1] \in bid[j[2]].matched => j[1] \in bid'[j[2]].matched
    PROVE  MadeOnce(j)'
<1>1. ASSUME NEW f \in Nodes, NEW t \in Nodes, NEW item \in Range(net'[f][t]),
             item.tx = j, item.phase = "QUERY"
      PROVE  \A n \in From(t, j[1]) : ~Noted(n, j)'
  <2>1. \A n \in From(t, j[1]) : ~Noted(n, j)
    BY <1>1 DEF MadeOnce
  <2> QED
    BY <2>1 DEF From
<1> QED
  BY <1>1, FromStays DEF MadeOnce

LEMMA NotesStay ==
    ASSUME NEW m \in Nodes, Range(books'[m].list) \subseteq Range(books[m].list), NEW j
    PROVE  Noted(m, j)' => Noted(m, j)
BY DEF Noted

\* An ask as Committed and Sold see it.
SameAsk(a) ==
    /\ ask'[a].amount = ask[a].amount /\ ask'[a].commitment = ask[a].commitment
    /\ ask'[a].state = "deleted" <=> ask[a].state = "deleted"

LEMMA CommittedStays ==
    ASSUME NEW a \in Asks, Committed(a), NEW o, o = Owner[a], up'[o] => up[o],
           \A id \in TxIds : id[1] = a => (IsSale(o, id)' <=> IsSale(o, id)),
           \A id \in TxIds : id[1] = a /\ IsSale(o, id) => AmountOf(o, id)' = AmountOf(o, id),
           SameAsk(a)
    PROVE  Committed(a)'
<1>1. InFlight(o, a)' = InFlight(o, a)
  BY DEF InFlight
<1>2. \A id \in InFlight(o, a) : AmountOf(o, id)' = AmountOf(o, id)
  BY DEF InFlight
<1>3. Promised(o, a)' = Promised(o, a)
  BY <1>1, <1>2 DEF Promised
<1> QED
  BY <1>1, <1>2, <1>3 DEF Committed, SameAsk

LEMMA SoldStays ==
    ASSUME NEW a \in Asks, Sold(a), NEW o, o = Owner[a],
           \A row : row \in Receipts(o)' /\ row.tx[1] = a <=> row \in Receipts(o) /\ row.tx[1] = a,
           SameAsk(a)
    PROVE  Sold(a)'
<1>1. Sales(a)' = Sales(a)
  BY DEF Sales, Receipts
<1>2. SoldOf(a)' = SoldOf(a)
  BY <1>1 DEF SoldOf
<1>3. Unsold(a)' = Unsold(a)
  BY DEF Unsold, SameAsk
<1> QED
  BY <1>1, <1>2, <1>3 DEF Sold

\* The other transactions' sales of a node.
SalesOfOthers(n, id) ==
    \A j \in TxIds : j # id => (IsSale(n, j)' <=> IsSale(n, j))

LEMMA SetTMSpares ==
    ASSUME ManagersKnown, NEW n \in Nodes, NEW id \in TxIds, NEW tm,
           SetTM(n, id, tm) \/ UNCHANGED currentTX
    PROVE  SalesOfOthers(n, id)
BY DEF SetTM, SalesOfOthers, IsSale, ManagersKnown

LEMMA WithoutOrderSpares ==
    ASSUME NEW n \in Nodes, ManagersKnown, NEW a, NEW becomes, NEW id,
           currentTX' = [currentTX EXCEPT ![n] = WithoutOrder(n, a, becomes, id)]
    PROVE  SalesOfOthers(n, id)
BY DEF WithoutOrder, SalesOfOthers, IsSale, Coordinator, ManagersKnown

LEMMA SaleKept ==
    ASSUME Owed, NEW n \in Nodes, NEW id \in TxIds, SalesOfOthers(n, id),
           NEW b, NewBook(n, b), Spares(books[n], b, id), NEW j \in TxIds, j # id
    PROVE  /\ IsSale(n, j)' <=> IsSale(n, j)
           /\ IsSale(n, j) => AmountOf(n, j)' = AmountOf(n, j)
<1>1. IsSale(n, j)' <=> IsSale(n, j)
  BY DEF SalesOfOthers
<1>2. IsSale(n, j) => AmountOf(n, j)' = AmountOf(n, j)
  <2> SUFFICES ASSUME IsSale(n, j)
               PROVE  AmountOf(n, j)' = AmountOf(n, j)
    OBVIOUS
  <2>1. Payee(j) \in DOMAIN books[n].contract /\ Payee(j).tx = j
    BY ManagerHas, TheRefs DEF IsSale, IsManager, GetsPaid
  <2> QED
    BY <2>1 DEF Spares, NewBook, AmountOf
<1> QED
  BY <1>1, <1>2

\* Others than a transaction's node and ask.
LEMMA OthersCounted ==
    ASSUME Owed, Counted, NEW n \in Nodes, NEW id \in TxIds,
           NEW tm, NewManager(n, id, tm), SalesOfOthers(n, id),
           NEW b, NewBook(n, b), Spares(books[n], b, id),
           NEW a \in Asks, a # id[1] \/ n # Owner[a], SameAsk(a), UNCHANGED up
    PROVE  Committed(a)' /\ Sold(a)'
<1>1. PICK o : o = Owner[a]
  OBVIOUS
<1>2. o \in Nodes
  BY <1>1, OrdersAssumption
<1>3. ASSUME NEW j \in TxIds, j[1] = a
      PROVE  /\ IsSale(o, j)' <=> IsSale(o, j)
             /\ IsSale(o, j) => AmountOf(o, j)' = AmountOf(o, j)
  <2>1. CASE o # n
    BY <1>2, <2>1 DEF IsSale, AmountOf, NewManager, NewBook
  <2>2. CASE o = n
    <3>1. j # id
      BY <1>1, <1>3, <2>2
    <3> QED
      BY <1>3, <2>2, <3>1, SaleKept
  <2> QED
    BY <2>1, <2>2
<1>4. ASSUME NEW row, row.tx[1] = a
      PROVE  row \in Receipts(o)' <=> row \in Receipts(o)
  <2>1. CASE o # n
    BY <1>2, <2>1 DEF Receipts, NewBook
  <2>2. CASE o = n
    <3>1. row.tx # id
      BY <1>1, <1>4, <2>2
    <3> QED
      BY <2>2, <3>1 DEF Receipts, NewBook, Spares
  <2> QED
    BY <2>1, <2>2
<1>5. Committed(a) /\ Sold(a)
  BY DEF Counted
<1>6. Committed(a)'
  BY <1>1, <1>3, <1>5, CommittedStays
<1> QED
  BY <1>1, <1>4, <1>5, <1>6, SoldStays

TunnelsTyped == tunnels \in [Nodes -> [Asks -> {NoTunnel} \cup Nodes \X (Nodes \cup {NoHop})]]

\* A step of n that is about the transaction id.
LEMMA CountedBy ==
    ASSUME Owed, Owed', Counted, NEW n \in Nodes, NEW id \in TxIds,
           NEW tm, NewManager(n, id, tm), SalesOfOthers(n, id),
           NEW b, NewBook(n, b), Spares(books[n], b, id), IsOrderly(b),
           \A j \in TxIds : MadeOnce(j)', OrdersTyped', TunnelsTyped', net' \in Links,
           \A a \in Asks : SameAsk(a) \/ (a = id[1] /\ Owner[a] = n),
           Owner[id[1]] = n => Committed(id[1])' /\ Sold(id[1])',
           UNCHANGED outside
    PROVE  Counted'
<1>1. UNCHANGED <<up, mishaps>>
  BY DEF outside
<1>2. ASSUME NEW a \in Asks
      PROVE  Committed(a)' /\ Sold(a)'
  <2>1. CASE a = id[1] /\ Owner[a] = n
    BY <2>1
  <2>2. CASE a # id[1] \/ n # Owner[a]
    BY <1>1, <2>2, OthersCounted
  <2> QED
    BY <2>1, <2>2
<1>3. ASSUME NEW m \in Nodes
      PROVE  IsOrderly(books[m])'
  <2>1. IsOrderly(books[m])
    BY DEF Counted, TypeOK
  <2>2. IsOrderly(books'[m])
    BY <2>1 DEF NewBook
  <2> QED
    BY <2>2 DEF IsOrderly
<1>4. ManagersKnown' /\ chain' \subseteq TxIds
  BY DEF Owed, Shape
<1>5. up' \in [Nodes -> BOOLEAN] /\ mishaps' \in 0..MaxMishaps
  BY <1>1 DEF Counted, TypeOK
<1>6. TypeOK'
  BY <1>3, <1>4, <1>5 DEF TypeOK, ManagersKnown, TunnelsTyped, Links
<1> QED
  BY <1>2, <1>6 DEF Counted

LEMMA NotesFade ==
    ASSUME Counted, NEW n \in Nodes, NEW b, NewBook(n, b), Tidy(books[n], b),
           NoNewQueries(net'), \A o \in Bids : bid[o].matched \subseteq bid'[o].matched
    PROVE  \A j \in TxIds : MadeOnce(j)'
<1> SUFFICES ASSUME NEW j \in TxIds
             PROVE  MadeOnce(j)'
  OBVIOUS
<1>1. \A m \in Nodes : Noted(m, j)' => Noted(m, j)
  <2> SUFFICES ASSUME NEW m \in Nodes
               PROVE  Noted(m, j)' => Noted(m, j)
    OBVIOUS
  <2>1. Range(books'[m].list) \subseteq Range(books[m].list)
    BY DEF NewBook, Tidy
  <2> QED
    BY <2>1, NotesStay
<1>2. MadeOnce(j) /\ j[2] \in Bids
  BY DEF Counted, TxIds
<1> QED
  BY <1>1, <1>2, MadeOnceStays DEF NoNewQueries

\* A step that leaves the sale as it is, if there is one.
LEMMA CountedQuietly ==
    ASSUME Owed, Owed', Counted, NEW n \in Nodes, NEW id \in TxIds,
           NEW tm, NewManager(n, id, tm), SalesOfOthers(n, id),
           NEW b, NewBook(n, b), Spares(books[n], b, id), IsOrderly(b),
           \A j \in TxIds : MadeOnce(j)', OrdersTyped', TunnelsTyped', net' \in Links,
           IsSale(n, id)' <=> IsSale(n, id),
           IsSale(n, id) => AmountOf(n, id)' = AmountOf(n, id),
           Owner[id[1]] = n => Takings(b) = Takings(books[n]),
           \A a \in Asks : SameAsk(a), UNCHANGED outside
    PROVE  Counted'
<1>1. UNCHANGED <<up, mishaps>> /\ id[1] \in Asks
  BY DEF outside, TxIds
<1>2. ASSUME Owner[id[1]] = n
      PROVE  Committed(id[1])' /\ Sold(id[1])'
  <2>1. Committed(id[1]) /\ Sold(id[1]) /\ SameAsk(id[1])
    BY <1>1 DEF Counted
  <2>2. \A j \in TxIds : /\ IsSale(n, j)' <=> IsSale(n, j)
                         /\ IsSale(n, j) => AmountOf(n, j)' = AmountOf(n, j)
    BY SaleKept
  <2>3. Committed(id[1])'
    BY <1>1, <1>2, <2>1, <2>2, CommittedStays
  <2>4. Receipts(n)' = Receipts(n)
    BY <1>2 DEF Receipts, Takings, NewBook
  <2> QED
    BY <1>1, <1>2, <2>1, <2>3, <2>4, SoldStays
<1> QED
  BY <1>1, <1>2, CountedBy

-----------------------------------------------------------------------------
(* What handlers rely on, and rollbacks.                                   *)

LEMMA TypesOf ==
    ASSUME Owed, Counted
    PROVE  /\ OrdersTyped /\ TunnelsTyped /\ net \in Links /\ Quiet(net)
           /\ \A n \in Nodes : IsOrderly(books[n]) /\ IsBook(books[n])
           /\ ManagersKnown /\ DOMAIN books = Nodes
BY DEF Counted, TypeOK, TunnelsTyped, Links, Quiet, NoNewQueries, Owed, Shape

LEMMA HeadTyped ==
    ASSUME Owed, Counted, NEW n \in Nodes, NEW p \in Nodes, NEW phases, Receives(n, p, phases)
    PROVE  /\ Quiet(Taken(n, p)) /\ Head(net[p][n]) \in Items /\ net[p][n] # <<>>
           /\ Head(net[p][n]) \in Range(net[p][n])
           /\ Head(net[p][n]).tx \in TxIds /\ Head(net[p][n]).phase \in phases
           /\ Tm(n, p) = currentTX[n][Head(net[p][n]).tx] /\ up[n]
<1>1. up[n]
  BY DEF Receives
<1> QED
  BY <1>1, HeadFacts, TypesOf, TakeQuietly

LEMMA NothingTaken ==
    ASSUME Owed, NEW n \in Nodes, NEW id \in TxIds, MayUndo(n, id)
    PROVE  \A row \in Takings(books[n]) : row.tx # id
BY DEF Owed, OwedFor, ReceiptsAreCovered, Receipts, Takings

\* A contract is removed.
Cleared(b, c, id) ==
    /\ Tidy(b, c) /\ Spares(b, c, id) /\ Takings(c) = Takings(b)
    /\ c.contract = b.contract /\ IsBook(c)

LEMMA RmCleared ==
    ASSUME NEW b, IsBook(b), IsOrderly(b), NEW ref \in DOMAIN b.contract,
           NEW id, ref.tx = id, \A row \in Takings(b) : row.tx # id
    PROVE  Cleared(b, RmContract(b, ref), id)
<1>1. PICK c : c = RmContract(b, ref)
  OBVIOUS
<1>2. Tidy(b, c) /\ Removed(b, c, id)
  BY <1>1, RmTidy, RmFacts
<1>3. Spares(b, c, id)
  BY <1>2, SparesFacts
<1>4. Takings(c) = Takings(b)
  BY <1>2 DEF Takings, Removed
<1> QED
  BY <1>1, <1>2, <1>3, <1>4 DEF Cleared, Removed

LEMMA MarketFits ==
    ASSUME market \in [Nodes -> [Asks -> AsksOfOthers]], NEW n \in Nodes, NEW a \in Asks,
           NEW e \in AsksOfOthers, market' = [market EXCEPT ![n][a] = e]
    PROVE  market' \in [Nodes -> [Asks -> AsksOfOthers]]
OBVIOUS

LEMMA RollBackCoordinatorCounted ==
    ASSUME Owed, Owed', Counted, NEW n \in Nodes, NEW id \in TxIds,
           currentTX[n][id].role = "coordinator", RollBackCoordinator(n, id),
           Quiet(net'), UNCHANGED <<tunnels, outside>>
    PROVE  Counted'
<1>1. /\ NewManager(n, id, NoTM) /\ SalesOfOthers(n, id)
  <2>1. currentTX' = [currentTX EXCEPT ![n] = WithoutOrder(n, id[1], "old", id)]
    BY DEF RollBackCoordinator
  <2> QED
    BY <2>1, TypesOf, WithoutOrderFacts, WithoutOrderSpares
<1>2. PICK b : b = RmContract(books[n], Payer(id))
  OBVIOUS
<1>3. NewBook(n, b)
  BY <1>2, TypesOf, NewBookFacts DEF RollBackCoordinator
<1>4. Cleared(books[n], b, id)
  <2>1. Payer(id) \in DOMAIN books[n].contract /\ Payer(id).tx = id /\ MayUndo(n, id)
    BY ManagerHas, TheRefs DEF IsManager, PaysNext, MayUndo
  <2>2. \A row \in Takings(books[n]) : row.tx # id
    BY <2>1, NothingTaken
  <2> QED
    BY <1>2, <2>1, <2>2, TypesOf, RmCleared
<1>5. UNCHANGED <<ask, bid>> /\ market' = [market EXCEPT ![n][id[1]].listed = FALSE]
  BY DEF RollBackCoordinator
<1>6. OrdersTyped'
  <2>1. market' \in [Nodes -> [Asks -> AsksOfOthers]]
    <3>1. id[1] \in Asks
      BY DEF TxIds
    <3>2. market[n][id[1]] \in AsksOfOthers
      BY <3>1, TypesOf DEF OrdersTyped
    <3>3. PICK e : e = [market[n][id[1]] EXCEPT !.listed = FALSE]
      OBVIOUS
    <3>4. e \in AsksOfOthers
      BY <3>2, <3>3 DEF AsksOfOthers
    <3>5. market' = [market EXCEPT ![n][id[1]] = e]
      BY <1>5, <3>3
    <3> QED
      BY <3>1, <3>4, <3>5, TypesOf, MarketFits DEF OrdersTyped
  <2> QED
    BY <1>5, <2>1, TypesOf DEF OrdersTyped
<1>7. ~IsSale(n, id) /\ ~IsSale(n, id)'
  BY <1>1 DEF IsSale, NewManager, NoTM
<1>8. \A j \in TxIds : MadeOnce(j)'
  BY <1>3, <1>4, <1>5, NotesFade DEF Cleared, Quiet
<1>9. TunnelsTyped' /\ \A a \in Asks : SameAsk(a)
  BY <1>5, TypesOf DEF TunnelsTyped, SameAsk
<1> QED
  BY <1>1, <1>3, <1>4, <1>6, <1>7, <1>8, <1>9, CountedQuietly DEF Cleared, Tidy, Quiet

LEMMA RollBackHopCounted ==
    ASSUME Owed, Owed', Counted, NEW n \in Nodes, NEW id \in TxIds,
           currentTX[n][id].role = "hop", RollBackHop(n, id),
           Quiet(net'), UNCHANGED <<tunnels, outside>>
    PROVE  Counted'
<1>1. NewManager(n, id, NoTM) /\ SalesOfOthers(n, id)
  <2>1. SetTM(n, id, NoTM)
    BY DEF RollBackHop, Forget
  <2> QED
    BY <2>1, TypesOf, SetTMFacts, SetTMSpares, ManagersFit
<1>2. UNCHANGED <<ask, bid, market>>
  BY DEF RollBackHop, orders
<1>3. ~IsSale(n, id) /\ ~IsSale(n, id)'
  BY <1>1 DEF IsSale, NewManager, NoTM
<1>4. PICK c : NewBook(n, c) /\ Cleared(books[n], c, id)
  <2>1. CASE currentTX[n][id].contract
    <3>1. PICK b : b = RmContract(books[n], Payer(id))
      OBVIOUS
    <3>2. PICK c : c = RmContract(b, Payee(id))
      OBVIOUS
    <3>3. NewBook(n, c)
      BY <2>1, <3>1, <3>2, TypesOf, NewBookFacts DEF RollBackHop
    <3>4. /\ Payer(id) \in DOMAIN books[n].contract /\ Payee(id) \in DOMAIN books[n].contract
          /\ MayUndo(n, id) /\ Payer(id).tx = id /\ Payee(id).tx = id
      BY <2>1, ManagerHas, TheRefs DEF IsManager, PaysNext, GetsPaid, MayUndo
    <3>5. \A row \in Takings(books[n]) : row.tx # id
      BY <3>4, NothingTaken
    <3>6. Cleared(books[n], b, id)
      BY <3>1, <3>4, <3>5, TypesOf, RmCleared
    <3>7. Cleared(b, c, id)
      BY <3>2, <3>4, <3>5, <3>6, RmCleared DEF Cleared, Tidy
    <3>8. Cleared(books[n], c, id)
      BY <3>6, <3>7, SparesFacts, TidyTwice DEF Cleared
    <3> QED
      BY <3>3, <3>8
  <2>2. CASE ~currentTX[n][id].contract
    <3>1. NewBook(n, books[n])
      BY <2>2, TypesOf, SameBooksFacts DEF RollBackHop
    <3>2. Cleared(books[n], books[n], id)
      BY TypesOf, SparesFacts DEF Cleared, Tidy
    <3> QED
      BY <3>1, <3>2
  <2> QED
    BY <2>1, <2>2
<1>5. \A j \in TxIds : MadeOnce(j)'
  BY <1>2, <1>4, NotesFade DEF Cleared, Quiet
<1>6. OrdersTyped' /\ TunnelsTyped' /\ \A a \in Asks : SameAsk(a)
  BY <1>2, TypesOf DEF TunnelsTyped, SameAsk, OrdersTyped
<1> QED
  BY <1>1, <1>3, <1>4, <1>5, <1>6, CountedQuietly DEF Cleared, Tidy, Quiet

-----------------------------------------------------------------------------
(* Sales that begin and end.                                               *)

\* What is in flight is natural numbers.
LEMMA InFlightFacts ==
    ASSUME Owed, Counted, NEW n \in Nodes, NEW a \in Asks, Owner[a] = n, up[n]
    PROVE  /\ IsFiniteSet(InFlight(n, a)) /\ InFlight(n, a) \subseteq TxIds
           /\ \A j \in InFlight(n, a) : AmountOf(n, j) \in Nat
           /\ Promised(n, a) \in Nat
<1>1. IsFiniteSet(InFlight(n, a))
  BY DEF Counted, Committed
<1>2. ASSUME NEW j \in InFlight(n, a)
      PROVE  AmountOf(n, j) \in Nat
  <2>1. j \in TxIds /\ IsSale(n, j)
    BY DEF InFlight
  <2>2. Payee(j) \in DOMAIN books[n].contract
    BY <2>1, ManagerHas DEF IsSale, IsManager, GetsPaid
  <2>3. books[n].contract[Payee(j)] \in Contracts
    BY <2>2, TypesOf DEF IsOrderly
  <2> QED
    BY <2>3 DEF AmountOf, Contracts
<1>3. Promised(n, a) \in Nat
  <2>1. PICK f : f = [j \in InFlight(n, a) |-> AmountOf(n, j)]
    OBVIOUS
  <2>2. \A j \in InFlight(n, a) : f[j] \in Nat
    BY <1>2, <2>1
  <2>3. SumFunctionOnSet(f, InFlight(n, a)) \in Nat
    BY <1>1, <2>2, SumNat
  <2> QED
    BY <2>1, <2>3 DEF Promised
<1> QED
  BY <1>1, <1>2, <1>3 DEF InFlight

\* A part of a sum is not larger, and the rest of one that is 0 is 0.
LEMMA SumPart ==
    ASSUME NEW S, IsFiniteSet(S), NEW f, \A x \in S : f[x] \in Nat, NEW e \in S
    PROVE  /\ SumFunctionOnSet(f, S) \in Nat /\ SumFunctionOnSet(f, S \ {e}) \in Nat
           /\ SumFunctionOnSet(f, S) = SumFunctionOnSet(f, S \ {e}) + f[e]
           /\ f[e] <= SumFunctionOnSet(f, S) /\ IsFiniteSet(S \ {e})
<1>1. IsFiniteSet(S \ {e})
  BY FS_RemoveElement
<1>2. SumFunctionOnSet(f, S) \in Nat /\ SumFunctionOnSet(f, S \ {e}) \in Nat
  BY <1>1, SumNat
<1>3. SumFunctionOnSet(f, S) = SumFunctionOnSet(f, S \ {e}) + f[e]
  <2>1. \A x \in S : f[x] \in Int
    OBVIOUS
  <2> QED
    BY <2>1, SumRemove
<1>4. f[e] \in Nat
  OBVIOUS
<1> QED
  BY <1>1, <1>2, <1>3, <1>4

LEMMA SaleEnds ==
    ASSUME Owed, Counted, NEW n \in Nodes, NEW id \in TxIds, NEW a, a = id[1], Owner[a] = n,
           up[n], IsSale(n, id), ~IsSale(n, id)', SalesOfOthers(n, id),
           NEW b, NewBook(n, b), Spares(books[n], b, id)
    PROVE  /\ InFlight(n, a)' = InFlight(n, a) \ {id} /\ IsFiniteSet(InFlight(n, a)')
           /\ \A j \in InFlight(n, a)' : AmountOf(n, j)' = AmountOf(n, j)
           /\ AmountOf(n, id) \in Nat /\ Promised(n, a)' \in Nat /\ Promised(n, a) \in Nat
           /\ Promised(n, a) = Promised(n, a)' + AmountOf(n, id)
<1>1. a \in Asks /\ id \in InFlight(n, a)
  BY DEF TxIds, InFlight
<1>2. /\ IsFiniteSet(InFlight(n, a)) /\ InFlight(n, a) \subseteq TxIds
      /\ \A j \in InFlight(n, a) : AmountOf(n, j) \in Nat
  BY <1>1, InFlightFacts
<1>3. InFlight(n, a)' = InFlight(n, a) \ {id}
  BY DEF InFlight, SalesOfOthers
<1>4. \A j \in InFlight(n, a) \ {id} : AmountOf(n, j)' = AmountOf(n, j)
  BY <1>2, SaleKept DEF InFlight
<1>5. PICK S, f : S = InFlight(n, a) /\ f = [j \in S |-> AmountOf(n, j)]
  OBVIOUS
<1>6. PICK g : g = [j \in S \ {id} |-> AmountOf(n, j)']
  OBVIOUS
<1>7. Promised(n, a) = SumFunctionOnSet(f, S)
  BY <1>5 DEF Promised
<1>8. Promised(n, a)' = SumFunctionOnSet(g, S \ {id})
  BY <1>3, <1>5, <1>6 DEF Promised
<1>9. \A j \in S : f[j] \in Nat /\ f[id] = AmountOf(n, id)
  BY <1>1, <1>2, <1>5
<1>10. /\ SumFunctionOnSet(f, S) \in Nat /\ SumFunctionOnSet(f, S \ {id}) \in Nat
       /\ SumFunctionOnSet(f, S) = SumFunctionOnSet(f, S \ {id}) + f[id]
       /\ IsFiniteSet(S \ {id})
  BY <1>1, <1>2, <1>5, <1>9, SumPart
<1>11. SumFunctionOnSet(g, S \ {id}) = SumFunctionOnSet(f, S \ {id})
  <2>1. \A j \in S \ {id} : g[j] = f[j]
    BY <1>4, <1>5, <1>6
  <2> QED
    BY <1>10, <2>1, SumSame
<1> QED
  BY <1>1, <1>2, <1>3, <1>4, <1>5, <1>7, <1>8, <1>9, <1>10, <1>11

LEMMA SaleBegins ==
    ASSUME Owed, Counted, NEW n \in Nodes, NEW id \in TxIds, NEW a, a = id[1], Owner[a] = n,
           up[n], ~IsSale(n, id), IsSale(n, id)', SalesOfOthers(n, id),
           NEW b, NewBook(n, b), Spares(books[n], b, id), AmountOf(n, id)' \in Nat
    PROVE  /\ InFlight(n, a)' = InFlight(n, a) \cup {id} /\ IsFiniteSet(InFlight(n, a)')
           /\ Promised(n, a) \in Nat
           /\ Promised(n, a)' = Promised(n, a) + AmountOf(n, id)'
<1>1. a \in Asks /\ id \notin InFlight(n, a)
  BY DEF TxIds, InFlight
<1>2. /\ IsFiniteSet(InFlight(n, a)) /\ InFlight(n, a) \subseteq TxIds
      /\ \A j \in InFlight(n, a) : AmountOf(n, j) \in Nat
      /\ Promised(n, a) \in Nat
  BY <1>1, InFlightFacts
<1>3. InFlight(n, a)' = InFlight(n, a) \cup {id}
  BY DEF InFlight, SalesOfOthers
<1>4. \A j \in InFlight(n, a) : AmountOf(n, j)' = AmountOf(n, j)
  BY <1>1, <1>2, SaleKept DEF InFlight
<1>5. PICK S, f : S = InFlight(n, a) /\ f = [j \in S |-> AmountOf(n, j)]
  OBVIOUS
<1>6. PICK T, g : T = S \cup {id} /\ g = [j \in T |-> AmountOf(n, j)']
  OBVIOUS
<1>7. Promised(n, a) = SumFunctionOnSet(f, S)
  BY <1>5 DEF Promised
<1>8. Promised(n, a)' = SumFunctionOnSet(g, T)
  BY <1>3, <1>5, <1>6 DEF Promised
<1>9. \A j \in T : g[j] \in Int
  BY <1>2, <1>4, <1>5, <1>6
<1>10. g[id] = AmountOf(n, id)'
  BY <1>6
<1>11. SumFunctionOnSet(g, T) = SumFunctionOnSet(g, S) + g[id] /\ IsFiniteSet(T)
  <2>1. IsFiniteSet(S) /\ id \notin S
    BY <1>1, <1>2, <1>5
  <2>2. \A j \in S \cup {id} : g[j] \in Int
    BY <1>6, <1>9
  <2>3. SumFunctionOnSet(g, S \cup {id}) = SumFunctionOnSet(g, S) + g[id]
    BY <2>1, <2>2, SumAdd
  <2> QED
    BY <1>6, <2>1, <2>3, FS_AddElement
<1>12. SumFunctionOnSet(g, S) = SumFunctionOnSet(f, S)
  <2>1. \A j \in S : g[j] = f[j]
    BY <1>4, <1>5, <1>6
  <2> QED
    BY <1>2, <1>5, <2>1, SumSame
<1> QED
  BY <1>2, <1>3, <1>5, <1>6, <1>7, <1>8, <1>10, <1>11, <1>12

\* The rest of a sale that is over: what one of nothing leaves in flight.
LEMMA NothingLeft ==
    ASSUME Owed, Counted, NEW n \in Nodes, NEW a \in Asks, Owner[a] = n, up[n],
           NEW id \in InFlight(n, a), AmountOf(n, id) = Promised(n, a)
    PROVE  \A j \in InFlight(n, a) \ {id} : AmountOf(n, j) = 0
<1>1. PICK S, f : S = InFlight(n, a) /\ f = [j \in S |-> AmountOf(n, j)]
  OBVIOUS
<1>2. IsFiniteSet(S) /\ \A j \in S : f[j] \in Nat
  BY <1>1, InFlightFacts
<1>3. SumFunctionOnSet(f, S) = f[id]
  BY <1>1 DEF Promised
<1>4. PICK R : R = S \ {id}
  OBVIOUS
<1>5. SumFunctionOnSet(f, R) = 0 /\ IsFiniteSet(R)
  <2>1. id \in S /\ f[id] \in Nat
    BY <1>1, <1>2
  <2>2. /\ SumFunctionOnSet(f, R) \in Nat /\ IsFiniteSet(R)
        /\ SumFunctionOnSet(f, S) = SumFunctionOnSet(f, R) + f[id]
    BY <1>2, <1>4, <2>1, SumPart
  <2> QED
    BY <1>3, <2>1, <2>2
<1>6. ASSUME NEW j \in R
      PROVE  AmountOf(n, j) = 0
  <2>1. \A k \in R : f[k] \in Nat
    BY <1>2, <1>4
  <2>2. f[j] <= SumFunctionOnSet(f, R)
    BY <1>5, <2>1, SumPart
  <2>3. f[j] = AmountOf(n, j) /\ f[j] \in Nat
    BY <1>1, <1>4, <2>1
  <2> QED
    BY <1>5, <2>2, <2>3
<1> QED
  BY <1>1, <1>4, <1>6

\* A sale is not in flight for more than what is left.
LEMMA SaleFits ==
    ASSUME Owed, Counted, NEW n \in Nodes, NEW id \in TxIds, NEW a, a = id[1], Owner[a] = n,
           up[n], IsSale(n, id)
    PROVE  /\ a \in Asks /\ AmountOf(n, id) \in Nat /\ ask[a] \in AskObjects
           /\ ask[a].state = "deleted" => AmountOf(n, id) = 0
           /\ ask[a].state # "deleted" => /\ AmountOf(n, id) <= ask[a].commitment
                                          /\ ask[a].commitment = Promised(n, a)
                                          /\ ask[a].commitment <= ask[a].amount
<1>1. a \in Asks /\ id \in InFlight(n, a)
  BY DEF TxIds, InFlight
<1>2. /\ IsFiniteSet(InFlight(n, a)) /\ \A j \in InFlight(n, a) : AmountOf(n, j) \in Nat
  BY <1>1, InFlightFacts
<1>3. AmountOf(n, id) <= Promised(n, a)
  <2>1. PICK S, f : S = InFlight(n, a) /\ f = [j \in S |-> AmountOf(n, j)]
    OBVIOUS
  <2>2. \A j \in S : f[j] \in Nat
    BY <1>2, <2>1
  <2>3. f[id] <= SumFunctionOnSet(f, S)
    BY <1>1, <1>2, <2>1, <2>2, SumPart
  <2> QED
    BY <1>1, <2>1, <2>3 DEF Promised
<1>4. ask[a] \in AskObjects
  BY <1>1, TypesOf DEF OrdersTyped
<1>5. Committed(a)
  BY <1>1 DEF Counted
<1> QED
  BY <1>1, <1>2, <1>3, <1>4, <1>5 DEF Committed

LEMMA AsksFit ==
    ASSUME OrdersTyped, NEW a \in Asks, NEW e \in AskObjects, ask' = [ask EXCEPT ![a] = e],
           UNCHANGED <<bid, market>>
    PROVE  OrdersTyped' /\ ask'[a] = e /\ \A c \in Asks : c # a => SameAsk(c)
BY DEF OrdersTyped, SameAsk

LEMMA RollBackPayeeCounted ==
    ASSUME Owed, Owed', Counted, NEW n \in Nodes, NEW id \in TxIds, up[n],
           currentTX[n][id].role = "payee", RollBackPayee(n, id),
           Quiet(net'), UNCHANGED <<tunnels, outside>>
    PROVE  Counted'
<1>1. NewManager(n, id, NoTM) /\ SalesOfOthers(n, id)
  <2>1. SetTM(n, id, NoTM)
    BY DEF RollBackPayee, Forget
  <2> QED
    BY <2>1, TypesOf, SetTMFacts, SetTMSpares, ManagersFit
<1>2. UNCHANGED <<bid, market>>
  BY DEF RollBackPayee
<1>3. ~IsSale(n, id)'
  BY <1>1 DEF IsSale, NewManager, NoTM
<1>4. TunnelsTyped' /\ net' \in Links
  BY TypesOf DEF TunnelsTyped, Quiet
<1>5. CASE ~currentTX[n][id].contract
  <2>1. UNCHANGED <<ask, books>>
    BY <1>5 DEF RollBackPayee
  <2>2. NewBook(n, books[n]) /\ Cleared(books[n], books[n], id)
    BY <2>1, TypesOf, SameBooksFacts, SparesFacts DEF Cleared, Tidy
  <2>3. ~IsSale(n, id)
    BY <1>5 DEF IsSale
  <2>4. \A j \in TxIds : MadeOnce(j)'
    BY <1>2, <2>2, NotesFade DEF Cleared, Quiet
  <2>5. OrdersTyped' /\ \A a \in Asks : SameAsk(a)
    BY <1>2, <2>1, TypesOf DEF SameAsk, OrdersTyped
  <2> QED
    BY <1>1, <1>3, <1>4, <2>2, <2>3, <2>4, <2>5, CountedQuietly DEF Cleared, Tidy, Quiet
<1>6. CASE currentTX[n][id].contract
  <2>1. PICK b : b = RmContract(books[n], Payee(id))
    OBVIOUS
  <2>2. PICK a : a = id[1]
    OBVIOUS
  <2>3. NewBook(n, b)
    BY <1>6, <2>1, TypesOf, NewBookFacts DEF RollBackPayee
  <2>4. IsSale(n, id) /\ Owner[a] = n
    BY <1>6, <2>2, ManagerHas DEF IsSale, IsManager
  <2>5. Cleared(books[n], b, id)
    <3>1. Payee(id) \in DOMAIN books[n].contract /\ Payee(id).tx = id /\ MayUndo(n, id)
      BY <1>6, ManagerHas, TheRefs DEF IsManager, GetsPaid, MayUndo
    <3>2. \A row \in Takings(books[n]) : row.tx # id
      BY <3>1, NothingTaken
    <3> QED
      BY <2>1, <3>1, <3>2, TypesOf, RmCleared
  <2>6. /\ InFlight(n, a)' = InFlight(n, a) \ {id} /\ IsFiniteSet(InFlight(n, a)')
        /\ \A j \in InFlight(n, a)' : AmountOf(n, j)' = AmountOf(n, j)
        /\ AmountOf(n, id) \in Nat /\ Promised(n, a)' \in Nat /\ Promised(n, a) \in Nat
        /\ Promised(n, a) = Promised(n, a)' + AmountOf(n, id)
    <3>1. SalesOfOthers(n, id) /\ Spares(books[n], b, id)
      BY <1>1, <2>5 DEF Cleared
    <3> QED
      BY <1>3, <2>2, <2>3, <2>4, <3>1, SaleEnds, ZenonT(60)
  <2>7. PICK x : x = AmountOf(n, id)
    OBVIOUS
  <2>8. PICK e : e = [ask[a] EXCEPT !.commitment = ask[a].commitment - x]
    OBVIOUS
  <2>9. /\ a \in Asks /\ ask[a] \in AskObjects
        /\ ask[a].state = "deleted" => x = 0
        /\ ask[a].state # "deleted" => /\ x <= ask[a].commitment
                                       /\ ask[a].commitment = Promised(n, a)
                                       /\ ask[a].commitment <= ask[a].amount
    BY <2>2, <2>4, <2>7, SaleFits
  <2>10. /\ e.amount = ask[a].amount /\ e.state = ask[a].state
         /\ e.commitment = ask[a].commitment - x /\ e \in AskObjects
    BY <2>6, <2>7, <2>8, <2>9 DEF AskObjects
  <2>11. ask' = [ask EXCEPT ![a] = e]
    BY <1>6, <2>2, <2>7, <2>8 DEF RollBackPayee, Uncommitted, AmountOf
  <2>12. OrdersTyped' /\ ask'[a] = e /\ \A c \in Asks : c # a => SameAsk(c)
    BY <1>2, <2>9, <2>10, <2>11, TypesOf, AsksFit
  <2>13. Committed(a)'
    <3>1. CASE ask[a].state = "deleted"
      <4>1. \A j \in InFlight(n, a) : AmountOf(n, j) = 0
        BY <2>4, <2>9, <3>1 DEF Counted, Committed
      <4> QED
        BY <2>4, <2>6, <2>10, <2>12, <3>1, <4>1 DEF Committed
    <3>2. CASE ask[a].state # "deleted"
      <4>1. /\ e.commitment = Promised(n, a)' /\ e.commitment <= e.amount
        BY <2>6, <2>7, <2>9, <2>10, <3>2 DEF AskObjects
      <4> QED
        BY <2>4, <2>6, <2>10, <2>12, <3>2, <4>1 DEF Committed
    <3> QED
      BY <3>1, <3>2
  <2>14. Sold(a)'
    <3>1. Sold(a)
      BY <2>9 DEF Counted
    <3>2. Sales(a)' = Sales(a)
      BY <2>3, <2>4, <2>5 DEF Sales, Receipts, Takings, Cleared, NewBook
    <3>3. SoldOf(a)' = SoldOf(a)
      BY <3>2 DEF SoldOf
    <3>4. Unsold(a)' = Unsold(a)
      BY <2>10, <2>12 DEF Unsold
    <3> QED
      BY <3>1, <3>2, <3>3, <3>4 DEF Sold
  <2>15. \A j \in TxIds : MadeOnce(j)'
    BY <1>2, <2>3, <2>5, NotesFade DEF Cleared, Quiet
  <2> QED
    BY <1>1, <1>4, <2>2, <2>3, <2>4, <2>5, <2>12, <2>13, <2>14, <2>15, CountedBy
       DEF Cleared, Tidy
<1> QED
  BY <1>5, <1>6

-----------------------------------------------------------------------------
(* Handlers that leave the books and the orders alone, and rollbacks.      *)

LEMMA OnlyManagerCounted ==
    ASSUME Owed, Owed', Counted, NEW n \in Nodes, NEW id \in TxIds,
           UNCHANGED currentTX \/ \E tm \in Managers : SetTM(n, id, tm),
           IsSale(n, id)' <=> IsSale(n, id), UNCHANGED <<ask, bid, market, books, outside>>,
           TunnelsTyped', Quiet(net')
    PROVE  Counted'
<1>1. PICK tm : NewManager(n, id, tm)
  BY TypesOf, SetTMFacts, SameTMFacts
<1>2. SalesOfOthers(n, id)
  BY TypesOf, SetTMSpares
<1>3. NewBook(n, books[n]) /\ Cleared(books[n], books[n], id)
  BY TypesOf, SameBooksFacts, SparesFacts DEF Cleared, Tidy
<1>4. \A j \in TxIds : MadeOnce(j)'
  BY <1>3, NotesFade DEF Cleared, Quiet
<1>5. OrdersTyped' /\ \A a \in Asks : SameAsk(a)
  BY TypesOf DEF SameAsk, OrdersTyped
<1>6. AmountOf(n, id)' = AmountOf(n, id)
  BY DEF AmountOf
<1> QED
  BY <1>1, <1>2, <1>3, <1>4, <1>5, <1>6, CountedQuietly DEF Cleared, Tidy, Quiet

LEMMA NotSold ==
    ASSUME NEW n, NEW id, currentTX[n][id] = NoTM \/ currentTX[n][id].role \in {"hop", "coordinator"}
    PROVE  ~IsSale(n, id)
BY DEF NoTM, IsSale

LEMMA NewTMSold ==
    ASSUME ManagersKnown, NEW n \in Nodes, NEW id \in TxIds, NEW tm, SetTM(n, id, tm)
    PROVE  IsSale(n, id)' <=> tm.role = "payee" /\ tm.contract
BY DEF SetTM, ManagersKnown, IsSale

\* What is sent after an item was taken.
LEMMA SendsOrder ==
    ASSUME Owed, Counted, NEW n \in Nodes, NEW p \in Nodes, NEW phases, Receives(n, p, phases),
           NEW u, NEW phase \in Phases \ {"QUERY"}
    PROVE  Quiet(Sent(Taken(n, p), n, u, Order(phase, Head(net[p][n]).tx)))
<1>1. PICK id : id = Head(net[p][n]).tx
  OBVIOUS
<1>2. Order(phase, id) \in Items /\ Order(phase, id).phase = phase
  BY <1>1, HeadTyped, ItemsFit
<1> QED
  BY <1>1, <1>2, HeadTyped, SendQuietly

LEMMA SendsOn ==
    ASSUME Owed, Counted, NEW n \in Nodes, NEW p \in Nodes, NEW phases, Receives(n, p, phases),
           "QUERY" \notin phases, NEW u
    PROVE  Quiet(Sent(Taken(n, p), n, u, Head(net[p][n])))
<1>1. PICK item : item = Head(net[p][n])
  OBVIOUS
<1>2. item \in Items /\ item.phase # "QUERY"
  BY <1>1, HeadTyped
<1> QED
  BY <1>1, <1>2, HeadTyped, SendQuietly

LEMMA CoordinatorNoCounted ==
    ASSUME Owed, Owed', Counted, NEW n \in Nodes, NEW p \in Nodes, CoordinatorNo(n, p)
    PROVE  Counted'
<1>0. PICK item, id : item = Head(net[p][n]) /\ id = item.tx
  OBVIOUS
<1>1. Receives(n, p, {"VOTE_NO", "ABORT_REQUEST"}) /\ Tm(n, p).role = "coordinator"
  BY DEF CoordinatorNo
<1>2. id \in TxIds /\ currentTX[n][id].role = "coordinator"
  BY <1>0, <1>1, HeadTyped
<1>3. Quiet(net')
  <2>1. net' = Sent(Taken(n, p), n, NextHop[n][id[1]], Order("ABORT", Head(net[p][n]).tx))
    BY <1>0 DEF CoordinatorNo
  <2> QED
    BY <1>1, <2>1, SendsOrder DEF Phases
<1>4. RollBackCoordinator(n, id) /\ UNCHANGED <<tunnels, outside>>
  BY <1>0 DEF CoordinatorNo
<1> QED
  BY <1>2, <1>3, <1>4, RollBackCoordinatorCounted

LEMMA PayeeAbortCounted ==
    ASSUME Owed, Owed', Counted, NEW n \in Nodes, NEW p \in Nodes, PayeeAbort(n, p)
    PROVE  Counted'
<1>0. PICK item, id : item = Head(net[p][n]) /\ id = item.tx
  OBVIOUS
<1>1. Receives(n, p, {"ABORT"}) /\ Tm(n, p).role = "payee"
  BY DEF PayeeAbort
<1>2. id \in TxIds /\ currentTX[n][id].role = "payee" /\ up[n] /\ Quiet(Taken(n, p))
  BY <1>0, <1>1, HeadTyped
<1>3. RollBackPayee(n, id) /\ net' = Taken(n, p) /\ UNCHANGED <<tunnels, outside>>
  BY <1>0 DEF PayeeAbort
<1> QED
  BY <1>2, <1>3, RollBackPayeeCounted

LEMMA PayeeUninitialisedCounted ==
    ASSUME Owed, Owed', Counted, NEW n \in Nodes, NEW p \in Nodes, PayeeUninitialised(n, p), ~Die(n)
    PROVE  Counted'
<1>0. PICK item, id : item = Head(net[p][n]) /\ id = item.tx
  OBVIOUS
<1>1. Receives(n, p, {"COMMIT"}) /\ Tm(n, p) = NoTM
  BY DEF PayeeUninitialised
<1>2. id \in TxIds /\ currentTX[n][id] = NoTM /\ Quiet(Taken(n, p))
  BY <1>0, <1>1, HeadTyped
<1>3. PICK tm : tm = Cohorte("payee", "ABORT_REQUEST", FALSE)
  OBVIOUS
<1>4. /\ SetTM(n, id, tm) /\ UNCHANGED <<orders, books, tunnels, chain, outside>>
      /\ \/ net' = Sent(Taken(n, p), n, p, Order("ABORT_REQUEST", Head(net[p][n]).tx))
         \/ net' = Taken(n, p)
  BY <1>0, <1>3 DEF PayeeUninitialised
<1>5. Quiet(net')
  BY <1>1, <1>2, <1>4, SendsOrder DEF Phases
<1>6. tm \in Managers /\ tm.role = "payee" /\ ~tm.contract
  BY <1>3 DEF Cohorte, Managers
<1>7. ~IsSale(n, id) /\ ~IsSale(n, id)'
  BY <1>2, <1>4, <1>6, NotSold, NewTMSold, TypesOf
<1>8. TunnelsTyped'
  BY <1>4, TypesOf DEF TunnelsTyped
<1> QED
  BY <1>2, <1>4, <1>5, <1>6, <1>7, <1>8, OnlyManagerCounted DEF orders

LEMMA PayeeGoneCounted ==
    ASSUME Owed, Owed', Counted, NEW n \in Nodes, NEW p \in Nodes, PayeeGone(n, p)
    PROVE  Counted'
<1>0. PICK id : id = Head(net[p][n]).tx
  OBVIOUS
<1>1. Receives(n, p, {"ABORT"}) /\ net' = Taken(n, p)
  BY DEF PayeeGone
<1>2. id \in TxIds /\ Quiet(net')
  BY <1>0, <1>1, HeadTyped
<1>3. UNCHANGED <<ask, bid, market, currentTX, books, tunnels, outside>>
  BY DEF PayeeGone, orders
<1>4. TunnelsTyped' /\ (IsSale(n, id)' <=> IsSale(n, id))
  BY <1>3, TypesOf DEF TunnelsTyped, IsSale
<1> QED
  BY <1>2, <1>3, <1>4, OnlyManagerCounted

LEMMA PayeeUnknownPhaseCounted ==
    ASSUME Owed, Owed', Counted, NEW n \in Nodes, NEW p \in Nodes, PayeeUnknownPhase(n, p)
    PROVE  Counted'
<1>0. PICK id : id = Head(net[p][n]).tx
  OBVIOUS
<1>1. /\ Receives(n, p, {"VOTE_YES", "VOTE_NO", "ABORT_REQUEST"}) /\ net' = Taken(n, p)
      /\ UNCHANGED <<ask, bid, market, books, tunnels, outside>>
  BY DEF PayeeUnknownPhase, orders
<1>2. id \in TxIds /\ Tm(n, p) = currentTX[n][id] /\ Quiet(net')
  BY <1>0, <1>1, HeadTyped
<1>3. PICK fresh : fresh = Cohorte("payee", "INIT", FALSE)
  OBVIOUS
<1>4. fresh \in Managers /\ fresh.role = "payee" /\ ~fresh.contract
  BY <1>3 DEF Cohorte, Managers
<1>5. UNCHANGED currentTX \/ (currentTX[n][id] = NoTM /\ SetTM(n, id, fresh))
  BY <1>0, <1>2, <1>3 DEF PayeeUnknownPhase
<1>6. TunnelsTyped'
  BY <1>1, TypesOf DEF TunnelsTyped
<1>7. CASE UNCHANGED currentTX
  <2>1. IsSale(n, id)' <=> IsSale(n, id)
    BY <1>7 DEF IsSale
  <2> QED
    BY <1>1, <1>2, <1>6, <1>7, <2>1, OnlyManagerCounted
<1>8. CASE currentTX[n][id] = NoTM /\ SetTM(n, id, fresh)
  <2>1. ~IsSale(n, id) /\ ~IsSale(n, id)'
    BY <1>2, <1>4, <1>8, NotSold, NewTMSold, TypesOf
  <2> QED
    BY <1>1, <1>2, <1>4, <1>6, <1>8, <2>1, OnlyManagerCounted
<1> QED
  BY <1>5, <1>7, <1>8

LEMMA HopOutOfPhaseCounted ==
    ASSUME Owed, Owed', Counted, NEW n \in Nodes, NEW p \in Nodes, HopOutOfPhase(n, p)
    PROVE  Counted'
<1>0. PICK id : id = Head(net[p][n]).tx
  OBVIOUS
<1>1. Receives(n, p, {"VOTE_YES", "VOTE_NO", "COMMIT"}) /\ ActsAsHop(n, p)
  BY DEF HopOutOfPhase
<1>2. id \in TxIds /\ Tm(n, p) = currentTX[n][id]
  BY <1>0, <1>1, HeadTyped
<1>3. PICK tm : tm = Cohorte("hop", "ABORT_REQUEST", HasContracts(n, p))
  OBVIOUS
<1>4. /\ SetTM(n, id, tm) /\ UNCHANGED <<orders, books, tunnels, chain, outside>>
      /\ net' = Sent(Taken(n, p), n, p, Order("ABORT_REQUEST", Head(net[p][n]).tx))
  BY <1>0, <1>3 DEF HopOutOfPhase
<1>5. Quiet(net')
  BY <1>1, <1>4, SendsOrder DEF Phases
<1>6. tm \in Managers /\ tm.role = "hop"
  <2>1. HasContracts(n, p) \in BOOLEAN
    BY <1>2, TypesOf DEF HasContracts, ManagersKnown, Managers
  <2> QED
    BY <1>3, <2>1, ManagersFit
<1>7. ~IsSale(n, id) /\ ~IsSale(n, id)'
  BY <1>1, <1>2, <1>4, <1>6, NotSold, NewTMSold, TypesOf DEF ActsAsHop
<1>8. TunnelsTyped'
  BY <1>4, TypesOf DEF TunnelsTyped
<1> QED
  BY <1>2, <1>4, <1>5, <1>6, <1>7, <1>8, OnlyManagerCounted DEF orders

LEMMA HopAbortCounted ==
    ASSUME Owed, Owed', Counted, NEW n \in Nodes, NEW p \in Nodes, HopAbort(n, p)
    PROVE  Counted'
<1>0. PICK id : id = Head(net[p][n]).tx
  OBVIOUS
<1>1. /\ Receives(n, p, {"ABORT"}) /\ UNCHANGED <<tunnels, outside>>
      /\ net' = Sent(Taken(n, p), n, ToSeller(n, id[1]), Head(net[p][n]))
  BY <1>0 DEF HopAbort
<1>2. id \in TxIds /\ Tm(n, p) = currentTX[n][id]
  BY <1>0, <1>1, HeadTyped
<1>3. Quiet(net')
  BY <1>1, SendsOn
<1>4. CASE Tm(n, p).role = "hop" /\ RollBackHop(n, id)
  BY <1>1, <1>2, <1>3, <1>4, RollBackHopCounted
<1>5. CASE UNCHANGED <<orders, currentTX, books>>
  <2>1. TunnelsTyped' /\ (IsSale(n, id)' <=> IsSale(n, id))
    BY <1>1, <1>5, TypesOf DEF TunnelsTyped, IsSale
  <2> QED
    BY <1>1, <1>2, <1>3, <1>5, <2>1, OnlyManagerCounted DEF orders
<1> QED
  BY <1>0, <1>4, <1>5 DEF HopAbort

LEMMA HopAbortRequestCounted ==
    ASSUME Owed, Owed', Counted, NEW n \in Nodes, NEW p \in Nodes, HopAbortRequest(n, p)
    PROVE  Counted'
<1>0. PICK id : id = Head(net[p][n]).tx
  OBVIOUS
<1>1. /\ Receives(n, p, {"ABORT_REQUEST"}) /\ ActsAsHop(n, p)
      /\ UNCHANGED <<orders, books, tunnels, chain, outside>>
      /\ net' = Sent(Taken(n, p), n, ToBuyer(n, id[1]), Head(net[p][n]))
  BY <1>0 DEF HopAbortRequest
<1>2. id \in TxIds /\ Tm(n, p) = currentTX[n][id]
  BY <1>0, <1>1, HeadTyped
<1>3. Quiet(net')
  BY <1>1, SendsOn
<1>4. PICK tm \in Managers : SetTM(n, id, tm) /\ (tm = NoTM \/ tm.role = "hop")
  <2>1. NoTM \in Managers /\ Cohorte("hop", "INIT", FALSE) \in Managers
        /\ Cohorte("hop", "INIT", FALSE).role = "hop"
    BY ManagersFit
  <2>2. Tm(n, p) \in Managers /\ (Tm(n, p) = NoTM \/ Tm(n, p).role = "hop")
    BY <1>1, <1>2, TypesOf DEF ManagersKnown, ActsAsHop
  <2>3. SetTM(n, id, NoTM) \/ SetTM(n, id, IF Tm(n, p) = NoTM
                                          THEN Cohorte("hop", "INIT", FALSE) ELSE Tm(n, p))
    BY <1>0 DEF HopAbortRequest, Forget
  <2> QED
    BY <2>1, <2>2, <2>3
<1>5. ~IsSale(n, id) /\ ~IsSale(n, id)'
  BY <1>1, <1>2, <1>4, NotSold, NewTMSold, TypesOf DEF ActsAsHop, NoTM
<1>6. TunnelsTyped'
  BY <1>1, TypesOf DEF TunnelsTyped
<1> QED
  BY <1>1, <1>2, <1>3, <1>4, <1>5, <1>6, OnlyManagerCounted DEF orders

-----------------------------------------------------------------------------
(* Steps of the user, of links and of the gossip, and processes that end.  *)

LEMMA AllCounted ==
    ASSUME Owed', \A m \in Nodes : IsOrderly(books'[m]), \A j \in TxIds : MadeOnce(j)',
           OrdersTyped', TunnelsTyped', net' \in Links, up' \in [Nodes -> BOOLEAN],
           mishaps' \in 0..MaxMishaps, \A a \in Asks : Committed(a)' /\ Sold(a)'
    PROVE  Counted'
<1>1. ManagersKnown' /\ chain' \subseteq TxIds
  BY DEF Owed, Shape
<1>2. \A m \in Nodes : IsOrderly(books[m])'
  BY DEF IsOrderly
<1>3. TypeOK'
  BY <1>1, <1>2 DEF TypeOK, ManagersKnown, TunnelsTyped, Links
<1> QED
  BY <1>3 DEF Counted

LEMMA SameBooksCounted ==
    ASSUME Owed, Owed', Counted, UNCHANGED <<books, up, tunnels>>, OrdersTyped',
           \A a \in Asks : SameAsk(a),
           \A o \in Bids : bid[o].matched \subseteq bid'[o].matched,
           \A n \in Nodes, id \in TxIds : IsSale(n, id)' <=> IsSale(n, id),
           net' \in Links, NoNewQueries(net'), mishaps' \in 0..MaxMishaps
    PROVE  Counted'
<1>1. ASSUME NEW j \in TxIds
      PROVE  MadeOnce(j)'
  <2>1. MadeOnce(j) /\ j[2] \in Bids
    BY DEF Counted, TxIds
  <2>2. \A m \in Nodes : Noted(m, j)' => Noted(m, j)
    BY DEF Noted
  <2> QED
    BY <2>1, <2>2, MadeOnceStays DEF NoNewQueries
<1>2. ASSUME NEW a \in Asks
      PROVE  Committed(a)' /\ Sold(a)'
  <2>1. PICK o : o = Owner[a]
    OBVIOUS
  <2>2. o \in Nodes /\ Committed(a) /\ Sold(a)
    BY <2>1, OrdersAssumption DEF Counted
  <2>3. \A id \in TxIds : AmountOf(o, id)' = AmountOf(o, id)
    BY DEF AmountOf
  <2>4. Receipts(o)' = Receipts(o)
    BY DEF Receipts
  <2> QED
    BY <2>1, <2>2, <2>3, <2>4, CommittedStays, SoldStays
<1>3. \A m \in Nodes : IsOrderly(books'[m])
  BY TypesOf
<1>4. TunnelsTyped' /\ up' \in [Nodes -> BOOLEAN]
  BY TypesOf DEF TunnelsTyped, Counted, TypeOK
<1> QED
  BY <1>1, <1>2, <1>3, <1>4, AllCounted

LEMMA DropLinkCounted ==
    ASSUME Owed, Owed', Counted, NEW n \in Nodes, NEW p \in Nodes, DropLink(n, p)
    PROVE  Counted'
<1>1. UNCHANGED <<ask, bid, market, currentTX, books, tunnels, up>>
  BY DEF DropLink, orders
<1>2. mishaps' \in 0..MaxMishaps
  <2>1. mishaps < MaxMishaps /\ mishaps' = mishaps + 1
    BY DEF DropLink
  <2>2. mishaps \in 0..MaxMishaps /\ MaxMishaps \in Nat
    BY OrdersAssumption DEF Counted, TypeOK
  <2> QED
    BY <2>1, <2>2
<1>3. PICK there \in Prefixes(net[n][p]), back \in Prefixes(net[p][n]) :
          net' = [net EXCEPT ![n][p] = there, ![p][n] = back]
  BY DEF DropLink
<1>4. net \in Links /\ there \in Seq(Items) /\ back \in Seq(Items)
  <2>1. net \in Links /\ net[n][p] \in Seq(Items) /\ net[p][n] \in Seq(Items)
    BY TypesOf DEF Links
  <2> QED
    BY <2>1, LeftFacts
<1>5. net' \in Links
  BY <1>3, <1>4 DEF Links
<1>6. NoNewQueries(net')
  <2>1. Range(there) \subseteq Range(net[n][p]) /\ Range(back) \subseteq Range(net[p][n])
    <3>1. net[n][p] \in Seq(Items) /\ net[p][n] \in Seq(Items)
      BY <1>4 DEF Links
    <3>2. LeftOf(there, net[n][p]) /\ LeftOf(back, net[p][n])
      BY <1>3, <3>1, LeftFacts
    <3> QED
      BY <3>2 DEF LeftOf, Range
  <2>2. \A f, t \in Nodes : net'[f][t] \in {net[f][t], there, back}
                            /\ (net'[f][t] = there => (f = n /\ t = p) \/ net'[f][t] = net[f][t] \/ net'[f][t] = back)
    BY <1>3, <1>4 DEF Links
  <2>3. \A f, t \in Nodes : Range(net'[f][t]) \subseteq Range(net[f][t])
    <3> SUFFICES ASSUME NEW f \in Nodes, NEW t \in Nodes
                 PROVE  Range(net'[f][t]) \subseteq Range(net[f][t])
      OBVIOUS
    <3>1. CASE f = p /\ t = n
      <4>1. net'[f][t] = back
        BY <1>3, <1>4, <3>1 DEF Links
      <4> QED
        BY <2>1, <3>1, <4>1
    <3>2. CASE f = n /\ t = p /\ ~(f = p /\ t = n)
      <4>1. net'[f][t] = there
        BY <1>3, <1>4, <3>2 DEF Links
      <4> QED
        BY <2>1, <3>2, <4>1
    <3>3. CASE ~(f = n /\ t = p) /\ ~(f = p /\ t = n)
      BY <1>3, <1>4, <3>3 DEF Links
    <3> QED
      BY <3>1, <3>2, <3>3
  <2> QED
    BY <2>3 DEF NoNewQueries
<1>7. OrdersTyped' /\ \A a \in Asks : SameAsk(a)
  BY <1>1, TypesOf DEF OrdersTyped, SameAsk
<1>8. \A m \in Nodes, id \in TxIds : IsSale(m, id)' <=> IsSale(m, id)
  BY <1>1 DEF IsSale
<1> QED
  BY <1>1, <1>2, <1>5, <1>6, <1>7, <1>8, SameBooksCounted

LEMMA CancelOrderCounted ==
    ASSUME Owed, Owed', Counted, NEW n \in Nodes, NEW o \in Asks \cup Bids, CancelOrder(n, o)
    PROVE  Counted'
<1>1. UNCHANGED <<market, currentTX, books, tunnels, net, up>>
  BY DEF CancelOrder
<1>2. mishaps' \in 0..MaxMishaps
  <2>1. mishaps < MaxMishaps /\ mishaps' = mishaps + 1
    BY DEF CancelOrder
  <2>2. mishaps \in 0..MaxMishaps /\ MaxMishaps \in Nat
    BY OrdersAssumption DEF Counted, TypeOK
  <2> QED
    BY <2>1, <2>2
<1>3. OrdersTyped
  BY TypesOf
<1>4. /\ OrdersTyped' /\ \A a \in Asks : SameAsk(a)
      /\ \A b \in Bids : bid[b].matched \subseteq bid'[b].matched
  <2>1. CASE o \in Asks /\ ask[o].state = "open" /\ ask' = [ask EXCEPT ![o] = Cancelled(@)]
             /\ UNCHANGED bid
    <3>1. PICK e : e = Cancelled(ask[o])
      OBVIOUS
    <3>2. /\ e.amount = ask[o].amount /\ e.commitment = ask[o].commitment
          /\ e.state = "cancelled" /\ e \in AskObjects
      BY <1>3, <2>1, <3>1 DEF OrdersTyped, AskObjects, Cancelled, OrderStates
    <3>3. ask' = [ask EXCEPT ![o] = e]
      BY <2>1, <3>1
    <3>4. OrdersTyped' /\ ask'[o] = e /\ \A c \in Asks : c # o => SameAsk(c)
      BY <1>1, <1>3, <2>1, <3>2, <3>3, AsksFit
    <3>5. SameAsk(o)
      BY <2>1, <3>2, <3>4 DEF SameAsk
    <3> QED
      BY <2>1, <3>4, <3>5
  <2>2. CASE o \in Bids /\ bid[o].state = "open" /\ bid' = [bid EXCEPT ![o] = Cancelled(@)]
             /\ UNCHANGED ask
    <3>1. PICK e : e = Cancelled(bid[o])
      OBVIOUS
    <3>2. e \in BidObjects /\ e.matched = bid[o].matched
      BY <1>3, <2>2, <3>1 DEF OrdersTyped, BidObjects, Cancelled, OrderStates
    <3>3. bid' = [bid EXCEPT ![o] = e]
      BY <2>2, <3>1
    <3>4. bid' \in [Bids -> BidObjects] /\ \A b \in Bids : bid'[b].matched = bid[b].matched
      BY <1>3, <3>2, <3>3 DEF OrdersTyped
    <3>5. OrdersTyped'
      BY <1>1, <1>3, <2>2, <3>4 DEF OrdersTyped
    <3> QED
      BY <2>2, <3>4, <3>5 DEF SameAsk
  <2> QED
    BY <2>1, <2>2 DEF CancelOrder
<1>5. net' \in Links /\ NoNewQueries(net')
  BY <1>1, TypesOf DEF NoNewQueries
<1>6. \A m \in Nodes, id \in TxIds : IsSale(m, id)' <=> IsSale(m, id)
  BY <1>1 DEF IsSale
<1> QED
  BY <1>1, <1>2, <1>4, <1>5, <1>6, SameBooksCounted

LEMMA LearnOrderCounted ==
    ASSUME Owed, Owed', Counted, NEW n \in Nodes, NEW a \in Asks, LearnOrder(n, a)
    PROVE  Counted'
<1>1. UNCHANGED <<ask, bid, books, tunnels, net, up, mishaps>>
  BY DEF LearnOrder, outside
<1>2. PICK becomes : currentTX' = [currentTX EXCEPT ![n] = WithoutOrder(n, a, becomes, NoTx)]
  BY DEF LearnOrder
<1>3. \A m \in Nodes, id \in TxIds : IsSale(m, id)' <=> IsSale(m, id)
  <2> SUFFICES ASSUME NEW m \in Nodes, NEW id \in TxIds
               PROVE  IsSale(m, id)' <=> IsSale(m, id)
    OBVIOUS
  <2>1. ManagersKnown
    BY TypesOf
  <2>2. CASE m # n
    BY <1>2, <2>1, <2>2 DEF IsSale, ManagersKnown
  <2>3. CASE m = n
    <3>1. currentTX'[n] = WithoutOrder(n, a, becomes, NoTx)
      BY <1>2, <2>1 DEF ManagersKnown
    <3>2. WithoutOrder(n, a, becomes, NoTx)[id] \in {NoTM, Coordinator(becomes), currentTX[n][id]}
      BY DEF WithoutOrder
    <3>3. /\ WithoutOrder(n, a, becomes, NoTx)[id] # currentTX[n][id] =>
                /\ id = NoTx \/ currentTX[n][id] = Coordinator("book")
                /\ id # NoTx => WithoutOrder(n, a, becomes, NoTx)[id] = Coordinator(becomes)
      BY DEF WithoutOrder
    <3>4. Coordinator("book").role = "coordinator" /\ Coordinator(becomes).role = "coordinator"
      BY DEF Coordinator
    <3>5. id # NoTx
      BY DEF TxIds, NoTx
    <3>6. CASE currentTX'[n][id] = currentTX[n][id]
      BY <2>3, <3>6 DEF IsSale
    <3>7. CASE currentTX'[n][id] # currentTX[n][id]
      <4>1. currentTX[n][id].role = "coordinator" /\ currentTX'[n][id].role = "coordinator"
        BY <3>1, <3>3, <3>4, <3>5, <3>7
      <4> QED
        BY <2>3, <4>1 DEF IsSale
    <3> QED
      BY <3>6, <3>7
  <2> QED
    BY <2>2, <2>3
<1>4. PICK e \in AsksOfOthers : market' = [market EXCEPT ![n][a] = e]
  <2>1. market[n][a] \in AsksOfOthers /\ ask[a] \in AskObjects
    BY TypesOf DEF OrdersTyped
  <2>2. CASE market' = [market EXCEPT ![n][a].listed = FALSE]
    <3>1. PICK e : e = [market[n][a] EXCEPT !.listed = FALSE]
      OBVIOUS
    <3>2. e \in AsksOfOthers
      BY <2>1, <3>1 DEF AsksOfOthers
    <3>3. market' = [market EXCEPT ![n][a] = e]
      BY <2>2, <3>1
    <3> QED
      BY <3>2, <3>3
  <2>3. CASE market' = [market EXCEPT ![n][a] =
                 [amount |-> ask[a].amount, listed |-> TRUE,
                  ignored |-> market[n][a].ignored /\ market[n][a].listed]]
    <3>1. PICK e : e = [amount |-> ask[a].amount, listed |-> TRUE,
                        ignored |-> market[n][a].ignored /\ market[n][a].listed]
      OBVIOUS
    <3>2. e \in AsksOfOthers
      BY <2>1, <3>1 DEF AsksOfOthers, AskObjects
    <3>3. market' = [market EXCEPT ![n][a] = e]
      BY <2>3, <3>1
    <3> QED
      BY <3>2, <3>3
  <2> QED
    BY <2>2, <2>3 DEF LearnOrder
<1>5. OrdersTyped' /\ \A c \in Asks : SameAsk(c)
  <2>1. market' \in [Nodes -> [Asks -> AsksOfOthers]]
    BY <1>4, TypesOf, MarketFits DEF OrdersTyped
  <2> QED
    BY <1>1, <2>1, TypesOf DEF OrdersTyped, SameAsk
<1>6. net' \in Links /\ NoNewQueries(net') /\ mishaps' \in 0..MaxMishaps
  BY <1>1, TypesOf DEF NoNewQueries, Counted, TypeOK
<1> QED
  BY <1>1, <1>3, <1>5, <1>6, SameBooksCounted

LEMMA DieCounted ==
    ASSUME Owed, Owed', Counted, NEW n \in Nodes, Die(n)
    PROVE  Counted'
<1>1. PICK kept \in [Nodes -> UNION {Prefixes(net[n][t]) : t \in Nodes}] :
          /\ \A t \in Nodes : kept[t] \in Prefixes(net[n][t])
          /\ net' = [f \in Nodes |-> [t \in Nodes |->
                        IF t = n THEN <<>>
                        ELSE IF f = n THEN kept[t] ELSE net[f][t]]]
  BY DEF Die
<1>2. UNCHANGED <<ask, bid, market, mishaps>>
  BY DEF Die, orders
<1>3. /\ up' = [up EXCEPT ![n] = FALSE] /\ up \in [Nodes -> BOOLEAN]
      /\ mishaps \in 0..MaxMishaps
  BY DEF Die, Counted, TypeOK
<1>4. ASSUME NEW f \in Nodes, NEW t \in Nodes
      PROVE  net'[f][t] \in Seq(Items) /\ Range(net'[f][t]) \subseteq Range(net[f][t])
  <2>1. PICK q, r : q = net[f][t] /\ r = net'[f][t]
    OBVIOUS
  <2>2. q \in Seq(Items)
    BY <2>1, TypesOf DEF Links
  <2>3. r = <<>> \/ r = q \/ r \in Prefixes(q)
    BY <1>1, <2>1
  <2>4. r \in Seq(Items) /\ LeftOf(r, q)
    BY <2>2, <2>3, LeftFacts
  <2> QED
    BY <2>1, <2>4 DEF LeftOf, Range
<1>5. net' \in Links /\ NoNewQueries(net')
  <2>1. PICK w : w = net'
    OBVIOUS
  <2>2. /\ w = [f \in Nodes |-> w[f]]
        /\ \A f \in Nodes : w[f] = [t \in Nodes |-> w[f][t]]
    BY <1>1, <2>1
  <2>3. \A f, t \in Nodes : w[f][t] \in Seq(Items)
    BY <1>4, <2>1
  <2>4. \A f \in Nodes : w[f] \in [Nodes -> Seq(Items)]
    BY <2>2, <2>3
  <2>5. w \in Links
    BY <2>2, <2>4 DEF Links
  <2>6. NoNewQueries(w)
    BY <1>4, <2>1 DEF NoNewQueries
  <2> QED
    BY <2>1, <2>5, <2>6
<1>6. /\ \A m \in Nodes : books'[m].stored = books[m].stored
      /\ \A m \in Nodes : m # n => books'[m] = books[m]
      /\ books'[n].contract = <<>> /\ books'[n].list = <<>>
      /\ books'[n].credit = books[n].credit
  BY DEF Die, Owed, Shape, IsBook
<1>7. ASSUME NEW m \in Nodes
      PROVE  IsOrderly(books'[m]) /\ Range(books'[m].list) \subseteq Range(books[m].list)
  <2>1. IsOrderly(books[m])
    BY TypesOf
  <2>2. CASE m # n
    BY <1>6, <2>1, <2>2
  <2>3. CASE m = n
    <3>1. DOMAIN <<>> = {}
      OBVIOUS
    <3>2. <<>> \in Seq({})
      OBVIOUS
    <3>3. IsInjective(<<>>) /\ Range(<<>>) = {}
      BY <3>1 DEF IsInjective, Range
    <3> QED
      BY <1>6, <2>1, <2>3, <3>1, <3>2, <3>3 DEF IsOrderly
  <2> QED
    BY <2>2, <2>3
<1>8. ASSUME NEW j \in TxIds
      PROVE  MadeOnce(j)'
  <2>1. MadeOnce(j) /\ \A m \in Nodes : Noted(m, j)' => Noted(m, j)
    BY <1>7, NotesStay DEF Counted
  <2> QED
    BY <1>2, <1>5, <2>1, MadeOnceStays DEF NoNewQueries
<1>9. ASSUME NEW a \in Asks
      PROVE  Committed(a)' /\ Sold(a)'
  <2>1. PICK o : o = Owner[a]
    OBVIOUS
  <2>2. o \in Nodes /\ Committed(a) /\ Sold(a) /\ SameAsk(a)
    BY <1>2, <2>1, OrdersAssumption DEF Counted, SameAsk
  <2>3. Receipts(o)' = Receipts(o)
    BY <1>6, <2>2 DEF Receipts
  <2>4. Sold(a)'
    BY <2>1, <2>2, <2>3, SoldStays
  <2>5. CASE o = n
    <3>1. ~up'[o]
      BY <1>3, <2>5
    <3> QED
      BY <2>1, <2>4, <3>1 DEF Committed
  <2>6. CASE o # n
    <3>1. books'[o] = books[o] /\ currentTX'[o] = currentTX[o] /\ up'[o] = up[o]
      BY <1>3, <1>6, <2>2, <2>6, TypesOf DEF Die, ManagersKnown
    <3>2. \A id \in TxIds : (IsSale(o, id)' <=> IsSale(o, id)) /\ AmountOf(o, id)' = AmountOf(o, id)
      BY <3>1 DEF IsSale, AmountOf
    <3> QED
      BY <2>1, <2>2, <2>4, <3>1, <3>2, CommittedStays
  <2> QED
    BY <2>5, <2>6
<1>10. OrdersTyped' /\ TunnelsTyped'
  BY <1>2, TypesOf DEF Die, OrdersTyped, TunnelsTyped
<1>11. up' \in [Nodes -> BOOLEAN] /\ mishaps' \in 0..MaxMishaps
  BY <1>2, <1>3
<1> QED
  BY <1>5, <1>7, <1>8, <1>9, <1>10, <1>11, AllCounted

-----------------------------------------------------------------------------
(* Votes and commitments of the buyer and of hops.                         *)

\* Contracts of a transaction change.
Changed(b, c, id) ==
    /\ Tidy(b, c) /\ Spares(b, c, id) /\ c.stored = b.stored /\ IsBook(c)
    /\ DOMAIN c.contract = DOMAIN b.contract

LEMMA ChangedTwice ==
    ASSUME NEW b, NEW c, NEW d, NEW id, Changed(b, c, id), Changed(c, d, id)
    PROVE  Changed(b, d, id)
BY TidyTwice, SparesFacts DEF Changed

LEMMA EditChanged ==
    ASSUME NEW b, IsBook(b), IsOrderly(b), NEW ref \in DOMAIN b.contract,
           NEW id \in TxIds, ref.tx = id
    PROVE  /\ \A amount \in Nat : Changed(b, SetBtcAmount(b, ref, amount), id)
           /\ \A btcTx \in {NoBtcTx, VoteNoTx, id} : Changed(b, SetBtcTxId(b, ref, btcTx), id)
           /\ Changed(b, Activate(b, ref), id)
<1>1. \A c, x, y : Edited(b, c, ref, x, y) /\ Tidy(b, c) => Changed(b, c, id)
  <2> SUFFICES ASSUME NEW c, NEW x, NEW y, Edited(b, c, ref, x, y), Tidy(b, c)
               PROVE  Changed(b, c, id)
    OBVIOUS
  <2>1. Spares(b, c, id)
    BY SparesFacts
  <2> QED
    BY <2>1 DEF Changed, Edited
<1>2. ASSUME NEW amount \in Nat
      PROVE  Changed(b, SetBtcAmount(b, ref, amount), id)
  BY <1>1, EditTidy, SetAmountFacts
<1>3. ASSUME NEW btcTx \in {NoBtcTx, VoteNoTx, id}
      PROVE  Changed(b, SetBtcTxId(b, ref, btcTx), id)
  <2>1. btcTx \in BtcTxs
    BY DEF BtcTxs
  <2>2. Tidy(b, SetBtcTxId(b, ref, btcTx))
    BY <2>1, EditTidy
  <2>3. Edited(b, SetBtcTxId(b, ref, btcTx), ref, b.contract[ref].amount, btcTx)
    BY SetBtcTxFacts
  <2> QED
    BY <1>1, <2>2, <2>3
<1>4. Changed(b, Activate(b, ref), id)
  BY <1>1, EditTidy, ActivateFacts
<1> QED
  BY <1>2, <1>3, <1>4

LEMMA AcceptedFacts ==
    ASSUME NEW b, IsBook(b), IsOrderly(b), NEW id \in TxIds, Payer(id) \in DOMAIN b.contract,
           NEW item, item.amount \in Nat, item.btcTx = id
    PROVE  /\ Changed(b, AcceptVote(b, id, item), id)
           /\ AcceptVote(b, id, item).contract[Payer(id)].peer = b.contract[Payer(id)].peer
           /\ AcceptVote(b, id, item).contract[Payer(id)].btcTx = id
<1>1. PICK ref : ref = Payer(id)
  OBVIOUS
<1>2. ref \in DOMAIN b.contract /\ ref.tx = id
  BY <1>1, TheRefs
<1>3. PICK c : c = SetBtcAmount(b, ref, item.amount)
  OBVIOUS
<1>4. Changed(b, c, id) /\ c.contract[ref].peer = b.contract[ref].peer
  BY <1>2, <1>3, EditChanged, SetAmountFacts DEF Edited
<1>5. IsBook(c) /\ IsOrderly(c) /\ ref \in DOMAIN c.contract
  BY <1>2, <1>4 DEF Changed, Tidy
<1>6. PICK d : d = SetBtcTxId(c, ref, item.btcTx)
  OBVIOUS
<1>7. /\ Changed(c, d, id) /\ d.contract[ref].peer = c.contract[ref].peer
      /\ d.contract[ref].btcTx = id
  BY <1>2, <1>5, <1>6, EditChanged, SetBtcTxFacts DEF Edited
<1>8. IsBook(d) /\ IsOrderly(d) /\ ref \in DOMAIN d.contract
  BY <1>5, <1>7 DEF Changed, Tidy
<1>9. PICK e : e = Activate(d, ref)
  OBVIOUS
<1>10. /\ Changed(d, e, id) /\ e.contract[ref].peer = d.contract[ref].peer
       /\ e.contract[ref].btcTx = id
  BY <1>2, <1>7, <1>8, <1>9, EditChanged, ActivateFacts DEF Edited
<1>11. e = AcceptVote(b, id, item)
  BY <1>1, <1>3, <1>6, <1>9 DEF AcceptVote
<1>12. Changed(b, e, id)
  BY <1>4, <1>7, <1>10, ChangedTwice
<1> QED
  BY <1>1, <1>4, <1>7, <1>10, <1>11, <1>12

LEMMA FillBidTyped ==
    ASSUME OrdersTyped, NEW b \in Bids, NEW amount \in Nat, FillBid(b, amount) \/ UNCHANGED bid
    PROVE  bid' \in [Bids -> BidObjects] /\ \A o \in Bids : bid[o].matched \subseteq bid'[o].matched
<1>1. bid \in [Bids -> BidObjects]
  BY DEF OrdersTyped
<1>2. ASSUME NEW e \in BidObjects, e.matched = bid[b].matched, bid' = [bid EXCEPT ![b] = e]
      PROVE  bid' \in [Bids -> BidObjects] /\ \A o \in Bids : bid[o].matched \subseteq bid'[o].matched
  BY <1>1, <1>2
<1>3. CASE /\ bid[b].amount > amount
           /\ bid' = [bid EXCEPT ![b].amount = @ - amount, ![b].locked = FALSE]
  <2>1. PICK e : e = [bid[b] EXCEPT !.amount = @ - amount, !.locked = FALSE]
    OBVIOUS
  <2>2. bid[b].amount - amount \in Nat
    BY <1>1, <1>3 DEF BidObjects
  <2>3. e \in BidObjects /\ e.matched = bid[b].matched
    BY <1>1, <2>1, <2>2 DEF BidObjects
  <2>4. bid' = [bid EXCEPT ![b] = e]
    BY <1>1, <1>3, <2>1
  <2> QED
    BY <1>2, <2>3, <2>4
<1>4. CASE bid' = [bid EXCEPT ![b].state = "deleted"]
  <2>1. PICK e : e = [bid[b] EXCEPT !.state = "deleted"]
    OBVIOUS
  <2>2. e \in BidObjects /\ e.matched = bid[b].matched
    BY <1>1, <2>1 DEF BidObjects, OrderStates
  <2>3. bid' = [bid EXCEPT ![b] = e]
    BY <1>1, <1>4, <2>1
  <2> QED
    BY <1>2, <2>2, <2>3
<1>5. CASE UNCHANGED bid
  BY <1>1, <1>5
<1> QED
  BY <1>3, <1>4, <1>5 DEF FillBid

LEMMA CoordinatorYesCounted ==
    ASSUME Owed, Owed', Counted, NEW n \in Nodes, NEW p \in Nodes, CoordinatorYes(n, p)
    PROVE  Counted'
<1>0. PICK item, id : item = Head(net[p][n]) /\ id = item.tx
  OBVIOUS
<1>1. PICK ref, b0, b3, hop : /\ ref = Payer(id) /\ b0 = books[n]
                              /\ b3 = AcceptVote(books[n], id, item) /\ hop = NextHop[n][id[1]]
  OBVIOUS
<1>2. Receives(n, p, {"VOTE_YES"}) /\ Tm(n, p).role = "coordinator"
  BY DEF CoordinatorYes
<1>3. /\ net[p][n] # <<>> /\ id \in TxIds /\ item.phase = "VOTE_YES" /\ item \in Items
      /\ currentTX[n][id].role = "coordinator" /\ item \in Range(net[p][n])
      /\ Quiet(Taken(n, p)) /\ item.amount \in Nat
  <2>1. item \in Items
    BY <1>0, <1>2, HeadTyped
  <2> QED
    BY <1>0, <1>2, <2>1, HeadTyped DEF Items
<1>4. SetTM(n, id, NoTM) /\ UNCHANGED <<ask, tunnels, chain, outside>>
  BY <1>0 DEF CoordinatorYes, Forget
<1>5. /\ b0 = books[n] /\ IsBook(b0) /\ IsOrderly(b0) /\ ref \in DOMAIN b0.contract
      /\ b0.contract[ref].peer = hop /\ hop = p /\ item.btcTx = id
  <2>1. ref \in DOMAIN b0.contract /\ b0.contract[ref].peer = NextHop[n][id[1]]
    BY <1>1, <1>3, ManagerHas DEF IsManager, PaysNext
  <2>2. NextHop[n][id[1]] = p /\ item.btcTx = id
    BY <1>0, <1>3, ItemTells DEF IsOnRoute, Token
  <2> QED
    BY <1>1, <2>1, <2>2, TypesOf
<1>6. /\ Changed(b0, b3, id) /\ b3.contract[ref].peer = p /\ b3.contract[ref].btcTx = id
      /\ ref.tx = id /\ ref.party = "sender"
  BY <1>1, <1>3, <1>5, AcceptedFacts, TheRefs
<1>7. PICK b4 : b4 = Persist(b3, ref)
  OBVIOUS
<1>8. Tidy(b0, b4) /\ Spares(b0, b4, id) /\ Takings(b4) = Takings(b0)
  <2>1. IsBook(b3) /\ IsOrderly(b3) /\ ref \in DOMAIN b3.contract /\ b3.contract[ref].btcTx = ref.tx
    BY <1>5, <1>6 DEF Changed, Tidy
  <2>2. Tidy(b3, b4) /\ Takings(b4) = Takings(b3)
    BY <1>6, <1>7, <2>1, PersistTidy
  <2>3. Spares(b3, b4, id)
    BY <1>6, <1>7, <2>1, PersistSpares
  <2>4. Takings(b3) = Takings(b0)
    BY <1>6 DEF Changed, Takings
  <2> QED
    BY <1>6, <2>2, <2>3, <2>4, TidyTwice, SparesFacts DEF Changed
<1>9. PICK b : /\ b \in {b3, b4} /\ books' = [books EXCEPT ![n] = b]
               /\ FillBid(id[2], item.amount) \/ UNCHANGED bid
  BY <1>0, <1>1, <1>7 DEF CoordinatorYes
<1>10. Tidy(b0, b) /\ Spares(b0, b, id) /\ Takings(b) = Takings(b0) /\ NewBook(n, b)
  BY <1>6, <1>8, <1>9, TypesOf, NewBookFacts DEF Changed, Takings
<1>11. Quiet(net')
  <2>1. PICK commit, abort, sent : /\ commit = Order("COMMIT", id) /\ abort = Order("ABORT", id)
                                   /\ sent = Sent(Taken(n, p), n, p, commit)
    OBVIOUS
  <2>2. net' \in {sent, Sent(sent, n, hop, abort), Sent(Taken(n, p), n, hop, abort)}
    BY <1>0, <1>1, <1>5, <2>1 DEF CoordinatorYes
  <2>3. /\ commit \in Items /\ commit.phase # "QUERY" /\ abort \in Items /\ abort.phase # "QUERY"
    BY <1>3, <2>1, ItemsFit DEF Phases
  <2>4. Quiet(sent)
    BY <1>3, <2>1, <2>3, SendQuietly
  <2>5. Quiet(Sent(sent, n, hop, abort)) /\ Quiet(Sent(Taken(n, p), n, hop, abort))
    BY <1>3, <2>3, <2>4, SendQuietly
  <2> QED
    BY <2>2, <2>4, <2>5
<1>12. bid' \in [Bids -> BidObjects] /\ \A o \in Bids : bid[o].matched \subseteq bid'[o].matched
  <2>1. id[2] \in Bids
    BY <1>3 DEF TxIds
  <2> QED
    BY <1>3, <1>9, <2>1, TypesOf, FillBidTyped
<1>13. market' \in [Nodes -> [Asks -> AsksOfOthers]]
  <2>1. id[1] \in Asks
    BY <1>3 DEF TxIds
  <2>2. market[n][id[1]] \in AsksOfOthers
    BY <2>1, TypesOf DEF OrdersTyped
  <2>3. PICK ignored \in BOOLEAN : market' = [market EXCEPT ![n][id[1]].ignored = ignored]
    <3>1. PICK x : x = (market[n][id[1]].ignored
                        \/ (item.amount < books[n].contract[Payer(id)].amount /\ Tm(n, p).other = "book"))
      OBVIOUS
    <3>2. market' = [market EXCEPT ![n][id[1]].ignored = x]
      BY <1>0, <3>1 DEF CoordinatorYes
    <3>3. x \in BOOLEAN
      BY <3>1
    <3> QED
      BY <3>2, <3>3
  <2>4. PICK e : e = [market[n][id[1]] EXCEPT !.ignored = ignored]
    OBVIOUS
  <2>5. e \in AsksOfOthers
    BY <2>2, <2>4 DEF AsksOfOthers
  <2>6. market' = [market EXCEPT ![n][id[1]] = e]
    BY <2>3, <2>4
  <2> QED
    BY <2>1, <2>5, <2>6, TypesOf, MarketFits DEF OrdersTyped
<1>14. OrdersTyped' /\ \A a \in Asks : SameAsk(a)
  BY <1>4, <1>12, <1>13, TypesOf DEF OrdersTyped, SameAsk
<1>15. NewManager(n, id, NoTM) /\ SalesOfOthers(n, id) /\ ~IsSale(n, id) /\ ~IsSale(n, id)'
  <2>1. NewManager(n, id, NoTM) /\ SalesOfOthers(n, id)
    BY <1>3, <1>4, TypesOf, SetTMFacts, SetTMSpares, ManagersFit
  <2> QED
    BY <1>3, <2>1 DEF IsSale, NewManager, NoTM
<1>16. \A j \in TxIds : MadeOnce(j)'
  BY <1>5, <1>10, <1>11, <1>12, NotesFade DEF Quiet
<1>17. TunnelsTyped' /\ IsOrderly(b) /\ net' \in Links
  BY <1>4, <1>10, <1>11, TypesOf DEF TunnelsTyped, Tidy, Quiet
<1> QED
  BY <1>3, <1>4, <1>5, <1>10, <1>14, <1>15, <1>16, <1>17, CountedQuietly

\* A hop changes its contracts, and none of its sales.
LEMMA HopChangesCounted ==
    ASSUME Owed, Owed', Counted, NEW n \in Nodes, NEW id \in TxIds,
           currentTX[n][id].role = "hop", NEW tm \in Managers, SetTM(n, id, tm),
           tm = NoTM \/ tm.role = "hop",
           NEW b, books' = [books EXCEPT ![n] = b], Tidy(books[n], b), Spares(books[n], b, id),
           Owner[id[1]] = n => Takings(b) = Takings(books[n]),
           Quiet(net'), UNCHANGED <<orders, tunnels, outside>>
    PROVE  Counted'
<1>1. NewManager(n, id, tm) /\ SalesOfOthers(n, id) /\ NewBook(n, b)
  BY TypesOf, SetTMFacts, SetTMSpares, NewBookFacts
<1>2. ~IsSale(n, id) /\ ~IsSale(n, id)'
  BY TypesOf, NewTMSold, NotSold DEF NoTM
<1>3. UNCHANGED <<ask, bid, market>>
  BY DEF orders
<1>4. \A j \in TxIds : MadeOnce(j)'
  BY <1>1, <1>3, NotesFade DEF Quiet
<1>5. OrdersTyped' /\ TunnelsTyped' /\ \A a \in Asks : SameAsk(a)
  BY <1>3, TypesOf DEF TunnelsTyped, SameAsk, OrdersTyped
<1> QED
  BY <1>1, <1>2, <1>4, <1>5, CountedQuietly DEF Tidy, Quiet

LEMMA HopVoteCounted ==
    ASSUME Owed, Owed', Counted, NEW n \in Nodes, NEW p \in Nodes, HopVote(n, p)
    PROVE  Counted'
<1>0. PICK item, id : item = Head(net[p][n]) /\ id = item.tx
  OBVIOUS
<1>1. PICK b0, b1, b2, b3, b4, r, s, x, y :
          /\ r = Payer(id) /\ s = Payee(id) /\ x = item.amount /\ y = item.btcTx
          /\ b0 = books[n]
          /\ b1 = SetBtcTxId(b0, r, y)
          /\ b2 = SetBtcAmount(b1, r, x)
          /\ b3 = SetBtcTxId(b2, s, y)
          /\ b4 = SetBtcAmount(b3, s, x)
  OBVIOUS
<1>2. Receives(n, p, {"VOTE_YES", "VOTE_NO"}) /\ Tm(n, p).role = "hop" /\ Tm(n, p).phase = "QUERY"
  BY DEF HopVote, Busy
<1>3. /\ net[p][n] # <<>> /\ id \in TxIds /\ item.phase \in {"VOTE_YES", "VOTE_NO"}
      /\ currentTX[n][id].role = "hop" /\ currentTX[n][id].phase = "QUERY"
      /\ item \in Range(net[p][n]) /\ Quiet(Taken(n, p)) /\ x \in Nat
  <2>1. item \in Items
    BY <1>0, <1>2, HeadTyped
  <2> QED
    BY <1>0, <1>1, <1>2, <2>1, HeadTyped DEF Items
<1>4. y \in {NoBtcTx, VoteNoTx, id} /\ r.tx = id /\ s.tx = id
  <2>1. r.tx = id /\ s.tx = id
    BY <1>1, <1>3, TheRefs
  <2>2. Token(item, id)
    BY <1>0, <1>3 DEF Token
  <2>3. IsOnRoute(p, n, item) /\ item.tx = id
    BY <1>3, <2>2, ItemTells
  <2>4. item.btcTx \in {VoteNoTx, id}
    BY <1>3, <2>3 DEF IsOnRoute
  <2> QED
    BY <1>1, <2>1, <2>4
<1>5. /\ IsBook(b0) /\ IsOrderly(b0) /\ r \in DOMAIN b0.contract /\ s \in DOMAIN b0.contract
  <2>1. IsManager(n, id, currentTX[n][id]) /\ currentTX[n][id].contract
    BY <1>3, ManagerHas DEF HasVoted, Waits
  <2> QED
    BY <1>1, <1>3, <2>1, TypesOf DEF IsManager, PaysNext, GetsPaid
<1>6. Changed(b0, b1, id)
  BY <1>1, <1>3, <1>4, <1>5, EditChanged
<1>7. IsBook(b1) /\ IsOrderly(b1) /\ r \in DOMAIN b1.contract /\ s \in DOMAIN b1.contract
  BY <1>5, <1>6 DEF Changed, Tidy
<1>8. Changed(b1, b2, id)
  BY <1>1, <1>3, <1>4, <1>7, EditChanged
<1>9. IsBook(b2) /\ IsOrderly(b2) /\ s \in DOMAIN b2.contract
  BY <1>7, <1>8 DEF Changed, Tidy
<1>10. Changed(b2, b3, id)
  BY <1>1, <1>3, <1>4, <1>9, EditChanged
<1>11. IsBook(b3) /\ IsOrderly(b3) /\ s \in DOMAIN b3.contract
  BY <1>9, <1>10 DEF Changed, Tidy
<1>12. Changed(b3, b4, id)
  BY <1>1, <1>3, <1>4, <1>11, EditChanged
<1>13. Changed(b0, b4, id)
  BY <1>6, <1>8, <1>10, <1>12, ChangedTwice
<1>14. PICK tm : tm = Cohorte("hop", item.phase, TRUE)
  OBVIOUS
<1>15. tm \in Managers /\ tm.role = "hop"
  BY <1>3, <1>14 DEF Cohorte, Managers
<1>16. /\ books' = [books EXCEPT ![n] = b4] /\ SetTM(n, id, tm)
       /\ net' = Sent(Taken(n, p), n, ToBuyer(n, id[1]), Head(net[p][n]))
       /\ UNCHANGED <<orders, tunnels, chain, outside>>
  BY <1>0, <1>1, <1>14 DEF HopVote
<1>17. Quiet(net')
  BY <1>2, <1>16, SendsOn
<1>18. Tidy(books[n], b4) /\ Spares(books[n], b4, id) /\ Takings(b4) = Takings(books[n])
  BY <1>1, <1>13 DEF Changed, Takings
<1> QED
  BY <1>3, <1>15, <1>16, <1>17, <1>18, HopChangesCounted

LEMMA HopCommitCounted ==
    ASSUME Owed, Owed', Counted, NEW n \in Nodes, NEW p \in Nodes, HopCommit(n, p)
    PROVE  Counted'
<1>0. PICK item, id : item = Head(net[p][n]) /\ id = item.tx
  OBVIOUS
<1>1. PICK b0, b1, b2, b3, b4, r, s :
          /\ r = Payer(id) /\ s = Payee(id)
          /\ b0 = books[n]
          /\ b1 = Activate(b0, r)
          /\ b2 = Activate(b1, s)
          /\ b3 = Persist(b2, r)
          /\ b4 = Persist(b3, s)
  OBVIOUS
<1>2. Receives(n, p, {"COMMIT"}) /\ Tm(n, p).role = "hop" /\ Tm(n, p).phase = "VOTE_YES"
  BY DEF HopCommit, Busy
<1>3. /\ net[p][n] # <<>> /\ id \in TxIds /\ item.phase = "COMMIT" /\ PassedVote(n, id)
      /\ currentTX[n][id].role = "hop" /\ item \in Range(net[p][n]) /\ Quiet(Taken(n, p))
  BY <1>0, <1>2, HeadTyped DEF PassedVote
<1>4. r.tx = id /\ s.tx = id /\ r # s
  BY <1>1, <1>3, TheRefs
<1>5. /\ IsBook(b0) /\ IsOrderly(b0) /\ r \in DOMAIN b0.contract /\ s \in DOMAIN b0.contract
      /\ b0.contract[r].peer \in Nodes /\ b0.contract[s].peer \in Nodes
      /\ b0.contract[r].btcTx = id /\ b0.contract[s].btcTx = id
      /\ Owner[id[1]] # n
  <2>1. /\ IsManager(n, id, currentTX[n][id]) /\ currentTX[n][id].contract
        /\ b0.contract[s].btcTx = id /\ b0.contract[r].btcTx = id /\ NextHop[n][id[1]] \in Nodes
    BY <1>1, <1>3, ManagerHas DEF HasVoted, Voted
  <2>2. Owner[id[1]] # n
    BY <1>3, <2>1, OrdersAssumption DEF TxIds
  <2> QED
    BY <1>1, <1>3, <2>1, <2>2, TypesOf DEF IsManager, PaysNext, GetsPaid
<1>6. Changed(b0, b1, id) /\ Edited(b0, b1, r, b0.contract[r].amount, id)
  BY <1>1, <1>3, <1>4, <1>5, EditChanged, ActivateFacts
<1>7. /\ IsBook(b1) /\ IsOrderly(b1) /\ r \in DOMAIN b1.contract /\ s \in DOMAIN b1.contract
      /\ b1.contract[r].peer \in Nodes /\ b1.contract[s].peer \in Nodes
      /\ b1.contract[r].btcTx = id /\ b1.contract[s].btcTx = id
  BY <1>4, <1>5, <1>6 DEF Changed, Tidy, Edited
<1>8. Changed(b1, b2, id) /\ Edited(b1, b2, s, b1.contract[s].amount, id)
  BY <1>1, <1>3, <1>4, <1>7, EditChanged, ActivateFacts
<1>9. /\ IsBook(b2) /\ IsOrderly(b2) /\ r \in DOMAIN b2.contract /\ s \in DOMAIN b2.contract
      /\ b2.contract[r].peer \in Nodes /\ b2.contract[s].peer \in Nodes
      /\ b2.contract[r].btcTx = id /\ b2.contract[s].btcTx = id
  BY <1>4, <1>7, <1>8 DEF Changed, Tidy, Edited
<1>10. /\ Tidy(b2, b3) /\ Spares(b2, b3, id) /\ IsBook(b3) /\ b3.contract = b2.contract
  BY <1>1, <1>4, <1>9, PersistTidy, PersistSpares, PersistFacts
<1>11. Tidy(b3, b4) /\ Spares(b3, b4, id)
  BY <1>1, <1>4, <1>9, <1>10, PersistTidy, PersistSpares DEF Tidy
<1>12. Tidy(b0, b2) /\ Spares(b0, b2, id)
  BY <1>6, <1>8, ChangedTwice DEF Changed
<1>13. Tidy(b0, b3) /\ Spares(b0, b3, id)
  BY <1>10, <1>12, TidyTwice, SparesFacts
<1>14. Tidy(b0, b4) /\ Spares(b0, b4, id)
  BY <1>11, <1>13, TidyTwice, SparesFacts
<1>15. PICK failed : failed = Cohorte("hop", "ABORT_REQUEST", TRUE)
  OBVIOUS
<1>16. failed \in Managers /\ failed.role = "hop" /\ NoTM \in Managers
  BY <1>15, ManagersFit
<1>17. \/ /\ books' = [books EXCEPT ![n] = b4] /\ SetTM(n, id, NoTM)
          /\ net' = Sent(Taken(n, p), n, ToSeller(n, id[1]), Head(net[p][n]))
       \/ /\ \E b \in {b2, b3} : books' = [books EXCEPT ![n] = b]
          /\ SetTM(n, id, failed)
          /\ net' = Sent(Taken(n, p), n, p, Order("ABORT_REQUEST", Head(net[p][n]).tx))
  BY <1>0, <1>1, <1>15 DEF HopCommit, Forget
<1>18. PICK b \in {b2, b3, b4}, tm \in {NoTM, failed} :
          books' = [books EXCEPT ![n] = b] /\ SetTM(n, id, tm)
  BY <1>17
<1>19. Tidy(books[n], b) /\ Spares(books[n], b, id)
  BY <1>1, <1>12, <1>13, <1>14, <1>18
<1>20. Quiet(net')
  <2>1. Quiet(Sent(Taken(n, p), n, ToSeller(n, id[1]), Head(net[p][n])))
    BY <1>2, SendsOn
  <2>2. Quiet(Sent(Taken(n, p), n, p, Order("ABORT_REQUEST", Head(net[p][n]).tx)))
    BY <1>2, SendsOrder DEF Phases
  <2> QED
    BY <1>17, <2>1, <2>2
<1>21. UNCHANGED <<orders, tunnels, outside>>
  BY DEF HopCommit
<1> QED
  BY <1>3, <1>5, <1>16, <1>18, <1>19, <1>20, <1>21, HopChangesCounted

-----------------------------------------------------------------------------
(* A QUERY comes by.                                                       *)

QueryHeard(n, p, item, id) ==
    Receives(n, p, {"QUERY"}) /\ item = Head(net[p][n]) /\ id = item.tx

LEMMA QueryTells ==
    ASSUME Owed, Counted, NEW n \in Nodes, NEW p \in Nodes,
           NEW item, NEW id, QueryHeard(n, p, item, id)
    PROVE  /\ id \in TxIds /\ item.phase = "QUERY" /\ item \in Items /\ item.amount \in Nat
           /\ net[p][n] # <<>> /\ Token(item, id) /\ id[1] \in bid[id[2]].matched
           /\ Leads(p, n, id) /\ NextHop[p][id[1]] = n /\ Quiet(Taken(n, p))
           /\ \A m \in From(n, id[1]) : ~Noted(m, id)
           /\ n \in From(n, id[1]) /\ id[1] \in Asks
<1>1. /\ item \in Items /\ id \in TxIds /\ item.phase = "QUERY" /\ net[p][n] # <<>>
      /\ item \in Range(net[p][n]) /\ Quiet(Taken(n, p)) /\ id = item.tx
  BY HeadTyped DEF QueryHeard
<1>2. item.amount \in Nat /\ id[1] \in Asks /\ Token(item, id)
  BY <1>1 DEF Items, TxIds, Token
<1>3. IsOnRoute(p, n, item) /\ id[1] \in bid[id[2]].matched
  BY <1>1, <1>2, ItemTells
<1>4. Leads(p, n, id) /\ NextHop[p][id[1]] = n
  BY <1>1, <1>3 DEF IsOnRoute, Leads
<1>5. MadeOnce(id)
  BY <1>1 DEF Counted
<1>6. \A m \in From(n, id[1]) : ~Noted(m, id)
  BY <1>1, <1>5 DEF MadeOnce
<1> QED
  BY <1>1, <1>2, <1>3, <1>4, <1>6, FromFacts

\* Those behind the next node are behind the node, which is none of them.
LEMMA FromGoesOn ==
    ASSUME NEW n \in Nodes, NEW a \in Asks, NEW x \in Nodes, NextHop[n][a] = x
    PROVE  \A m \in From(x, a) : m \in From(n, a) /\ m # n
<1>1. \A m \in From(x, a) : m # n
  BY NoCircle
<1>2. ASSUME NEW m \in From(x, a), NEW S \in SUBSET Nodes, n \in S, Closed(S, a)
      PROVE  m \in S
  <2>1. x \in S
    BY <1>2, OrdersAssumption DEF Closed
  <2> QED
    BY <1>2, <2>1 DEF From
<1> QED
  BY <1>1, <1>2 DEF From

\* The node notes contracts of one transaction, and answers or forwards its query.
NotesFor(n, id, b, refs) ==
    NewBook(n, b) /\ Grown(books[n], b, refs) /\ \A ref \in refs : ref.tx = id
Answers(n, p, id, u, new) ==
    /\ new \in Items /\ new.tx = id /\ net' = Sent(Taken(n, p), n, u, new)
    /\ new.phase = "QUERY" => u = NextHop[n][id[1]]

LEMMA QueryNotes ==
    ASSUME Owed, Counted, NEW n \in Nodes, NEW p \in Nodes,
           NEW item, NEW id, QueryHeard(n, p, item, id), UNCHANGED bid,
           NEW b, NEW refs, NotesFor(n, id, b, refs),
           NEW u, NEW new, Answers(n, p, id, u, new)
    PROVE  \A j \in TxIds : MadeOnce(j)'
<1>0. /\ NewBook(n, b) /\ Grown(books[n], b, refs) /\ \A ref \in refs : ref.tx = id
      /\ new \in Items /\ new.tx = id /\ net' = Sent(Taken(n, p), n, u, new)
      /\ new.phase = "QUERY" => u = NextHop[n][id[1]]
  BY DEF NotesFor, Answers
<1>1. item = Head(net[p][n])
  BY DEF QueryHeard
<1>2. /\ id \in TxIds /\ item.phase = "QUERY"
      /\ net[p][n] # <<>> /\ Token(item, id) /\ id[1] \in bid[id[2]].matched
      /\ \A m \in From(n, id[1]) : ~Noted(m, id)
      /\ id[1] \in Asks
  BY QueryTells
<1>3. Carries(net', id, n, u, new)
  <2>1. new.phase \in Phases
    BY <1>0 DEF Items
  <2> QED
    BY <1>0, <1>1, <1>2, <2>1, TakeAndSendCarries
<1>4. \A m \in Nodes, j \in TxIds : j # id \/ m # n => (Noted(m, j)' => Noted(m, j))
  <2> SUFFICES ASSUME NEW m \in Nodes, NEW j \in TxIds, j # id \/ m # n
               PROVE  Noted(m, j)' => Noted(m, j)
    OBVIOUS
  <2>1. CASE m # n
    BY <1>0, <2>1 DEF NewBook, Noted
  <2>2. CASE m = n
    BY <1>0, <2>2 DEF NewBook, Noted, Grown
  <2> QED
    BY <2>1, <2>2
<1>5. ASSUME NEW j \in TxIds, j # id
      PROVE  MadeOnce(j)'
  <2>1. MadeOnce(j)
    BY DEF Counted
  <2>2. \A f, t \in Nodes : \A x \in Range(net'[f][t]) :
            x.tx = j /\ x.phase = "QUERY" => x \in Range(net[f][t])
    BY <1>3, <1>5 DEF Carries, Token
  <2> QED
    BY <1>4, <1>5, <2>1, <2>2, MadeOnceStays
<1>6. MadeOnce(id)'
  <2>1. ASSUME NEW f \in Nodes, NEW t \in Nodes, NEW x \in Range(net'[f][t]),
               x.tx = id, x.phase = "QUERY"
        PROVE  \A m \in From(t, id[1]) : ~Noted(m, id)'
    <3>1. f = n /\ t = u /\ x = new
      BY <1>3, <2>1 DEF Carries, Token
    <3>2. NextHop[n][id[1]] = t
      BY <1>0, <2>1, <3>1
    <3>3. \A m \in From(t, id[1]) : m \in From(n, id[1]) /\ m # n
      BY <1>2, <3>2, FromGoesOn
    <3>4. From(n, id[1]) \subseteq Nodes
      BY DEF From
    <3> QED
      BY <1>2, <1>4, <3>3, <3>4
  <2> QED
    BY <1>2, <2>1, FromStays DEF MadeOnce
<1> QED
  BY <1>5, <1>6

LEMMA HopQueryCounted ==
    ASSUME Owed, Owed', Counted, NEW n \in Nodes, NEW p \in Nodes, HopQuery(n, p)
    PROVE  Counted'
<1>0. PICK item, id : item = Head(net[p][n]) /\ id = item.tx
  OBVIOUS
<1>1. PICK r, s, next, x, b0 :
          /\ r = Payer(id) /\ s = Payee(id) /\ next = NextHop[n][id[1]] /\ x = item.amount
          /\ b0 = books[n]
  OBVIOUS
<1>2. PICK received, both, amount :
          /\ received = NewReceiver(b0, s, p, x)
          /\ both = NewSender(received, r, next, x)
          /\ amount = received.contract[s].amount
  OBVIOUS
<1>3. PICK no, query, waiting :
          /\ no = Item("VOTE_NO", id, 0, VoteNoTx) /\ query = Item("QUERY", id, amount, NoBtcTx)
          /\ waiting = Cohorte("hop", "QUERY", TRUE)
  OBVIOUS
<1>4. Receives(n, p, {"QUERY"}) /\ Tm(n, p) = NoTM
  BY DEF HopQuery
<1>40. QueryHeard(n, p, item, id)
  BY <1>0, <1>4 DEF QueryHeard
<1>5. /\ id \in TxIds /\ x \in Nat /\ net[p][n] # <<>> /\ Quiet(Taken(n, p)) /\ ~Noted(n, id)
      /\ id[1] \in Asks /\ NextHop[p][id[1]] = n
  <2>1. /\ id \in TxIds /\ item.amount \in Nat /\ net[p][n] # <<>> /\ Quiet(Taken(n, p))
        /\ \A m \in From(n, id[1]) : ~Noted(m, id)
        /\ n \in From(n, id[1]) /\ id[1] \in Asks /\ NextHop[p][id[1]] = n
    BY <1>40, QueryTells
  <2> QED
    BY <1>1, <2>1
<1>6. /\ \/ net' = Sent(Taken(n, p), n, p, no) /\ UNCHANGED <<books, currentTX>>
         \/ /\ CanReceive(b0, p) /\ books' = [books EXCEPT ![n] = both]
            /\ SetTM(n, id, waiting) /\ net' = Sent(Taken(n, p), n, next, query)
      /\ UNCHANGED <<orders, chain, outside>>
      /\ tunnels' = [tunnels EXCEPT ![n][id[1]] = <<p, next>>]
  BY <1>0, <1>1, <1>2, <1>3 DEF HopQuery
<1>7. /\ IsBook(b0) /\ IsOrderly(b0) /\ b0 = books[n] /\ ManagersKnown
      /\ currentTX[n][id] = NoTM
  BY <1>0, <1>1, <1>4, HeadTyped, TypesOf
<1>8. /\ r \in Refs /\ r.tx = id /\ s \in Refs /\ s.tx = id /\ r # s
      /\ r \notin Range(b0.list) /\ s \notin Range(b0.list)
  <2>1. r \in Refs /\ r.tx = id /\ s \in Refs /\ s.tx = id /\ r # s
    BY <1>1, <1>5, TheRefs
  <2> QED
    BY <1>5, <1>7, <2>1 DEF Noted
<1>9. next \in Nodes \cup {NoHop}
  BY <1>1, <1>5, OrdersAssumption
<1>10. NoTM \in Managers /\ waiting \in Managers /\ waiting.role = "hop"
  BY <1>3, ManagersFit
<1>11. PICK tm : /\ NewManager(n, id, tm) /\ SalesOfOthers(n, id)
                 /\ ~IsSale(n, id) /\ ~IsSale(n, id)'
  <2>1. ~IsSale(n, id)
    BY <1>7, NotSold
  <2>2. CASE UNCHANGED currentTX
    BY <1>5, <1>7, <2>1, <2>2, SameTMFacts, SetTMSpares DEF IsSale
  <2>3. CASE SetTM(n, id, waiting)
    BY <1>5, <1>7, <1>10, <2>1, <2>3, SetTMFacts, SetTMSpares, NewTMSold
  <2> QED
    BY <1>6, <2>2, <2>3
<1>12. TunnelsTyped'
  <2>1. PICK t : t = <<p, next>>
    OBVIOUS
  <2>2. t \in Nodes \X (Nodes \cup {NoHop})
    BY <1>9, <2>1
  <2>3. tunnels' = [tunnels EXCEPT ![n][id[1]] = t]
    BY <1>6, <2>1
  <2> QED
    BY <1>5, <2>2, <2>3, TypesOf DEF TunnelsTyped
<1>13. UNCHANGED <<ask, bid, market>>
  BY <1>6 DEF orders
<1>14. OrdersTyped' /\ \A a \in Asks : SameAsk(a)
  BY <1>13, TypesOf DEF SameAsk, OrdersTyped
<1>15. /\ no \in Items /\ no.phase = "VOTE_NO" /\ no.tx = id
  <2>1. VoteNoTx \in BtcTxs
    BY DEF BtcTxs
  <2>2. "VOTE_NO" \in Phases /\ 0 \in Nat
    BY DEF Phases
  <2>3. no \in Items
    BY <1>3, <1>5, <2>1, <2>2, ItemsFit
  <2>4. no.phase = "VOTE_NO" /\ no.tx = id
    BY <1>3, ItemFields
  <2> QED
    BY <2>3, <2>4
<1>16. CASE net' = Sent(Taken(n, p), n, p, no) /\ UNCHANGED <<books, currentTX>>
  <2>1. NewBook(n, b0) /\ Spares(books[n], b0, id) /\ Grown(books[n], b0, {r, s})
    BY <1>7, <1>16, TypesOf, SameBooksFacts, SparesFacts DEF Grown
  <2>2. \A j \in TxIds : MadeOnce(j)'
    <3>1. \A ref \in {r, s} : ref.tx = id
      BY <1>8
    <3>2. PICK refs : refs = {r, s}
      OBVIOUS
    <3>3. NotesFor(n, id, b0, refs)
      BY <1>7, <2>1, <3>1, <3>2 DEF NotesFor
    <3>4. Answers(n, p, id, p, no)
      BY <1>15, <1>16 DEF Answers
    <3> QED
      BY <1>13, <1>40, <3>3, <3>4, QueryNotes
  <2>3. net' \in Links
    BY <1>5, <1>15, <1>16, SendQuietly DEF Quiet
  <2> QED
    BY <1>5, <1>6, <1>7, <1>11, <1>12, <1>14, <2>1, <2>2, <2>3, CountedQuietly
<1>17. CASE /\ CanReceive(b0, p) /\ books' = [books EXCEPT ![n] = both]
            /\ SetTM(n, id, waiting) /\ net' = Sent(Taken(n, p), n, next, query)
  <2>1. Grown(b0, received, {s}) /\ amount \in Nat /\ Made(b0, received, s, p)
    BY <1>2, <1>5, <1>7, <1>8, <1>17, NewReceiverTidy, NewReceiverFacts
  <2>2. IsBook(received) /\ IsOrderly(received) /\ r \notin Range(received.list)
    BY <1>8, <2>1 DEF Grown, Made
  <2>3. Grown(received, both, {r}) /\ Made(received, both, r, next)
    BY <1>2, <1>5, <1>8, <1>9, <2>2, NewSenderTidy, NewSenderFacts
  <2>4. Grown(b0, both, {r, s})
    BY <2>1, <2>3 DEF Grown
  <2>5. Spares(b0, received, id) /\ Spares(received, both, id)
    BY <1>8, <2>1, <2>3, SparesFacts
  <2>6. Spares(b0, both, id)
    BY <2>5, SparesFacts
  <2>7. Takings(both) = Takings(b0)
    BY <2>1, <2>3 DEF Takings, Made
  <2>8. NewBook(n, both)
    BY <1>17, TypesOf, NewBookFacts
  <2>9. query \in Items /\ query.tx = id
    <3>1. NoBtcTx \in BtcTxs
      BY DEF BtcTxs
    <3> QED
      BY <1>3, <1>5, <2>1, <3>1, ItemsFit, ItemFields DEF Phases
  <2>10. \A ref \in {r, s} : ref.tx = id
    BY <1>8
  <2>11. \A j \in TxIds : MadeOnce(j)'
    <3>1. PICK refs : refs = {r, s}
      OBVIOUS
    <3>2. NotesFor(n, id, both, refs)
      BY <1>7, <2>4, <2>8, <2>10, <3>1 DEF NotesFor
    <3>3. Answers(n, p, id, next, query)
      BY <1>1, <1>17, <2>9 DEF Answers
    <3> QED
      BY <1>13, <1>40, <3>2, <3>3, QueryNotes
  <2>12. net' \in Links
    BY <1>5, <1>17, <2>9, SentTyped DEF Quiet
  <2> QED
    BY <1>5, <1>6, <1>7, <1>11, <1>12, <1>14, <2>4, <2>6, <2>7, <2>8, <2>11, <2>12,
       CountedQuietly DEF Grown
<1> QED
  BY <1>6, <1>16, <1>17

LEMMA RawTxFacts ==
    ASSUME NEW a \in Asks, ask[a] \in AskObjects, NEW id \in TxIds, NEW amount \in Nat,
           NEW raw \in RawTxs(a, id, amount)
    PROVE  raw.coins \in [from : TxIds \cup {NoBtcTx}, worth : Nat]
<1>1. ask[a].coins \in [from : TxIds \cup {NoBtcTx}, worth : Nat]
  BY DEF AskObjects
<1>2. CoinsAfter(a, id, amount) \in [from : TxIds \cup {NoBtcTx}, worth : Nat]
  <2>1. CASE ask[a].coins.worth > amount
    <3>1. ask[a].coins.worth - amount \in Nat
      BY <1>1, <2>1
    <3> QED
      BY <2>1, <3>1 DEF CoinsAfter, Moved
  <2>2. CASE ~(ask[a].coins.worth > amount)
    BY <1>1, <2>2 DEF CoinsAfter
  <2> QED
    BY <2>1, <2>2
<1>3. raw.coins \in {ask[a].coins, CoinsAfter(a, id, amount)}
  BY DEF RawTxs
<1> QED
  BY <1>1, <1>2, <1>3

LEMMA TwoFields ==
    ASSUME NEW f \in [Asks -> AskObjects], NEW a \in Asks, NEW amount, NEW coins, NEW e, NEW g,
           e = [f[a] EXCEPT !.commitment = f[a].commitment + amount, !.coins = coins],
           g = [f EXCEPT ![a].commitment = @ + amount, ![a].coins = coins]
    PROVE  g = [f EXCEPT ![a] = e]
<1>1. PICK x : x = [f EXCEPT ![a].commitment = @ + amount]
  OBVIOUS
<1>2. g = [x EXCEPT ![a].coins = coins]
  BY <1>1
<1>3. PICK y : y = [f[a] EXCEPT !.commitment = f[a].commitment + amount]
  OBVIOUS
<1>4. x = [f EXCEPT ![a] = y]
  BY <1>1, <1>3
<1>5. x[a] = y /\ e = [y EXCEPT !.coins = coins]
  BY <1>3, <1>4
<1>6. g = [x EXCEPT ![a] = e]
  BY <1>2, <1>5
<1> QED
  BY <1>4, <1>6

\* The seller votes, and commits a part of the ask that nobody took yet.
LEMMA PayeeCommits ==
    ASSUME Owed, Owed', Counted, NEW n \in Nodes, NEW p \in Nodes,
           NEW item, NEW id, QueryHeard(n, p, item, id), NEW a, a = id[1], Owner[a] = n,
           ask[a].state = "open", up[n], currentTX[n][id] = NoTM,
           NEW tm \in Managers, tm.role = "payee", tm.contract, SetTM(n, id, tm),
           NEW b, books' = [books EXCEPT ![n] = b], Grown(books[n], b, {Payee(id)}),
           Spares(books[n], b, id), b.stored = books[n].stored,
           NEW amount \in Nat, b.contract[Payee(id)].amount = amount, amount <= Leftover(a),
           NEW coins \in [from : TxIds \cup {NoBtcTx}, worth : Nat],
           ask' = [ask EXCEPT ![a].commitment = @ + amount, ![a].coins = coins],
           NEW new \in Items, new.tx = id, new.phase # "QUERY",
           net' = Sent(Taken(n, p), n, p, new), UNCHANGED <<bid, market, tunnels, outside>>
    PROVE  Counted'
<1>1. /\ id \in TxIds /\ a \in Asks /\ Quiet(Taken(n, p))
  BY QueryTells
<1>2. NewManager(n, id, tm) /\ SalesOfOthers(n, id) /\ NewBook(n, b)
  BY <1>1, TypesOf, SetTMFacts, SetTMSpares, NewBookFacts
<1>3. ~IsSale(n, id) /\ IsSale(n, id)'
  BY <1>1, TypesOf, NotSold, NewTMSold
<1>4. AmountOf(n, id)' = amount
  BY <1>2 DEF AmountOf, NewBook
<1>5. /\ InFlight(n, a)' = InFlight(n, a) \cup {id} /\ IsFiniteSet(InFlight(n, a)')
      /\ Promised(n, a) \in Nat /\ Promised(n, a)' = Promised(n, a) + amount
  <2>1. AmountOf(n, id)' \in Nat
    BY <1>4
  <2>2. /\ InFlight(n, a)' = InFlight(n, a) \cup {id} /\ IsFiniteSet(InFlight(n, a)')
        /\ Promised(n, a) \in Nat /\ Promised(n, a)' = Promised(n, a) + AmountOf(n, id)'
    BY <1>1, <1>2, <1>3, <2>1, SaleBegins
  <2> QED
    BY <1>4, <2>2
<1>6. ask[a] \in AskObjects
  BY <1>1, TypesOf DEF OrdersTyped
<1>7. PICK old, c, e : /\ old = ask[a] /\ c = old.commitment + amount
                       /\ e = [old EXCEPT !.commitment = c, !.coins = coins]
  OBVIOUS
<1>8. /\ e.amount = ask[a].amount /\ e.state = "open" /\ e \in AskObjects
      /\ e.commitment = ask[a].commitment + amount
  <2>1. old \in AskObjects /\ old.state = "open"
    BY <1>6, <1>7
  <2>2. c \in Nat
    BY <1>7, <2>1 DEF AskObjects
  <2>3. e.amount = old.amount /\ e.state = "open" /\ e \in AskObjects /\ e.commitment = c
    BY <1>7, <2>1, <2>2 DEF AskObjects
  <2> QED
    BY <1>7, <2>3
<1>9. ask' = [ask EXCEPT ![a] = e]
  <2>1. ask \in [Asks -> AskObjects]
    BY TypesOf DEF OrdersTyped
  <2>2. PICK f, g : f = ask /\ g = ask'
    OBVIOUS
  <2>3. g = [f EXCEPT ![a].commitment = @ + amount, ![a].coins = coins]
    BY <2>2
  <2>4. e = [f[a] EXCEPT !.commitment = f[a].commitment + amount, !.coins = coins]
    BY <1>7, <2>2
  <2>5. g = [f EXCEPT ![a] = e]
    BY <1>1, <2>1, <2>2, <2>3, <2>4, TwoFields, ZenonT(60)
  <2> QED
    BY <2>2, <2>5
<1>10. OrdersTyped' /\ ask'[a] = e /\ \A d \in Asks : d # a => SameAsk(d)
  <2>1. bid' = bid /\ market' = market /\ OrdersTyped /\ e \in AskObjects
    BY <1>8, TypesOf
  <2> QED
    <3>1. a \in Asks /\ UNCHANGED <<bid, market>>
      BY <1>1, <2>1
    <3> QED
      BY <1>9, <2>1, <3>1, AsksFit, ZenonT(60)
<1>11. Committed(a) /\ Sold(a)
  BY <1>1 DEF Counted
<1>12. Committed(a)'
  <2>1. ask[a].commitment = Promised(n, a) /\ ask[a].state # "deleted"
    BY <1>11 DEF Committed
  <2>2. e.commitment = Promised(n, a)'
    BY <1>5, <1>8, <2>1
  <2>3. e.commitment <= e.amount
    BY <1>6, <1>8 DEF Leftover, AskObjects
  <2> QED
    BY <1>5, <1>8, <1>10, <2>2, <2>3 DEF Committed
<1>13. Sold(a)'
  <2>1. Sales(a)' = Sales(a)
    BY <1>2 DEF Sales, Receipts, NewBook
  <2>2. SoldOf(a)' = SoldOf(a)
    BY <2>1 DEF SoldOf
  <2>3. Unsold(a)' = Unsold(a)
    BY <1>8, <1>10 DEF Unsold
  <2> QED
    BY <1>11, <2>1, <2>2, <2>3 DEF Sold
<1>14. \A j \in TxIds : MadeOnce(j)'
  <2>1. PICK refs : refs = {Payee(id)}
    OBVIOUS
  <2>2. \A ref \in refs : ref.tx = id
    BY <1>1, <2>1, TheRefs
  <2>3. NotesFor(n, id, b, refs)
    BY <1>2, <2>1, <2>2 DEF NotesFor
  <2>4. Answers(n, p, id, p, new)
    BY DEF Answers
  <2>5. bid' = bid
    OBVIOUS
  <2> QED
    BY <2>3, <2>4, <2>5, QueryNotes
<1>15. net' \in Links /\ TunnelsTyped'
  BY <1>1, SentTyped, TypesOf DEF Quiet, TunnelsTyped
<1> QED
  BY <1>1, <1>2, <1>10, <1>12, <1>13, <1>14, <1>15, CountedBy DEF Grown

LEMMA PayeeQueryCounted ==
    ASSUME Owed, Owed', Counted, NEW n \in Nodes, NEW p \in Nodes, PayeeQuery(n, p)
    PROVE  Counted'
<1>0. PICK item, id : item = Head(net[p][n]) /\ id = item.tx
  OBVIOUS
<1>1. PICK a, s, x, b0 : a = id[1] /\ s = Payee(id) /\ x = item.amount /\ b0 = books[n]
  OBVIOUS
<1>2. PICK made : made = NewReceiver(b0, s, p, x)
  OBVIOUS
<1>3. PICK amount : amount = Min({made.contract[s].amount, Leftover(a)})
  OBVIOUS
<1>4. PICK cut : cut = SetBtcAmount(made, s, amount)
  OBVIOUS
<1>5. PICK whole : whole = SetBtcTxId(cut, s, id)
  OBVIOUS
<1>6. PICK no, yes, request, agreed, failed :
          /\ no = Item("VOTE_NO", id, 0, VoteNoTx) /\ yes = Item("VOTE_YES", id, amount, id)
          /\ request = Order("ABORT_REQUEST", id)
          /\ agreed = Cohorte("payee", "QUERY", TRUE)
          /\ failed = Cohorte("payee", "ABORT_REQUEST", TRUE)
  OBVIOUS
<1>7. /\ QueryHeard(n, p, item, id) /\ Tm(n, p) = NoTM /\ up[n]
      /\ Owner[a] = n /\ ask[a].state = "open"
  BY <1>0, <1>1 DEF PayeeQuery, QueryHeard, Sells, Receives
<1>8. UNCHANGED <<bid, market, tunnels, outside>>
  BY DEF PayeeQuery
<1>9. \/ net' = Sent(Taken(n, p), n, p, no) /\ UNCHANGED <<books, currentTX, ask>>
      \/ /\ CanReceive(b0, p) /\ net' = Sent(Taken(n, p), n, p, no)
         /\ books' = [books EXCEPT ![n] = made] /\ UNCHANGED <<currentTX, ask>>
      \/ /\ CanReceive(b0, p) /\ Leftover(a) # 0
         /\ \E raw \in RawTxs(a, id, amount) :
               /\ ask' = [ask EXCEPT ![a].commitment = @ + amount, ![a].coins = raw.coins]
               /\ \/ /\ books' = [books EXCEPT ![n] = whole]
                     /\ SetTM(n, id, agreed) /\ net' = Sent(Taken(n, p), n, p, yes)
                  \/ /\ books' = [books EXCEPT ![n] = cut]
                     /\ SetTM(n, id, failed) /\ net' = Sent(Taken(n, p), n, p, request)
  BY <1>0, <1>1, <1>2, <1>3, <1>4, <1>5, <1>6, ZenonT(60) DEF PayeeQuery
<1>10. /\ id \in TxIds /\ x \in Nat /\ Quiet(Taken(n, p)) /\ ~Noted(n, id) /\ a \in Asks
       /\ currentTX[n][id] = NoTM
  <2>1. /\ id \in TxIds /\ item.amount \in Nat /\ Quiet(Taken(n, p))
        /\ \A m \in From(n, id[1]) : ~Noted(m, id)
        /\ n \in From(n, id[1]) /\ id[1] \in Asks
    BY <1>7, QueryTells
  <2> QED
    BY <1>0, <1>1, <1>7, <2>1 DEF Tm
<1>11. IsBook(b0) /\ IsOrderly(b0) /\ b0 = books[n] /\ ManagersKnown /\ ask[a] \in AskObjects
  BY <1>1, <1>10, TypesOf DEF OrdersTyped
<1>12. s \in Refs /\ s.tx = id /\ s \notin Range(b0.list)
  <2>1. s \in Refs /\ s.tx = id
    BY <1>1, <1>10, TheRefs
  <2> QED
    BY <1>10, <1>11, <2>1 DEF Noted
<1>13. no \in Items /\ no.phase # "QUERY" /\ no.tx = id
  <2>1. VoteNoTx \in BtcTxs
    BY DEF BtcTxs
  <2>2. "VOTE_NO" \in Phases /\ 0 \in Nat
    BY DEF Phases
  <2>3. no \in Items
    BY <1>6, <1>10, <2>1, <2>2, ItemsFit
  <2>4. no.phase = "VOTE_NO" /\ no.tx = id
    BY <1>6, ItemFields
  <2> QED
    BY <2>3, <2>4
<1>14. CanReceive(b0, p) =>
          /\ Grown(b0, made, {s}) /\ made.contract[s].amount \in Nat /\ Made(b0, made, s, p)
          /\ Spares(b0, made, id)
  <2> SUFFICES ASSUME CanReceive(b0, p)
               PROVE  /\ Grown(b0, made, {s}) /\ made.contract[s].amount \in Nat
                      /\ Made(b0, made, s, p) /\ Spares(b0, made, id)
    OBVIOUS
  <2>1. Grown(b0, made, {s}) /\ made.contract[s].amount \in Nat /\ Made(b0, made, s, p)
    BY <1>2, <1>10, <1>11, <1>12, NewReceiverTidy, NewReceiverFacts
  <2>2. Spares(b0, made, id)
    BY <1>12, <2>1, SparesFacts
  <2> QED
    BY <2>1, <2>2
<1>15. ASSUME net' = Sent(Taken(n, p), n, p, no), UNCHANGED <<currentTX, ask>>,
              NEW b, NewBook(n, b), Grown(b0, b, {s}), Spares(b0, b, id), Takings(b) = Takings(b0)
       PROVE  Counted'
  <2>1. PICK tm : /\ NewManager(n, id, tm) /\ SalesOfOthers(n, id)
                  /\ ~IsSale(n, id) /\ ~IsSale(n, id)'
    BY <1>10, <1>11, <1>15, NotSold, SameTMFacts, SetTMSpares DEF IsSale
  <2>2. \A j \in TxIds : MadeOnce(j)'
    <3>1. \A ref \in {s} : ref.tx = id
      BY <1>12
    <3>2. PICK refs : refs = {s}
      OBVIOUS
    <3>3. NotesFor(n, id, b, refs)
      BY <1>11, <1>15, <3>1, <3>2 DEF NotesFor
    <3>4. Answers(n, p, id, p, no)
      BY <1>13, <1>15 DEF Answers
    <3>5. bid' = bid
      BY <1>8
    <3> QED
      BY <1>7, <3>3, <3>4, <3>5, QueryNotes
  <2>3. net' \in Links
    BY <1>10, <1>13, <1>15, SentTyped DEF Quiet
  <2>4. OrdersTyped' /\ TunnelsTyped' /\ \A c \in Asks : SameAsk(c)
    BY <1>8, <1>15, TypesOf DEF OrdersTyped, TunnelsTyped, SameAsk
  <2> QED
    BY <1>8, <1>10, <1>11, <1>15, <2>1, <2>2, <2>3, <2>4, CountedQuietly DEF Grown
<1>16. CASE net' = Sent(Taken(n, p), n, p, no) /\ UNCHANGED <<books, currentTX, ask>>
  <2>1. NewBook(n, b0) /\ Grown(b0, b0, {s}) /\ Spares(b0, b0, id)
    BY <1>11, <1>16, TypesOf, SameBooksFacts, SparesFacts DEF Grown
  <2> QED
    BY <1>15, <1>16, <2>1
<1>17. CASE /\ CanReceive(b0, p) /\ net' = Sent(Taken(n, p), n, p, no)
            /\ books' = [books EXCEPT ![n] = made] /\ UNCHANGED <<currentTX, ask>>
  <2>1. NewBook(n, made) /\ Takings(made) = Takings(b0)
    BY <1>14, <1>17, TypesOf, NewBookFacts DEF Takings, Made
  <2> QED
    BY <1>14, <1>15, <1>17, <2>1
<1>18. CASE /\ CanReceive(b0, p) /\ Leftover(a) # 0
            /\ \E raw \in RawTxs(a, id, amount) :
                  /\ ask' = [ask EXCEPT ![a].commitment = @ + amount, ![a].coins = raw.coins]
                  /\ \/ /\ books' = [books EXCEPT ![n] = whole]
                        /\ SetTM(n, id, agreed) /\ net' = Sent(Taken(n, p), n, p, yes)
                     \/ /\ books' = [books EXCEPT ![n] = cut]
                        /\ SetTM(n, id, failed) /\ net' = Sent(Taken(n, p), n, p, request)
  <2>1. Leftover(a) \in Nat
    <3>1. Committed(a)
      BY <1>10 DEF Counted
    <3>2. ask[a].commitment <= ask[a].amount
      BY <1>7, <3>1 DEF Committed
    <3> QED
      BY <1>11, <3>2 DEF Leftover, AskObjects
  <2>2. amount \in Nat /\ amount <= Leftover(a)
    <3>1. PICK S : S = {made.contract[s].amount, Leftover(a)}
      OBVIOUS
    <3>2. S \subseteq Nat /\ S # {} /\ Leftover(a) \in S
      BY <1>14, <1>18, <2>1, <3>1
    <3>3. Min(S) \in S /\ \A y \in S : Min(S) <= y
      BY <3>2, MinFacts
    <3> QED
      BY <1>3, <3>1, <3>2, <3>3
  <2>3. IsBook(made) /\ IsOrderly(made) /\ s \in DOMAIN made.contract /\ made.stored = b0.stored
    BY <1>14, <1>18 DEF Made, Grown
  <2>4. Changed(made, cut, id) /\ cut.contract[s].amount = amount
    BY <1>4, <1>10, <1>12, <2>2, <2>3, EditChanged, SetAmountFacts DEF Edited
  <2>5. IsBook(cut) /\ IsOrderly(cut) /\ s \in DOMAIN cut.contract
    BY <2>3, <2>4 DEF Changed, Tidy
  <2>6. Changed(cut, whole, id) /\ whole.contract[s].amount = amount
    BY <1>5, <1>10, <1>12, <2>4, <2>5, EditChanged, SetBtcTxFacts DEF Edited
  <2>7. /\ Grown(b0, cut, {s}) /\ Spares(b0, cut, id) /\ cut.stored = b0.stored
        /\ Grown(b0, whole, {s}) /\ Spares(b0, whole, id) /\ whole.stored = b0.stored
    <3>1. Changed(made, whole, id)
      BY <2>4, <2>6, ChangedTwice
    <3> QED
      BY <1>14, <1>18, <2>3, <2>4, <3>1, SparesFacts DEF Changed, Tidy, Grown
  <2>8. PICK coins \in [from : TxIds \cup {NoBtcTx}, worth : Nat] :
            ask' = [ask EXCEPT ![a].commitment = @ + amount, ![a].coins = coins]
    BY <1>10, <1>11, <1>18, <2>2, RawTxFacts
  <2>9. /\ agreed \in Managers /\ agreed.role = "payee" /\ agreed.contract
        /\ failed \in Managers /\ failed.role = "payee" /\ failed.contract
    BY <1>6 DEF Cohorte, Managers
  <2>10. /\ yes \in Items /\ yes.phase # "QUERY" /\ yes.tx = id
         /\ request \in Items /\ request.phase # "QUERY" /\ request.tx = id
    <3>1. id \in BtcTxs /\ "VOTE_YES" \in Phases /\ "ABORT_REQUEST" \in Phases
      BY <1>10 DEF BtcTxs, Phases
    <3> QED
      BY <1>6, <1>10, <2>2, <3>1, ItemsFit, ItemFields DEF Order
  <2>11. PICK b \in {cut, whole}, tm \in {agreed, failed}, new \in {yes, request} :
            /\ books' = [books EXCEPT ![n] = b] /\ SetTM(n, id, tm)
            /\ net' = Sent(Taken(n, p), n, p, new)
    BY <1>18
  <2>12. /\ Grown(books[n], b, {Payee(id)}) /\ Spares(books[n], b, id) /\ b.stored = books[n].stored
         /\ b.contract[Payee(id)].amount = amount
    BY <1>1, <2>4, <2>6, <2>7, <2>11
  <2>13. /\ tm \in Managers /\ tm.role = "payee" /\ tm.contract
         /\ new \in Items /\ new.tx = id /\ new.phase # "QUERY"
    BY <2>9, <2>10, <2>11
  <2> QED
    <3>1. /\ a = id[1] /\ currentTX[n][id] = NoTM /\ tm \in Managers /\ new \in Items
          /\ UNCHANGED <<bid, market, tunnels, outside>>
      BY <1>1, <1>8, <1>10, <2>13
    <3> QED
      BY <1>7, <2>2, <2>8, <2>11, <2>12, <2>13, <3>1, PayeeCommits, ZenonT(60)
<1> QED
  BY <1>9, <1>16, <1>17, <1>18

-----------------------------------------------------------------------------
(* The seller's COMMIT.                                                    *)

\* What is left of an ask of which a part that was in flight is sold.
Filled(old, e, amount) ==
    /\ e \in AskObjects
    /\ old.amount > amount => /\ e.amount = old.amount - amount
                              /\ e.commitment = old.commitment - amount
                              /\ e.state = "deleted" <=> old.state = "deleted"
    /\ ~(old.amount > amount) => e.state = "deleted"

LEMMA FillAskFacts ==
    ASSUME ask \in [Asks -> AskObjects], NEW a \in Asks, NEW amount \in Nat, NEW published \in BOOLEAN,
           amount <= ask[a].commitment, FillAsk(a, amount, published)
    PROVE  \E e : Filled(ask[a], e, amount) /\ ask' = [ask EXCEPT ![a] = e]
<1>1. PICK old : old = ask[a]
  OBVIOUS
<1>2. old \in AskObjects
  BY <1>1
<1>3. CASE old.amount > amount
  <2>1. PICK c, d : c = old.commitment - amount /\ d = old.amount - amount
    OBVIOUS
  <2>2. c \in Nat /\ d \in Nat
    BY <1>1, <1>2, <1>3, <2>1 DEF AskObjects
  <2>3. PICK x, y : x = [old EXCEPT !.commitment = c] /\ y = [x EXCEPT !.amount = d]
    OBVIOUS
  <2>4. y = PartlySold(old, amount)
    BY <1>2, <2>1, <2>3 DEF PartlySold, Uncommit, AskObjects
  <2>5. /\ y \in AskObjects /\ y.amount = d /\ y.commitment = c /\ y.state = old.state
    BY <1>2, <2>2, <2>3 DEF AskObjects
  <2>6. PICK e : e = IF published THEN Published(y) ELSE y
    OBVIOUS
  <2>7. PICK z : z = IF y.state = "cancelled" THEN "revived" ELSE y.state
    OBVIOUS
  <2>8. /\ z \in OrderStates /\ (z = "deleted" <=> old.state = "deleted")
        /\ Published(y) = [y EXCEPT !.state = z]
    BY <1>2, <2>5, <2>7 DEF OrderStates, AskObjects, Published
  <2>9. /\ e \in AskObjects /\ e.amount = d /\ e.commitment = c
        /\ e.state = "deleted" <=> old.state = "deleted"
    <3>1. CASE e = y
      BY <2>5, <3>1
    <3>2. CASE e = [y EXCEPT !.state = z]
      BY <2>5, <2>8, <3>2 DEF AskObjects
    <3> QED
      BY <2>6, <2>8, <3>1, <3>2
  <2>10. Filled(old, e, amount)
    BY <1>3, <2>1, <2>9 DEF Filled
  <2>11. ask' = [ask EXCEPT ![a] = e]
    BY <1>1, <1>3, <2>4, <2>6 DEF FillAsk
  <2> QED
    BY <1>1, <2>10, <2>11
<1>4. CASE ~(old.amount > amount)
  <2>1. PICK e : e = [old EXCEPT !.state = "deleted"]
    OBVIOUS
  <2>2. e \in AskObjects /\ e.state = "deleted"
    BY <1>2, <2>1 DEF AskObjects, OrderStates
  <2>3. Filled(old, e, amount)
    BY <1>4, <2>2 DEF Filled
  <2>4. ask' = [ask EXCEPT ![a] = e]
    BY <1>1, <1>4, <2>1 DEF FillAsk
  <2> QED
    BY <1>1, <2>3, <2>4
<1> QED
  BY <1>3, <1>4

\* A receipt is added to what was sold of an ask.
LEMMA SaleStored ==
    ASSUME NEW a \in Asks, NEW n, n = Owner[a], IsFiniteSet(Sales(a)),
           \A r \in Sales(a) : r.amount \in Int,
           NEW row, row.tx[1] = a, row.amount \in Int, row \notin Sales(a),
           Receipts(n)' = Receipts(n) \cup {row}
    PROVE  IsFiniteSet(Sales(a)') /\ SoldOf(a)' = SoldOf(a) + row.amount
<1>1. Sales(a)' = Sales(a) \cup {row}
  BY DEF Sales
<1>2. PICK S, T : S = Sales(a) /\ T = S \cup {row}
  OBVIOUS
<1>3. PICK f, g : f = [r \in S |-> r.amount] /\ g = [r \in T |-> r.amount]
  OBVIOUS
<1>4. SoldOf(a) = SumFunctionOnSet(f, S)
  BY <1>2, <1>3 DEF SoldOf
<1>5. SoldOf(a)' = SumFunctionOnSet(g, T)
  BY <1>1, <1>2, <1>3 DEF SoldOf
<1>6. IsFiniteSet(S) /\ row \notin S /\ \A r \in T : g[r] \in Int
  BY <1>2, <1>3
<1>7. SumFunctionOnSet(g, T) = SumFunctionOnSet(g, S) + g[row] /\ IsFiniteSet(T)
  <2>1. \A r \in S \cup {row} : g[r] \in Int
    BY <1>2, <1>6
  <2>2. SumFunctionOnSet(g, S \cup {row}) = SumFunctionOnSet(g, S) + g[row]
    BY <1>6, <2>1, SumAdd
  <2> QED
    BY <1>2, <1>6, <2>2, FS_AddElement
<1>8. SumFunctionOnSet(g, S) = SumFunctionOnSet(f, S)
  <2>1. \A r \in S : g[r] = f[r]
    BY <1>2, <1>3
  <2> QED
    BY <1>6, <2>1, SumSame
<1>9. g[row] = row.amount
  BY <1>2, <1>3
<1> QED
  BY <1>1, <1>2, <1>4, <1>5, <1>7, <1>8, <1>9

\* A sale that was in flight is stored, and the ask filled.
Delivers(n, id, b, row, published) ==
    /\ Owner[id[1]] = n /\ up[n] /\ IsSale(n, id) /\ SetTM(n, id, NoTM)
    /\ books' = [books EXCEPT ![n] = b] /\ Tidy(books[n], b) /\ Spares(books[n], b, id)
    /\ row.tx = id /\ row.amount = AmountOf(n, id) /\ row.party = "receiver"
    /\ b.stored = books[n].stored \cup {row}
    /\ FillAsk(id[1], AmountOf(n, id), published)
    /\ Quiet(net') /\ UNCHANGED <<bid, market, tunnels, outside>>

LEMMA PayeeDelivers ==
    ASSUME Owed, Owed', Counted, NEW n \in Nodes, NEW id \in TxIds, NEW b, NEW row,
           NEW published \in BOOLEAN, Delivers(n, id, b, row, published)
    PROVE  Counted'
<1>0. PICK a : a = id[1]
  OBVIOUS
<1>20. /\ Owner[a] = n /\ up[n] /\ IsSale(n, id) /\ SetTM(n, id, NoTM)
      /\ books' = [books EXCEPT ![n] = b] /\ Tidy(books[n], b) /\ Spares(books[n], b, id)
      /\ row.tx = id /\ row.amount = AmountOf(n, id) /\ row.party = "receiver"
      /\ b.stored = books[n].stored \cup {row}
      /\ FillAsk(a, AmountOf(n, id), published)
      /\ Quiet(net') /\ UNCHANGED <<bid, market, tunnels, outside>>
  BY <1>0 DEF Delivers
<1>1. NewManager(n, id, NoTM) /\ SalesOfOthers(n, id) /\ NewBook(n, b)
  BY <1>20, TypesOf, SetTMFacts, SetTMSpares, ManagersFit, NewBookFacts
<1>2. ~IsSale(n, id)'
  BY <1>1 DEF IsSale, NewManager, NoTM
<1>3. PICK x : x = AmountOf(n, id)
  OBVIOUS
<1>4. /\ InFlight(n, a)' = InFlight(n, a) \ {id} /\ IsFiniteSet(InFlight(n, a)')
      /\ \A j \in InFlight(n, a)' : AmountOf(n, j)' = AmountOf(n, j)
      /\ x \in Nat /\ Promised(n, a)' \in Nat /\ Promised(n, a) \in Nat
      /\ Promised(n, a) = Promised(n, a)' + x
  BY <1>0, <1>20, <1>1, <1>2, <1>3, SaleEnds
<1>5. /\ a \in Asks /\ ask[a] \in AskObjects
      /\ ask[a].state = "deleted" => x = 0
      /\ ask[a].state # "deleted" => /\ x <= ask[a].commitment
                                     /\ ask[a].commitment = Promised(n, a)
                                     /\ ask[a].commitment <= ask[a].amount
  BY <1>0, <1>20, <1>3, SaleFits
<1>6. x <= ask[a].commitment
  BY <1>4, <1>5 DEF AskObjects
<1>7. PICK e : Filled(ask[a], e, x) /\ ask' = [ask EXCEPT ![a] = e]
  <2>1. ask \in [Asks -> AskObjects]
    BY TypesOf DEF OrdersTyped
  <2>2. FillAsk(a, x, published)
    BY <1>20, <1>3
  <2> QED
    BY <1>4, <1>5, <1>6, <2>1, <2>2, FillAskFacts
<1>8. OrdersTyped' /\ ask'[a] = e /\ \A c \in Asks : c # a => SameAsk(c)
  <2>1. bid' = bid /\ market' = market /\ OrdersTyped /\ e \in AskObjects
    BY <1>20, <1>7, TypesOf DEF Filled
  <2> QED
    BY <1>5, <1>7, <2>1, AsksFit
<1>9. id \in InFlight(n, a) /\ Committed(a) /\ Sold(a)
  BY <1>0, <1>20, <1>5 DEF InFlight, Counted
<1>10. Committed(a)'
  <2>1. CASE ask[a].state = "deleted"
    <3>1. e.state = "deleted"
      BY <1>7, <2>1 DEF Filled
    <3>2. \A j \in InFlight(n, a) : AmountOf(n, j) = 0
      BY <1>20, <1>9, <2>1 DEF Committed
    <3>3. \A j \in InFlight(n, a)' : AmountOf(n, j)' = 0
      BY <1>4, <3>2
    <3> QED
      BY <1>20, <1>4, <1>8, <3>1, <3>3 DEF Committed
  <2>2. CASE ask[a].state # "deleted" /\ ask[a].amount > x
    <3>1. /\ e.state # "deleted" /\ e.commitment = Promised(n, a)' /\ e.commitment <= e.amount
      BY <1>4, <1>5, <1>7, <2>2 DEF Filled, AskObjects
    <3> QED
      BY <1>20, <1>4, <1>8, <3>1 DEF Committed
  <2>3. CASE ask[a].state # "deleted" /\ ~(ask[a].amount > x)
    <3>1. x = Promised(n, a)
      BY <1>4, <1>5, <2>3 DEF AskObjects
    <3>2. \A j \in InFlight(n, a) \ {id} : AmountOf(n, j) = 0
      <4>1. AmountOf(n, id) = Promised(n, a)
        BY <1>3, <3>1
      <4> QED
        BY <1>20, <1>5, <1>9, <4>1, NothingLeft
    <3>3. \A j \in InFlight(n, a)' : AmountOf(n, j)' = 0
      BY <1>4, <3>2
    <3>4. e.state = "deleted"
      BY <1>7, <2>3 DEF Filled
    <3> QED
      BY <1>20, <1>4, <1>8, <3>3, <3>4 DEF Committed
  <2> QED
    BY <2>1, <2>2, <2>3
<1>11. Unsold(a) = Unsold(a)' + x /\ Unsold(a) \in Nat /\ Unsold(a)' \in Nat
  <2>1. e \in AskObjects /\ ask'[a] = e
    BY <1>7, <1>8 DEF Filled
  <2>2. CASE ask[a].state = "deleted"
    <3>1. e.state = "deleted" /\ x = 0
      BY <1>5, <1>7, <2>2 DEF Filled
    <3> QED
      BY <2>1, <2>2, <3>1 DEF Unsold
  <2>3. CASE ask[a].state # "deleted" /\ ask[a].amount > x
    <3>1. e.state # "deleted" /\ e.amount = ask[a].amount - x
      BY <1>7, <2>3 DEF Filled
    <3> QED
      BY <1>4, <1>5, <2>1, <2>3, <3>1 DEF Unsold, AskObjects
  <2>4. CASE ask[a].state # "deleted" /\ ~(ask[a].amount > x)
    <3>1. e.state = "deleted" /\ x = ask[a].amount
      BY <1>4, <1>5, <1>7, <2>4 DEF Filled, AskObjects
    <3> QED
      BY <1>4, <1>5, <2>1, <2>4, <3>1 DEF Unsold
  <2> QED
    BY <2>2, <2>3, <2>4
<1>12. IsFiniteSet(Sales(a)') /\ SoldOf(a)' = SoldOf(a) + x
  <2>1. \A r \in Sales(a) : r.amount \in Int
    <3>1. Sales(a) \subseteq Rows
      BY <1>20, TypesOf DEF Sales, Receipts, IsOrderly
    <3> QED
      BY <3>1 DEF Rows
  <2>2. row \notin Sales(a)
    <3>1. \A r \in Takings(books[n]) : r.tx # id
      BY <1>20, NothingTaken DEF IsSale, MayUndo
    <3> QED
      BY <1>20, <3>1 DEF Sales, Receipts, Takings
  <2>3. Receipts(n)' = Receipts(n) \cup {row}
    BY <1>20, <1>1 DEF Receipts, NewBook
  <2>4. row.tx[1] = a /\ row.amount = x /\ x \in Int /\ n = Owner[a]
    BY <1>0, <1>20, <1>3, <1>4
  <2>5. IsFiniteSet(Sales(a))
    BY <1>9 DEF Sold
  <2>6. IsFiniteSet(Sales(a)') /\ SoldOf(a)' = SoldOf(a) + row.amount
    BY <1>5, <2>1, <2>2, <2>3, <2>4, <2>5, SaleStored
  <2> QED
    BY <2>4, <2>6
<1>13. Sold(a)'
  <2>1. SoldOf(a) = Volume[a] - Unsold(a)
    BY <1>9 DEF Sold
  <2>2. Volume[a] \in Nat
    BY <1>5, OrdersAssumption
  <2>3. SoldOf(a)' = Volume[a] - Unsold(a)'
    BY <1>4, <1>11, <1>12, <2>1, <2>2
  <2> QED
    BY <1>12, <2>3 DEF Sold
<1>14. \A j \in TxIds : MadeOnce(j)'
  <2>1. bid' = bid /\ NoNewQueries(net')
    BY <1>20 DEF Quiet
  <2>2. \A o \in Bids : bid[o].matched \subseteq bid'[o].matched
    BY <2>1
  <2> QED
    BY <1>20, <1>1, <2>1, <2>2, NotesFade
<1>15. net' \in Links /\ TunnelsTyped' /\ UNCHANGED outside
  BY <1>20, TypesOf DEF Quiet, TunnelsTyped
<1> QED
  BY <1>0, <1>20, <1>1, <1>8, <1>10, <1>13, <1>14, <1>15, CountedBy DEF Tidy

LEMMA PayeeCommitCounted ==
    ASSUME Owed, Owed', Counted, NEW n \in Nodes, NEW p \in Nodes, PayeeCommit(n, p)
    PROVE  Counted'
<1>0. PICK item, id : item = Head(net[p][n]) /\ id = item.tx
  OBVIOUS
<1>1. PICK b0, b1, b2, s, a, amount, failed, row :
          /\ s = Payee(id) /\ a = id[1]
          /\ b0 = books[n] /\ b1 = Activate(b0, s) /\ b2 = Persist(b1, s)
          /\ amount = b0.contract[s].amount
          /\ failed = Cohorte("payee", "ABORT_REQUEST", TRUE)
          /\ row = RowOf(s, b1.contract[s])
  OBVIOUS
<1>2. /\ Receives(n, p, {"COMMIT"})
      /\ Tm(n, p).role = "payee" /\ Tm(n, p).phase = "QUERY"
  BY DEF PayeeCommit
<1>3. /\ net[p][n] # <<>> /\ id \in TxIds /\ item.phase = "COMMIT" /\ item.tx = id
      /\ currentTX[n][id].role = "payee" /\ currentTX[n][id].phase = "QUERY"
      /\ item \in Range(net[p][n]) /\ Quiet(Taken(n, p)) /\ up[n]
  BY <1>0, <1>2, HeadTyped
<1>4. /\ currentTX[n][id].contract /\ s \in DOMAIN b0.contract
      /\ b0.contract[s].peer = p /\ b0.contract[s].btcTx = id
  <2>1. Voted(n, id) /\ Token(item, id)
    BY <1>3 DEF Voted, Token
  <2> QED
    BY <1>1, <1>3, <2>1, CommitTells
<1>5. /\ IsSale(n, id) /\ Owner[a] = n /\ a \in Asks /\ AmountOf(n, id) = amount
      /\ s.tx = id /\ s.party = "receiver"
  <2>1. IsSale(n, id) /\ Owner[id[1]] = n
    BY <1>3, <1>4, ManagerHas DEF IsSale, IsManager
  <2>2. AmountOf(n, id) = amount
    BY <1>1 DEF AmountOf
  <2> QED
    BY <1>1, <1>3, <2>1, <2>2, TheRefs DEF TxIds
<1>6. IsBook(b0) /\ IsOrderly(b0)
  BY <1>1, TypesOf
<1>7. Changed(b0, b1, id) /\ Edited(b0, b1, s, amount, id)
  BY <1>1, <1>3, <1>4, <1>5, <1>6, EditChanged, ActivateFacts
<1>8. /\ IsBook(b1) /\ IsOrderly(b1) /\ s \in DOMAIN b1.contract /\ b1.contract[s].peer = p
      /\ b1.contract[s].amount = amount /\ b1.contract[s].btcTx = id /\ b1.stored = b0.stored
      /\ Tidy(b0, b1) /\ Spares(b0, b1, id)
  BY <1>4, <1>7 DEF Changed, Tidy, Edited
<1>9. UNCHANGED <<bid, market, tunnels, outside>>
  BY DEF PayeeCommit
<1>10. \/ /\ books' = [books EXCEPT ![n] = b2] /\ SetTM(n, id, NoTM)
          /\ net' = Taken(n, p)
          /\ FillAsk(a, amount, TRUE) \/ FillAsk(a, amount, FALSE)
       \/ /\ books' = [books EXCEPT ![n] = b1] /\ SetTM(n, id, failed)
          /\ net' = Sent(Taken(n, p), n, p, Order("ABORT_REQUEST", Head(net[p][n]).tx))
          /\ UNCHANGED ask
  BY <1>0, <1>1 DEF PayeeCommit, Forget
<1>11. CASE /\ books' = [books EXCEPT ![n] = b2] /\ SetTM(n, id, NoTM)
            /\ net' = Taken(n, p)
            /\ FillAsk(a, amount, TRUE) \/ FillAsk(a, amount, FALSE)
  <2>1. Tidy(b0, b2) /\ Spares(b0, b2, id)
    <3>1. Tidy(b1, b2)
      BY <1>1, <1>5, <1>8, PersistTidy
    <3>2. Spares(b1, b2, id)
      BY <1>1, <1>5, <1>8, PersistSpares
    <3> QED
      BY <1>8, <3>1, <3>2, TidyTwice, SparesFacts
  <2>2. b2.stored = b0.stored \cup {row} /\ row.tx = id /\ row.party = "receiver"
    BY <1>1, <1>5, <1>8, StoredOnce
  <2>3. row.amount = AmountOf(n, id)
    BY <1>1, <1>5, <1>8 DEF RowOf
  <2>4. PICK published \in BOOLEAN : FillAsk(a, AmountOf(n, id), published)
    BY <1>5, <1>11
  <2>5. Quiet(net')
    BY <1>3, <1>11
  <2> QED
    <3>1. /\ Owner[id[1]] = n /\ IsSale(n, id) /\ Tidy(books[n], b2) /\ Spares(books[n], b2, id)
          /\ b2.stored = books[n].stored \cup {row} /\ FillAsk(id[1], AmountOf(n, id), published)
      BY <1>1, <1>5, <2>1, <2>2, <2>4
    <3>2. Delivers(n, id, b2, row, published)
      BY <1>3, <1>9, <1>11, <2>2, <2>3, <2>5, <3>1 DEF Delivers
    <3> QED
      BY <1>3, <3>2, PayeeDelivers
<1>12. CASE /\ books' = [books EXCEPT ![n] = b1] /\ SetTM(n, id, failed)
            /\ net' = Sent(Taken(n, p), n, p, Order("ABORT_REQUEST", Head(net[p][n]).tx))
            /\ UNCHANGED ask
  <2>1. failed \in Managers /\ failed.role = "payee" /\ failed.contract
    BY <1>1 DEF Cohorte, Managers
  <2>2. NewManager(n, id, failed) /\ SalesOfOthers(n, id) /\ NewBook(n, b1)
    BY <1>3, <1>12, <2>1, TypesOf, SetTMFacts, SetTMSpares, NewBookFacts
  <2>3. IsSale(n, id)' /\ AmountOf(n, id)' = AmountOf(n, id)
    <3>1. IsSale(n, id)'
      BY <1>3, <1>12, <2>1, TypesOf, NewTMSold
    <3> QED
      BY <1>1, <1>5, <1>8, <2>2, <3>1 DEF AmountOf, NewBook
  <2>4. Takings(b1) = Takings(books[n])
    BY <1>1, <1>8 DEF Takings
  <2>5. Quiet(net')
    BY <1>2, <1>12, SendsOrder DEF Phases
  <2>6. \A j \in TxIds : MadeOnce(j)'
    <3>1. bid' = bid /\ NoNewQueries(net') /\ Tidy(books[n], b1)
      BY <1>1, <1>8, <1>9, <2>5 DEF Quiet
    <3>2. \A o \in Bids : bid[o].matched \subseteq bid'[o].matched
      BY <3>1
    <3> QED
      BY <2>2, <3>1, <3>2, NotesFade
  <2>7. OrdersTyped' /\ \A c \in Asks : SameAsk(c)
    BY <1>9, <1>12, TypesOf DEF SameAsk, OrdersTyped
  <2>8. TunnelsTyped' /\ net' \in Links /\ UNCHANGED outside
    BY <1>9, <2>5, TypesOf DEF TunnelsTyped, Quiet
  <2>9. Spares(books[n], b1, id) /\ IsOrderly(b1)
    BY <1>1, <1>8
  <2> QED
    BY <1>3, <1>5, <2>2, <2>3, <2>4, <2>6, <2>7, <2>8, <2>9, CountedQuietly
<1> QED
  BY <1>10, <1>11, <1>12

-----------------------------------------------------------------------------
(* The buyer's match.                                                      *)

LEMMA AsksFinite == IsFiniteSet(Asks)
BY OrdersAssumption DEF IsFiniteSet, Range

LEMMA BuyFacts ==
    ASSUME OrdersTyped, NEW n \in Nodes, NEW b \in Bids, NEW a \in Tried(n, b)
    PROVE  Buy(n, b, a) \in Nat
<1>1. PICK B, f : B = Before(n, b, a) /\ f = [c \in Asks |-> market[n][c].amount]
  OBVIOUS
<1>2. PICK w, have : w = Wanted(n, b, a) /\ have = bid[b].amount
  OBVIOUS
<1>3. a \in Asks /\ (B = {} \/ w > 0)
  BY <1>1, <1>2 DEF Tried, Candidates
<1>4. have \in Nat /\ \A c \in Asks : f[c] \in Nat
  BY <1>1, <1>2 DEF OrdersTyped, BidObjects, AsksOfOthers
<1>5. w = have - SumFunctionOnSet(f, B)
  BY <1>1, <1>2 DEF Wanted
<1>6. w \in Nat
  <2>1. CASE B = {}
    <3>1. SumFunctionOnSet(f, B) = 0
      BY <2>1, SumEmpty
    <3> QED
      BY <1>4, <1>5, <3>1
  <2>2. CASE w > 0
    <3>1. B \subseteq Asks
      BY <1>1 DEF Before, Candidates
    <3>2. IsFiniteSet(B)
      BY <3>1, AsksFinite, FS_Subset
    <3>3. SumFunctionOnSet(f, B) \in Nat
      BY <1>4, <3>1, <3>2, SumNat
    <3> QED
      BY <1>4, <1>5, <2>2, <3>3
  <2> QED
    BY <1>3, <2>1, <2>2
<1>7. PICK S : S = {w, f[a]}
  OBVIOUS
<1>8. Min(S) \in S /\ S \subseteq Nat
  <2>1. S \subseteq Nat /\ S # {}
    BY <1>3, <1>4, <1>6, <1>7
  <2> QED
    BY <2>1, MinFacts
<1>9. Buy(n, b, a) = Min(S)
  BY <1>1, <1>2, <1>3, <1>7 DEF Buy
<1> QED
  BY <1>8, <1>9

LEMMA QueryTyped ==
    ASSUME OrdersTyped, NEW n \in Nodes, NEW b \in Bids, NEW a \in Tried(n, b)
    PROVE  Query(n, b, a) \in Items
<1>1. PICK x, id : x = Buy(n, b, a) /\ id = <<a, b>>
  OBVIOUS
<1>2. x \in Nat /\ id \in TxIds
  BY <1>1, BuyFacts DEF Tried, Candidates, TxIds
<1>3. "QUERY" \in Phases /\ NoBtcTx \in BtcTxs
  BY DEF Phases, BtcTxs
<1> QED
  BY <1>1, <1>2, <1>3, ItemsFit DEF Query

LEMMA MatchNet ==
    ASSUME net \in Links, OrdersTyped, NEW n \in Nodes, NEW b \in Bids,
           NEW asks \in SUBSET Tried(n, b),
           net' = [net EXCEPT ![n] = [t \in Nodes |-> @[t] \o Queries(n, b, t, asks)]]
    PROVE  net' \in Links
<1>1. ASSUME NEW t \in Nodes
      PROVE  net[n][t] \o Queries(n, b, t, asks) \in Seq(Items)
  <2>1. PICK r : r = Queries(n, b, t, asks)
    OBVIOUS
  <2>2. asks \in SUBSET Asks
    BY DEF Tried, Candidates
  <2>3. Asked(n, b, t, asks, r)
    BY <2>1, <2>2, QueriesFacts
  <2>4. \A k \in DOMAIN r : r[k] \in Items
    BY <2>3, QueryTyped DEF Asked
  <2>5. r \in Seq(Items)
    BY <2>3, <2>4 DEF Asked
  <2>6. net[n][t] \in Seq(Items)
    BY DEF Links
  <2> QED
    BY <2>1, <2>5, <2>6
<1>2. PICK new : new = [t \in Nodes |-> net[n][t] \o Queries(n, b, t, asks)]
  OBVIOUS
<1>3. new \in [Nodes -> Seq(Items)]
  BY <1>1, <1>2
<1>4. net' = [net EXCEPT ![n] = new]
  BY <1>2 DEF Links
<1> QED
  BY <1>3, <1>4 DEF Links

\* The contracts that a match makes.
MatchRefs(b, tried) == {Payer(<<a, b>>) : a \in tried}
MatchDeals(n, b, tried) ==
    [ref \in MatchRefs(b, tried) |->
        Contract(NextHop[n][ref.tx[1]], Buy(n, b, ref.tx[1]))]
MatchList(b, tried) ==
    [i \in DOMAIN Ranked(tried) |-> Payer(<<Ranked(tried)[i], b>>)]

LEMMA MatchListFacts ==
    ASSUME NEW b \in Bids, NEW tried \in SUBSET Asks
    PROVE  /\ MatchList(b, tried) \in Seq(MatchRefs(b, tried)) /\ IsInjective(MatchList(b, tried))
           /\ MatchRefs(b, tried) \subseteq Refs
           /\ \A ref \in MatchRefs(b, tried) :
                 \E a \in tried : ref.tx = <<a, b>> /\ ref.tx[1] = a /\ <<a, b>> \in TxIds
<1>1. ASSUME NEW a \in tried
      PROVE  Payer(<<a, b>>) \in Refs /\ Payer(<<a, b>>).tx = <<a, b>> /\ <<a, b>> \in TxIds
  <2>1. <<a, b>> \in TxIds
    BY DEF TxIds
  <2> QED
    BY <2>1, TheRefs
<1>2. PICK q, r : q = Ranked(tried) /\ r = MatchList(b, tried)
  OBVIOUS
<1>3. /\ q \in Seq(tried) /\ IsInjective(q)
      /\ r = [i \in DOMAIN q |-> Payer(<<q[i], b>>)]
  BY <1>2, RankedFacts DEF MatchList
<1>4. /\ DOMAIN q = 1..Len(q) /\ Len(q) \in Nat /\ \A i \in DOMAIN q : q[i] \in tried
  BY <1>3, LenProperties
<1>5. \A i \in DOMAIN q : r[i] \in MatchRefs(b, tried) /\ r[i].tx = <<q[i], b>>
  BY <1>1, <1>3, <1>4 DEF MatchRefs
<1>6. r \in Seq(MatchRefs(b, tried))
  <2>1. r \in [1..Len(q) -> MatchRefs(b, tried)]
    BY <1>3, <1>4, <1>5
  <2> QED
    BY <1>4, <2>1, SeqDef
<1>7. IsInjective(r)
  <2>1. DOMAIN r = DOMAIN q
    BY <1>3
  <2> SUFFICES ASSUME NEW i \in DOMAIN q, NEW j \in DOMAIN q, r[i] = r[j]
               PROVE  i = j
    BY <2>1 DEF IsInjective
  <2>2. <<q[i], b>> = <<q[j], b>>
    BY <1>5
  <2>3. q[i] = q[j]
    BY <2>2
  <2> QED
    BY <1>3, <2>3 DEF IsInjective
<1>8. ASSUME NEW ref \in MatchRefs(b, tried)
      PROVE  ref \in Refs /\ \E a \in tried : ref.tx = <<a, b>> /\ ref.tx[1] = a /\ <<a, b>> \in TxIds
  <2>1. PICK a \in tried : ref = Payer(<<a, b>>)
    BY DEF MatchRefs
  <2>2. ref \in Refs /\ ref.tx = <<a, b>> /\ <<a, b>> \in TxIds
    BY <1>1, <2>1
  <2>3. ref.tx[1] = a
    BY <2>2
  <2> QED
    BY <2>2, <2>3
<1> QED
  BY <1>2, <1>6, <1>7, <1>8

\* The buyer's book is in order and names the transactions that are begun.
LEMMA MatchGrows ==
    ASSUME Owed, Counted, NEW n \in Nodes, NEW b \in Bids, Owner[b] = n,
           NEW c, c = NewSenders(books[n], MatchList(b, Tried(n, b)), MatchDeals(n, b, Tried(n, b)))
    PROVE  Grown(books[n], c, MatchRefs(b, Tried(n, b)))
<1>1. PICK tried, refs, made, list : /\ tried = Tried(n, b) /\ refs = MatchRefs(b, tried)
                                     /\ made = MatchDeals(n, b, tried) /\ list = MatchList(b, tried)
  OBVIOUS
<1>2. tried \in SUBSET Asks
  BY <1>1 DEF Tried, Candidates
<1>3. /\ list \in Seq(refs) /\ IsInjective(list) /\ refs \subseteq Refs
      /\ \A ref \in refs : \E a \in tried : /\ ref.tx = <<a, b>> /\ ref.tx[1] = a
                                            /\ <<a, b>> \in TxIds
  BY <1>1, <1>2, MatchListFacts
<1>4. IsBook(books[n]) /\ IsOrderly(books[n]) /\ OrdersTyped
  BY TypesOf
<1>5. DOMAIN made = refs
  BY <1>1 DEF MatchDeals
<1>6. ASSUME NEW ref \in refs
      PROVE  made[ref] \in Contracts
  <2>1. PICK a \in tried : ref.tx[1] = a
    BY <1>3
  <2>2. PICK x, t : x = Buy(n, b, a) /\ t = NextHop[n][a]
    OBVIOUS
  <2>3. x \in Nat /\ t \in Nodes
    BY <1>1, <1>4, <2>2, BuyFacts, TriedFacts
  <2>4. made[ref] = Contract(t, x)
    BY <1>1, <1>6, <2>1, <2>2 DEF MatchDeals
  <2> QED
    BY <2>3, <2>4 DEF Contract, Contracts, BtcTxs
<1>7. ASSUME NEW ref \in refs
      PROVE  ref \notin Range(books[n].list)
  <2>1. PICK a \in tried : ref.tx = <<a, b>> /\ <<a, b>> \in TxIds
    BY <1>3
  <2>2. PICK id : id = <<a, b>>
    OBVIOUS
  <2>3. id \in TxIds /\ id[1] = a /\ id[2] = b /\ a \notin bid[b].matched
    BY <1>1, <2>1, <2>2 DEF Tried, Candidates
  <2>4. ~Noted(n, id)
    BY <2>3 DEF Counted, MadeOnce
  <2> QED
    BY <2>1, <2>2, <2>4 DEF Noted
<1>8. Range(books[n].list) \cap refs = {}
  BY <1>7
<1>9. Grown(books[n], NewSenders(books[n], list, made), DOMAIN made)
  BY <1>3, <1>4, <1>5, <1>6, <1>8, NewSendersTidy
<1> QED
  BY <1>1, <1>5, <1>9

MatchSends(n, b, asks) ==
    \A id \in TxIds :
        /\ ~(id[2] = b /\ id[1] \in asks) => ItemsFade(id)
        /\ id[2] = b /\ id[1] \in asks =>
              OnlyItem(id, n, NextHop[n][id[1]], Query(n, b, id[1]))
MatchNotes(n, b, tried) ==
    /\ NewBook(n, books'[n]) /\ Grown(books[n], books'[n], MatchRefs(b, tried))
    /\ \A o \in Bids : bid[o].matched \subseteq bid'[o].matched
    /\ tried \subseteq bid'[b].matched

LEMMA MatchMadeOnce ==
    ASSUME Owed, Counted, NEW n \in Nodes, NEW b \in Bids, Owner[b] = n,
           NEW asks \in SUBSET Tried(n, b), MatchSends(n, b, asks), MatchNotes(n, b, Tried(n, b))
    PROVE  \A j \in TxIds : MadeOnce(j)'
<1>0. PICK tried, c : /\ tried = Tried(n, b) /\ asks \in SUBSET tried
                      /\ c = books'[n] /\ NewBook(n, c)
                      /\ Grown(books[n], c, MatchRefs(b, tried))
                      /\ \A o \in Bids : bid[o].matched \subseteq bid'[o].matched
                      /\ tried \subseteq bid'[b].matched
  BY DEF MatchNotes
<1> SUFFICES ASSUME NEW j \in TxIds
             PROVE  MadeOnce(j)'
  OBVIOUS
<1>1. j[1] \in Asks /\ j[2] \in Bids /\ j = <<j[1], j[2]>> /\ MadeOnce(j)
  BY DEF TxIds, Counted
<1>2. tried \in SUBSET Asks
  BY <1>0 DEF Tried, Candidates
<1>3. ASSUME NEW m \in Nodes, m # n \/ ~(j[2] = b /\ j[1] \in tried)
      PROVE  Noted(m, j)' => Noted(m, j)
  <2>1. CASE m # n
    BY <1>0, <2>1 DEF NewBook, Noted
  <2>2. CASE m = n /\ ~(j[2] = b /\ j[1] \in tried)
    <3>1. \A ref \in MatchRefs(b, tried) : \E a \in tried : ref.tx = <<a, b>>
      BY <1>2, MatchListFacts
    <3>2. \A ref \in MatchRefs(b, tried) : ref.tx # j
      BY <2>2, <3>1
    <3> QED
      BY <1>0, <2>2, <3>2 DEF NewBook, Noted, Grown
  <2> QED
    BY <1>3, <2>1, <2>2
<1>4. CASE ~(j[2] = b /\ j[1] \in tried)
  <2>1. ItemsFade(j)
    BY <1>0, <1>4 DEF MatchSends
  <2>2. \A f, t \in Nodes : \A item \in Range(net'[f][t]) :
            item.tx = j /\ item.phase = "QUERY" => item \in Range(net[f][t])
    BY <2>1 DEF ItemsFade, Token
  <2>3. j[1] \in bid[j[2]].matched => j[1] \in bid'[j[2]].matched
    BY <1>0, <1>1
  <2> QED
    BY <1>1, <1>3, <1>4, <2>2, <2>3, MadeOnceStays
<1>5. CASE j[2] = b /\ j[1] \in tried
  <2>1. \A m \in Nodes : ~Noted(m, j)
    <3>1. j[1] \notin bid[j[2]].matched
      BY <1>0, <1>5 DEF Tried, Candidates
    <3> QED
      BY <1>1, <3>1 DEF MadeOnce
  <2>2. j[1] \in bid'[j[2]].matched
    BY <1>0, <1>5
  <2>3. ASSUME NEW f \in Nodes, NEW t \in Nodes, NEW item \in Range(net'[f][t]),
               item.tx = j, item.phase = "QUERY"
        PROVE  f = n /\ t = NextHop[n][j[1]]
    <3>1. Token(item, j)
      BY <2>3 DEF Token
    <3>2. CASE j[1] \in asks
      BY <1>5, <2>3, <3>1, <3>2 DEF OnlyItem, MatchSends
    <3>3. CASE j[1] \notin asks
      <4>1. item \in Range(net[f][t])
        BY <2>3, <3>1, <3>3 DEF ItemsFade, MatchSends
      <4>2. NoToken(net, <<j[1], b>>)
        BY <1>0, <1>5, TriedFacts
      <4>3. NoToken(net, j)
        BY <1>1, <1>5, <4>2
      <4> QED
        BY <2>3, <3>1, <4>1, <4>3 DEF NoToken
    <3> QED
      BY <3>2, <3>3
  <2>4. ASSUME NEW f \in Nodes, NEW t \in Nodes, NEW item \in Range(net'[f][t]),
               item.tx = j, item.phase = "QUERY"
        PROVE  \A m \in From(t, j[1]) : ~Noted(m, j)'
    <3>1. f = n /\ t = NextHop[n][j[1]]
      BY <2>3, <2>4
    <3>2. \A m \in From(t, j[1]) : m # n
      BY <1>1, <3>1, FromGoesOn
    <3>3. From(t, j[1]) \subseteq Nodes
      BY DEF From
    <3> QED
      BY <1>3, <2>1, <3>2, <3>3
  <2> QED
    BY <2>2, <2>4, FromStays DEF MadeOnce
<1> QED
  BY <1>4, <1>5

LEMMA MatchCounted ==
    ASSUME Owed, Owed', Counted, NEW n \in Nodes, NEW b \in Bids, Match(n, b)
    PROVE  Counted'
<1>1. PICK tried : tried = Tried(n, b)
  OBVIOUS
<1>2. PICK asks \in SUBSET tried :
         /\ currentTX' = [currentTX EXCEPT ![n] = [id \in TxIds |->
                IF id[1] \in asks /\ id[2] = b THEN Coordinator("book") ELSE @[id]]]
         /\ net' = [net EXCEPT ![n] = [t \in Nodes |-> @[t] \o Queries(n, b, t, asks)]]
  BY <1>1 DEF Match
<1>3. PICK c : c = NewSenders(books[n], MatchList(b, tried), MatchDeals(n, b, tried))
  OBVIOUS
<1>4. /\ Owner[b] = n /\ up[n]
      /\ books' = [books EXCEPT ![n] = c]
      /\ bid' = [bid EXCEPT ![b].locked = TRUE, ![b].matched = @ \cup tried]
      /\ UNCHANGED <<ask, market, tunnels, chain, outside>>
  BY <1>1, <1>3 DEF Match, MatchList, MatchDeals, MatchRefs
<1>5. tried \in SUBSET Asks /\ asks \in SUBSET Asks
  BY <1>1 DEF Tried, Candidates
<1>6. NewBook(n, c) /\ Grown(books[n], c, MatchRefs(b, tried)) /\ AfterMatch(n, b, tried, c)
  <2>1. NewBook(n, c)
    BY <1>4, TypesOf, NewBookFacts
  <2>2. Grown(books[n], c, MatchRefs(b, tried))
    BY <1>1, <1>3, <1>4, MatchGrows
  <2>3. AfterMatch(n, b, tried, c)
    BY <1>3, <1>5, MatchBook DEF MatchDeals, MatchRefs
  <2> QED
    BY <2>1, <2>2, <2>3
<1>7. /\ bid' \in [Bids -> BidObjects] /\ \A o \in Bids : bid[o].matched \subseteq bid'[o].matched
      /\ tried \subseteq bid'[b].matched
  <2>1. bid \in [Bids -> BidObjects]
    BY TypesOf DEF OrdersTyped
  <2>2. PICK old, x, e, all : /\ old = bid[b] /\ all = old.matched \cup tried
                              /\ x = [old EXCEPT !.locked = TRUE]
                              /\ e = [x EXCEPT !.matched = all]
    OBVIOUS
  <2>3. all \in SUBSET Asks /\ old \in BidObjects
    BY <1>5, <2>1, <2>2 DEF BidObjects
  <2>4. /\ x \in BidObjects /\ x.matched = old.matched
    BY <2>2, <2>3 DEF BidObjects
  <2>5. e \in BidObjects /\ e.matched = all
    BY <2>2, <2>3, <2>4 DEF BidObjects
  <2>6. bid' = [bid EXCEPT ![b] = e]
    BY <1>4, <2>1, <2>2, <2>4
  <2> QED
    BY <2>1, <2>2, <2>5, <2>6
<1>8. \A j \in TxIds : MadeOnce(j)'
  <2>1. \A a \in asks : NoToken(net, <<a, b>>)
    BY <1>1, <1>4, TriedFacts
  <2>2. net' = [net EXCEPT ![n] = [t \in Nodes |-> net[n][t] \o Queries(n, b, t, asks)]]
    BY <1>2 DEF Owed, Shape, Known
  <2>3. MatchSends(n, b, asks)
    BY <1>5, <2>1, <2>2, MatchLinks DEF MatchSends
  <2>4. MatchNotes(n, b, tried)
    BY <1>6, <1>7 DEF MatchNotes, NewBook
  <2> QED
    BY <1>1, <1>4, <2>3, <2>4, MatchMadeOnce
<1>9. OrdersTyped' /\ \A a \in Asks : SameAsk(a)
  BY <1>4, <1>7, TypesOf DEF OrdersTyped, SameAsk
<1>10. net' \in Links
  BY <1>1, <1>2, TypesOf, MatchNet
<1>11. /\ \A m \in Nodes : m # n => currentTX'[m] = currentTX[m]
       /\ \A id \in TxIds :
             currentTX'[n][id] = IF id[1] \in asks /\ id[2] = b THEN Coordinator("book")
                                 ELSE currentTX[n][id]
  BY <1>2, <1>5, TypesOf, MatchManagers
<1>12. ASSUME NEW m \in Nodes, NEW id \in TxIds
       PROVE  /\ IsSale(m, id)' <=> IsSale(m, id)
              /\ IsSale(m, id) => AmountOf(m, id)' = AmountOf(m, id)
  <2>1. CASE m # n
    BY <1>6, <1>11, <2>1 DEF IsSale, AmountOf, NewBook
  <2>2. CASE m = n
    <3>1. IsSale(n, id)' <=> IsSale(n, id)
      <4>1. CASE id[1] \in asks /\ id[2] = b
        <5>1. Owner[id[1]] # n
          BY <1>1, <4>1 DEF Tried, Candidates
        <5>2. ~IsSale(n, id)
          BY <5>1, ManagerHas DEF IsSale, IsManager
        <5>3. ~IsSale(n, id)'
          BY <1>11, <4>1 DEF IsSale, Coordinator
        <5> QED
          BY <5>2, <5>3
      <4>2. CASE ~(id[1] \in asks /\ id[2] = b)
        BY <1>11, <4>2 DEF IsSale
      <4> QED
        BY <4>1, <4>2
    <3>2. IsSale(n, id) => AmountOf(n, id)' = AmountOf(n, id)
      <4> SUFFICES ASSUME IsSale(n, id)
                   PROVE  AmountOf(n, id)' = AmountOf(n, id)
        OBVIOUS
      <4>1. PICK s : s = Payee(id)
        OBVIOUS
      <4>2. s \in DOMAIN books[n].contract
        BY <4>1, ManagerHas DEF IsSale, IsManager, GetsPaid
      <4>3. \A a \in tried : s # Payer(<<a, b>>)
        BY <4>1 DEF Payer, Payee, Ref
      <4>4. c.contract[s] = books[n].contract[s]
        BY <1>6, <4>2, <4>3 DEF AfterMatch
      <4> QED
        BY <1>6, <4>1, <4>4 DEF AmountOf, NewBook
    <3> QED
      BY <2>2, <3>1, <3>2
  <2> QED
    BY <2>1, <2>2
<1>13. ASSUME NEW m \in Nodes
       PROVE  IsOrderly(books'[m]) /\ Receipts(m)' = Receipts(m)
  <2>1. CASE m # n
    BY <1>6, <2>1, TypesOf DEF NewBook, Receipts
  <2>2. CASE m = n
    BY <1>6, <2>2 DEF NewBook, Receipts, Grown, AfterMatch
  <2> QED
    BY <2>1, <2>2
<1>14. UNCHANGED <<up, mishaps, tunnels>>
  BY <1>4 DEF outside
<1>15. ASSUME NEW a \in Asks
       PROVE  Committed(a)' /\ Sold(a)'
  <2>1. PICK o : o = Owner[a]
    OBVIOUS
  <2>2. o \in Nodes /\ Committed(a) /\ Sold(a) /\ SameAsk(a)
    BY <1>9, <2>1, OrdersAssumption DEF Counted
  <2>3. Committed(a)'
    BY <1>12, <1>14, <2>1, <2>2, CommittedStays
  <2>4. Receipts(o)' = Receipts(o)
    BY <1>13, <2>2
  <2> QED
    BY <2>1, <2>2, <2>3, <2>4, SoldStays
<1>16. TunnelsTyped' /\ up' \in [Nodes -> BOOLEAN] /\ mishaps' \in 0..MaxMishaps
  BY <1>14, TypesOf DEF TunnelsTyped, Counted, TypeOK
<1> QED
  BY <1>8, <1>9, <1>10, <1>13, <1>15, <1>16, AllCounted

-----------------------------------------------------------------------------
(* The theorems.                                                           *)

LEMMA HandlerCounted ==
    ASSUME Owed, Owed', Counted, NEW n \in Nodes, NEW p \in Nodes, HandleTxItem(n, p)
    PROVE  Counted'
<1>1. CASE CoordinatorNo(n, p)
  BY <1>1, CoordinatorNoCounted
<1>2. CASE CoordinatorYes(n, p)
  BY <1>2, CoordinatorYesCounted
<1>3. CASE PayeeQuery(n, p)
  BY <1>3, PayeeQueryCounted
<1>4. CASE PayeeCommit(n, p)
  BY <1>4, PayeeCommitCounted
<1>5. CASE PayeeAbort(n, p)
  BY <1>5, PayeeAbortCounted
<1>6. CASE PayeeUninitialised(n, p)
  BY <1>6, PayeeUninitialisedCounted, DieCounted
<1>7. CASE PayeeGone(n, p)
  BY <1>7, PayeeGoneCounted
<1>8. CASE HopQuery(n, p)
  BY <1>8, HopQueryCounted
<1>9. CASE HopVote(n, p)
  BY <1>9, HopVoteCounted
<1>10. CASE HopCommit(n, p)
  BY <1>10, HopCommitCounted
<1>11. CASE HopOutOfPhase(n, p)
  BY <1>11, HopOutOfPhaseCounted
<1>12. CASE HopAbort(n, p)
  BY <1>12, HopAbortCounted
<1>13. CASE HopAbortRequest(n, p)
  BY <1>13, HopAbortRequestCounted
<1>14. CASE UseAfterFree(n, p)
  <2>1. Die(n)
    BY <1>14 DEF UseAfterFree
  <2> QED
    BY <2>1, DieCounted
<1>15. CASE PayeeUnknownPhase(n, p)
  BY <1>15, PayeeUnknownPhaseCounted
<1> QED
  BY <1>1, <1>2, <1>3, <1>4, <1>5, <1>6, <1>7, <1>8, <1>9, <1>10, <1>11, <1>12, <1>13,
     <1>14, <1>15 DEF HandleTxItem

LEMMA TimeoutCounted ==
    ASSUME Owed, Owed', Counted, NEW n \in Nodes, NEW id \in TxIds, Timeout(n, id)
    PROVE  Counted'
<1>1. CASE Die(n)
  BY <1>1, DieCounted
<1>2. CASE RollBackOnTimeout(n, id) /\ UNCHANGED <<tunnels, net, chain, outside>>
  <2>1. up[n]
    BY DEF Timeout
  <2>2. UNCHANGED <<tunnels, outside>> /\ net' = net
    BY <1>2
  <2>3. Quiet(net')
    BY <2>2, TypesOf
  <2>4. CASE currentTX[n][id].role = "coordinator" /\ RollBackCoordinator(n, id)
    BY <2>2, <2>3, <2>4, RollBackCoordinatorCounted
  <2>5. CASE currentTX[n][id].role = "payee" /\ RollBackPayee(n, id)
    BY <2>1, <2>2, <2>3, <2>5, RollBackPayeeCounted
  <2>6. CASE currentTX[n][id].role = "hop" /\ RollBackHop(n, id)
    BY <2>2, <2>3, <2>6, RollBackHopCounted
  <2> QED
    BY <1>2, <2>4, <2>5, <2>6 DEF RollBackOnTimeout
<1> QED
  BY <1>1, <1>2 DEF Timeout

LEMMA StepCounted ==
    ASSUME Owed, Counted, Next
    PROVE  Counted'
<1>0. Owed'
  BY StepKeeps
<1>1. PICK n \in Nodes :
          \/ \E b \in Bids : Match(n, b)
          \/ \E p \in Nodes : HandleTxItem(n, p)
          \/ \E a \in Asks : LearnOrder(n, a)
          \/ \E o \in Asks \cup Bids : CancelOrder(n, o)
          \/ \E id \in TxIds : Timeout(n, id)
          \/ \E p \in Nodes : DropLink(n, p)
          \/ Crash(n)
  BY DEF Next
<1>2. CASE \E b \in Bids : Match(n, b)
  BY <1>0, <1>2, MatchCounted
<1>3. CASE \E p \in Nodes : HandleTxItem(n, p)
  BY <1>0, <1>3, HandlerCounted
<1>4. CASE \E a \in Asks : LearnOrder(n, a)
  BY <1>0, <1>4, LearnOrderCounted
<1>5. CASE \E o \in Asks \cup Bids : CancelOrder(n, o)
  BY <1>0, <1>5, CancelOrderCounted
<1>6. CASE \E id \in TxIds : Timeout(n, id)
  BY <1>0, <1>6, TimeoutCounted
<1>7. CASE \E p \in Nodes : DropLink(n, p)
  BY <1>0, <1>7, DropLinkCounted
<1>8. CASE Crash(n)
  <2>1. Die(n)
    BY <1>8 DEF Crash
  <2> QED
    BY <1>0, <2>1, DieCounted
<1> QED
  BY <1>1, <1>2, <1>3, <1>4, <1>5, <1>6, <1>7, <1>8

LEMMA StutterCounted ==
    ASSUME Owed, Counted, UNCHANGED vars
    PROVE  Counted'
<1>1. Owed'
  BY StutterKeeps
<1>2. UNCHANGED <<ask, bid, market, currentTX, books, tunnels, net, up, mishaps>>
  BY DEF vars
<1>3. OrdersTyped' /\ \A a \in Asks : SameAsk(a)
  BY <1>2, TypesOf DEF OrdersTyped, SameAsk
<1>4. \A m \in Nodes, id \in TxIds : IsSale(m, id)' <=> IsSale(m, id)
  BY <1>2 DEF IsSale
<1>5. net' \in Links /\ NoNewQueries(net') /\ mishaps' \in 0..MaxMishaps
  BY <1>2, TypesOf DEF NoNewQueries, Counted, TypeOK
<1>6. \A o \in Bids : bid[o].matched \subseteq bid'[o].matched
  BY <1>2
<1>7. UNCHANGED <<books, up, tunnels>>
  BY <1>2
<1> QED
  BY <1>1, <1>3, <1>4, <1>5, <1>6, <1>7, SameBooksCounted

LEMMA CountedAtFirst ==
    ASSUME Init
    PROVE  Counted
<1>1. \A f, t \in Nodes : Range(net[f][t]) = {}
  BY DEF Init, Range
<1>2. \A n \in Nodes : /\ books[n].contract = <<>> /\ books[n].list = <<>> /\ books[n].stored = {}
                       /\ books[n].credit = [p \in Nodes |-> OpenLine(CreditLine)]
  BY DEF Init
<1>3. OrdersTyped
  <2>1. \A a \in Asks : Volume[a] \in Nat
    BY OrdersAssumption
  <2>2. \A b \in Bids : Volume[b] \in Nat
    BY OrdersAssumption
  <2>3. ask \in [Asks -> AskObjects]
    BY <2>1 DEF Init, AskObjects, OrderStates
  <2>4. bid \in [Bids -> BidObjects]
    BY <2>2 DEF Init, BidObjects, OrderStates
  <2>5. market \in [Nodes -> [Asks -> AsksOfOthers]]
    BY <2>1 DEF Init, AsksOfOthers
  <2> QED
    BY <2>3, <2>4, <2>5 DEF OrdersTyped
<1>4. ASSUME NEW n \in Nodes
      PROVE  IsOrderly(books[n])
  <2>1. DOMAIN books[n].contract = {} /\ <<>> \in Seq({})
    BY <1>2
  <2>2. OpenLine(CreditLine) \in CreditRecord
    BY OrdersAssumption DEF OpenLine, CreditRecord
  <2>3. IsInjective(<<>>)
    BY DEF IsInjective
  <2> QED
    BY <1>2, <2>1, <2>2, <2>3 DEF IsOrderly
<1>5. TypeOK
  <2>1. currentTX \in [Nodes -> [TxIds -> Managers]]
    BY ManagersFit DEF Init
  <2>2. tunnels \in [Nodes -> [Asks -> {NoTunnel} \cup Nodes \X (Nodes \cup {NoHop})]]
    BY DEF Init
  <2>3. net \in [Nodes -> [Nodes -> Seq(Items)]]
    <3>1. <<>> \in Seq(Items)
      OBVIOUS
    <3> QED
      BY <3>1 DEF Init
  <2>4. chain \subseteq TxIds /\ up \in [Nodes -> BOOLEAN] /\ mishaps \in 0..MaxMishaps
    BY OrdersAssumption DEF Init
  <2> QED
    BY <1>3, <1>4, <2>1, <2>2, <2>3, <2>4 DEF TypeOK
<1>6. ASSUME NEW id \in TxIds
      PROVE  MadeOnce(id)
  <2>1. \A n \in Nodes : ~Noted(n, id)
    BY <1>2 DEF Noted, Range
  <2> QED
    BY <1>1, <2>1 DEF MadeOnce
<1>7. ASSUME NEW a \in Asks
      PROVE  Committed(a) /\ Sold(a)
  <2>1. PICK o : o = Owner[a]
    OBVIOUS
  <2>2. o \in Nodes /\ Volume[a] \in Nat
    BY <2>1, OrdersAssumption
  <2>3. InFlight(o, a) = {}
    BY <2>2 DEF Init, InFlight, IsSale, NoTM
  <2>4. Sales(a) = {}
    BY <1>2, <2>1, <2>2 DEF Sales, Receipts
  <2>5. Promised(o, a) = 0
    BY <2>3, SumEmpty DEF Promised
  <2>6. SoldOf(a) = 0
    BY <2>4, SumEmpty DEF SoldOf
  <2>7. ask[a].amount = Volume[a] /\ ask[a].commitment = 0 /\ ask[a].state = "open"
    BY DEF Init
  <2>8. Committed(a)
    BY <2>1, <2>2, <2>3, <2>5, <2>7, FS_EmptySet DEF Committed
  <2>9. Sold(a)
    BY <2>2, <2>4, <2>6, <2>7, FS_EmptySet DEF Sold, Unsold
  <2> QED
    BY <2>8, <2>9
<1> QED
  BY <1>5, <1>6, <1>7 DEF Counted

\* Counted is inductive together with Owed.
THEOREM CountedInvariant == Spec => []Counted
<1>1. Init => Counted
  BY CountedAtFirst
<1>2. Owed /\ Counted /\ [Next]_vars => Counted'
  BY StepCounted, StutterCounted
<1> QED
  BY <1>1, <1>2, OwedInvariant, PTL DEF Spec

\* The state has its types: a book lists each contract object once, and the
\* amounts of orders, commitments, contracts and items are natural numbers,
\* though votes and rollbacks subtract from them.
THEOREM ContractTypes == Spec => []TypeOK
<1>1. Counted => TypeOK
  BY DEF Counted
<1> QED
  BY <1>1, CountedInvariant, PTL

\* m_commitment is the sum of the sales a seller has under way, and never more
\* than what is left of the order: no part of an ask is sold twice, see
\* CommitmentIsInFlight.
THEOREM NothingSoldTwice == Spec => []CommitmentIsInFlight
<1>1. Counted => CommitmentIsInFlight
  BY DEF Counted, Committed, CommitmentIsInFlight
<1> QED
  BY <1>1, CountedInvariant, PTL

\* What the seller's database says he sold of an ask is what the ask lost, see
\* SoldWithinVolume.
THEOREM SoldIsGone == Spec => []SoldWithinVolume
<1>1. Counted => SoldWithinVolume
  BY DEF Counted, Sold, SoldWithinVolume
<1> QED
  BY <1>1, CountedInvariant, PTL
=============================================================================
