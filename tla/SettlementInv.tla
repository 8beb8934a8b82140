--------------------------- MODULE SettlementInv ---------------------------
(***************************************************************************)
(* Why a contract is booked once and allocations are accounted for: what   *)
(* every step preserves about objects, rows and items, whatever fails.     *)
(***************************************************************************)
EXTENDS Settlement

\* Contracts are n's own, with the friend next to n on the route, and no row
\* is there twice.
OwnRef(n, ref) == ref \in AllRefs /\ ref \in Refs(n, ref.tx)
OwnContracts(n, b) ==
    /\ \A ref \in DOMAIN b.contract :
          OwnRef(n, ref) /\ b.contract[ref].peer = PeerOf(n, ref)
    /\ \A row \in b.stored :
          LET ref == Ref(row.tx, row.party)
          IN OwnRef(n, ref) /\ row.peer = PeerOf(n, ref) /\ row.btcTx = BtcTx(row.tx)
    /\ \A row, other \in b.stored :
          Ref(row.tx, row.party) = Ref(other.tx, other.party) => row = other

\* The contracts of the list that are in force are those with a row, and the
\* two say the same.
ObjectsMatchRows(b) ==
    \A ref \in Range(b.list) :
        /\ b.contract[ref].active <=> ref \in StoredRefs(b)
        /\ ref \in StoredRefs(b) => RowOf(b, ref).amount = b.contract[ref].amount

BooksAreSound == \A n \in Nodes : OwnContracts(n, books[n]) /\ ObjectsMatchRows(books[n])

\* Contracts are of deals that were agreed on; one that was booked has gone,
\* and a process that ended holds none.
PaidIsGone(b, taken) ==
    /\ \A ref \in Open(b) : ref.tx \in Range(agreed)
    /\ \A ref \in AllRefs :
          taken[ref] > 0 => ref.tx \in Range(agreed) /\ ref \notin Open(b)
BookedIsGone ==
    \A n \in Nodes :
        /\ PaidIsGone(books[n], paid[n])
        /\ ~up[n] => books[n].list = <<>>

\* What p will take n's line for when it has read all items.
Told(n, p) ==
    IF net[n][p] = <<>> THEN Load(books[p], n).our_credit
    ELSE net[n][p][Len(net[n][p])].our_credit
LinesAreTold ==
    \A n \in Nodes : \A p \in Friends[n] :
        <<n, p>> \notin untold =>
            /\ p \in DOMAIN books[n].credit
            /\ <<n, p>> \in online => Told(n, p) = books[n].credit[p].credit

Sound ==
    /\ TypeOK
    /\ BooksAreSound
    /\ BookedIsGone
    /\ PaidOnce
    /\ AllocationExplained
    /\ LinesAreTold

-----------------------------------------------------------------------------
(* Why friends agree.  The two contracts of a deal between neighbours on   *)
(* its route are settled at different times: Concord says what the books   *)
(* of a payer and a payee have in common meanwhile, each with its Desk, as *)
(* long as they have no reason to differ.                                  *)

Debt(d) == Ref(d, "sender")
Claim(d) == Ref(d, "receiver")

\* The deals in which n pays p.
Bought(n, p) == {d \in Deals : IsPayer(n, d) /\ Following(n, d) = p}

IsOpen(desk, ref) == ref \in Open(desk.book)
IsTaken(desk, ref) == desk.paid[ref] > 0
IsFirm(desk, ref) == ref \in StoredRefs(desk.book) \/ IsTaken(desk, ref)
Value(desk, ref) == IF IsOpen(desk, ref) THEN AmountOf(desk.book, ref) ELSE 0

\* By how much the payer's book is behind the payee's for a deal, and what the
\* payer has yet to book of it.
Lag(d, payer, payee) ==
    (IF IsTaken(payee, Claim(d)) THEN Value(payer, Debt(d)) ELSE 0)
        - (IF IsTaken(payer, Debt(d)) THEN Value(payee, Claim(d)) ELSE 0)
IsDue(d, payer, payee) ==
    IsOpen(payer, Debt(d)) /\ (IsOpen(payee, Claim(d)) \/ IsTaken(payee, Claim(d)))
Pending(d, payer, payee) == IF IsDue(d, payer, payee) THEN Value(payer, Debt(d)) ELSE 0

Lags(n, p, payer, payee) ==
    SumFunctionOnSet([d \in Bought(n, p) |-> Lag(d, payer, payee)], Bought(n, p))
Pendings(n, p, payer, payee) ==
    SumFunctionOnSet([d \in Bought(n, p) |-> Pending(d, payer, payee)], Bought(n, p))

\* Deals go one way between n and p, n is the payer: what n has yet to book,
\* it can, because the payee has reserved what it will receive.
Covers(n, p, payer, payee) ==
    LET mine == payer.book.credit[p]
        other == payee.book.credit[n]
    IN /\ mine.balance + other.balance = Lags(n, p, payer, payee)
       /\ (\E d \in Bought(n, p) : IsOpen(payee, Claim(d))) => PeerAvailable(other) >= 0
       /\ (\E d \in Bought(n, p) : IsDue(d, payer, payee)) =>
             Pendings(n, p, payer, payee) <= MyAvailable(mine)

\* What the books of n and p have in common on the deals in which n pays p.
Matches(n, p, payer, payee) ==
    /\ p \in DOMAIN payer.book.credit /\ n \in DOMAIN payee.book.credit
    /\ payee.left[n] >= 0
    /\ \A d \in Bought(n, p) :
          IsOpen(payer, Debt(d)) /\ IsOpen(payee, Claim(d)) =>
              Value(payer, Debt(d)) = Value(payee, Claim(d))
    /\ Bought(p, n) = {} => Covers(n, p, payer, payee)

\* Nobody who may have to pay for Bitcoins that left the seller has nothing in
\* his tables that says so.
AreFirm(n, p, payer, payee, became) ==
    \A d \in Bought(n, p) : became[d] # "waiting" =>
        IsFirm(payer, Debt(d)) /\ IsFirm(payee, Claim(d))

\* The line that n grants p, as p will hear of it, only rises.
LineRises(n, p) ==
    LET q == net[n][p]
        granted == Load(books[n], p).credit
    IN /\ <<n, p>> \notin untold
       /\ Load(books[p], n).our_credit <= granted
       /\ \A i \in DOMAIN q : /\ Load(books[p], n).our_credit <= q[i].our_credit
                              /\ q[i].our_credit <= granted
                              /\ \A j \in 1..i : q[j].our_credit <= q[i].our_credit

\* The seller hands the Bitcoins over when everybody has stored all contracts,
\* and while its own is open, a hop stores all of its contracts or none.
PaidIsConfirmed ==
    \A n \in Nodes : \A ref \in AllRefs : paid[n][ref] > 0 => btc[ref.tx] = "confirmed"
IsSeller(n, d) == IsPayee(n, d) /\ ~IsPayer(n, d)
IsHop(n, d) == IsPayee(n, d) /\ IsPayer(n, d)
Offers(n, d) == Claim(d) \in Range(books[n].list)
HopsAreComplete(d) ==
    \A m \in Nodes : IsHop(m, d) /\ Debt(d) \in StoredRefs(books[m])
                         => Claim(d) \in StoredRefs(books[m])
SellersDecide ==
    \A d \in Deals :
        /\ btc[d] # "waiting" => d \in Range(agreed)
        /\ \A n \in Nodes : IsSeller(n, d) =>
              IF btc[d] = "waiting"
              THEN /\ Claim(d) \notin StoredRefs(books[n])
                   /\ Offers(n, d) => HopsAreComplete(d)
              ELSE Offers(n, d) => Claim(d) \in StoredRefs(books[n])

FriendsConcur ==
    \A n \in Nodes : \A p \in Friends[n] :
        {n, p} \notin broken => /\ Matches(n, p, Desk(n), Desk(p))
                               /\ AreFirm(n, p, Desk(n), Desk(p), btc)
                               /\ LineRises(n, p)
Concord == Sound /\ PaidIsConfirmed /\ SellersDecide /\ FriendsConcur

\* No two friends buy from each other.
OneWay == \A n, p \in Nodes : Bought(n, p) = {} \/ Bought(p, n) = {}
=============================================================================
