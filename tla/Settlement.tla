----------------------------- MODULE Settlement -----------------------------
(***************************************************************************)
(* The life of contracts from the moment a transaction agreed on them: they *)
(* are stored, wait for their Bitcoin transaction, and are settled against *)
(* the credit lines of CreditLine by the janitor's pollContracts().  A deal *)
(* is one Bitcoin transaction; its route is the chain of friends from the  *)
(* buyer to the seller, each SENDER to the next and RECEIVER from the one  *)
(* before.  (How the chain comes to agree is ContractTx's subject; here it *)
(* is one step, Agree.)                                                    *)
(*                                                                         *)
(* Settling a contract writes the allocation, the balance and the table of *)
(* contracts as one SQLite transaction; each write may fail, and the       *)
(* process may die before any COMMIT.  The row of the payment log, which   *)
(* is in a database of its own, is not modelled here.                      *)
(***************************************************************************)
EXTENDS CreditLine

CONSTANTS
    Deals,        \* the Bitcoin transactions
    Route,        \* Route[d]: the friends from buyer to seller
    Amount,       \* Amount[d]: what the buyer asks for
    FirstLine,    \* what friends grant each other in the beginning
    MaxMishaps,   \* bound on mishaps
    MaxPayments   \* bound on payments beside the contracts

\* A route passes from friend to friend and nowhere twice.
ASSUME RouteAssumption ==
    /\ IsFiniteSet(Deals)
    /\ Route \in [Deals -> Seq(Nodes)]
    /\ \A d \in Deals :
          /\ Len(Route[d]) > 1 /\ IsInjective(Route[d])
          /\ \A i \in 1..(Len(Route[d]) - 1) : Route[d][i + 1] \in Friends[Route[d][i]]
    /\ Amount \in [Deals -> Nat \ {0}]
    /\ FirstLine \in Int
    /\ MaxMishaps \in Nat /\ MaxPayments \in Nat

VARIABLES
    agreed,    \* the deals that were agreed on, in this order
    btc,       \* btc[d]: what became of the Bitcoin transaction
    payments,  \* bound: payments made
    \* Kept for the properties only.
    paid,      \* paid[n]: how often n's books took each contract
    left,      \* left[n][p]: allocated with p's row and never to be given back
    broken     \* {n, p}: friends with a reason for their books to differ: a
               \*    deal that waited a day, a lower line, a reset or a failed
               \*    write

bookVars == <<books, paid, left, broken>>
vars == <<lineVars, agreed, btc, payments, paid, left, broken>>

-----------------------------------------------------------------------------
Position(n, d) == CHOOSE i \in DOMAIN Route[d] : Route[d][i] = n
On(n, d) == n \in Range(Route[d])
Prev(n, d) == Route[d][Position(n, d) - 1]
Following(n, d) == Route[d][Position(n, d) + 1]
IsPayer(n, d) == On(n, d) /\ Position(n, d) < Len(Route[d])
IsPayee(n, d) == On(n, d) /\ Position(n, d) > 1
Refs(n, d) ==
    {Ref(d, party) : party \in (IF IsPayer(n, d) THEN {"sender"} ELSE {})
                                 \cup (IF IsPayee(n, d) THEN {"receiver"} ELSE {})}
AllRefs == {Ref(d, party) : d \in Deals, party \in Parties}

BtcTx(d) == <<d>>

StoredRefs(b) == {Ref(row.tx, row.party) : row \in b.stored}
Open(b) == Range(b.list) \cup StoredRefs(b)

RowOf(b, ref) == CHOOSE row \in b.stored : Ref(row.tx, row.party) = ref
AmountOf(b, ref) ==
    IF Listed(b, ref) THEN b.contract[ref].amount
    ELSE RowOf(b, ref).amount
PeerOf(n, ref) ==
    IF ref.party = "sender" THEN Following(n, ref.tx) ELSE Prev(n, ref.tx)

\* The open RECEIVER contracts of n with p, and what a set of contracts is
\* worth.
ReceiversFrom(n, b, p) ==
    {ref \in Open(b) : ref.party = "receiver" /\ PeerOf(n, ref) = p}
Worth(b, refs) == SumFunctionOnSet([ref \in refs |-> AmountOf(b, ref)], refs)

\* What n does with a book for each of its contracts of a deal, one after the
\* other.
ForEachContract(n, d, b, Op(_, _)) ==
    LET paying == IF IsPayer(n, d) THEN Op(b, Ref(d, "sender")) ELSE b
    IN IF IsPayee(n, d) THEN Op(paying, Ref(d, "receiver")) ELSE paying

Init ==
    /\ books = [n \in Nodes |->
                   [contract |-> <<>>, list |-> <<>>, stored |-> {},
                    credit |-> [p \in Friends[n] |-> OpenLine(FirstLine)]]]
    /\ up = [n \in Nodes |-> TRUE]
    /\ online = {pair \in Nodes \X Nodes : pair[2] \in Friends[pair[1]]}
    /\ net = [f \in Nodes |-> [t \in Nodes |-> <<>>]]
    /\ untold = {}
    /\ mishaps = MaxMishaps
    /\ agreed = <<>>
    /\ btc = [d \in Deals |-> "waiting"]
    /\ payments = 0
    /\ paid = [n \in Nodes |-> [ref \in AllRefs |-> 0]]
    /\ left = [n \in Nodes |-> [p \in Nodes |-> 0]]
    /\ broken = {}

-----------------------------------------------------------------------------
(* Contracts come into being.                                              *)

\* The least that a payee of the route can take from the friend before it.
Agreed(d) ==
    Min({Amount[d]} \cup
        {PeerAvailable(Load(books[n], Prev(n, d))) :
            n \in {m \in Nodes : IsPayee(m, d)}})

\* The vote tells a contract which Bitcoin transaction it waits for.
Forgetful(b, ref) == b
Waiting(b, ref) == SetBtcTxId(b, ref, BtcTx(ref.tx))
WithContracts(n, d) ==
    LET asked == IF IsPayee(n, d)
                 THEN Waiting(NewReceiver(books[n], Ref(d, "receiver"), Prev(n, d),
                                          Agreed(d)), Ref(d, "receiver"))
                 ELSE books[n]
    IN IF IsPayer(n, d)
       THEN Waiting(NewSender(asked, Ref(d, "sender"), Following(n, d), Agreed(d)),
                    Ref(d, "sender"))
       ELSE asked

\* A transaction came to its vote: all nodes of the route have contracts on
\* the same amount, and credit allocated for what they will receive.
Agree(d) ==
    /\ ~Contains(agreed, d)
    /\ \A n \in Range(Route[d]) : up[n]
    /\ \A n \in Nodes : IsPayer(n, d) => Settled(n, Following(n, d))
    /\ \A n \in Nodes : IsPayee(n, d) => CanReceive(books[n], Prev(n, d))
    /\ books' = [n \in Nodes |->
                    IF On(n, d) THEN WithContracts(n, d) ELSE books[n]]
    /\ agreed' = Append(agreed, d)
    /\ UNCHANGED <<up, online, net, untold, mishaps, btc, payments, paid, left,
                   broken>>

Undecided(n, d) ==
    /\ up[n] /\ On(n, d)
    /\ \A ref \in Refs(n, d) :
          Listed(books[n], ref) /\ ~books[n].contract[ref].active

Stipulate(b, ref) == Persist(Activate(b, ref), ref)

\* The COMMIT has come as far as n: everybody before it has stored what it
\* will pay.
Reaches(n, d) ==
    \A i \in 1..(Position(n, d) - 1) :
        Ref(d, "sender") \in StoredRefs(books[Route[d][i]])

\* The COMMIT reaches n: its contracts are stored and active.  The seller
\* hands the Bitcoins over.
Commit(n, d) ==
    /\ Undecided(n, d) /\ Reaches(n, d)
    /\ books' = [books EXCEPT ![n] = ForEachContract(n, d, @, Stipulate)]
    /\ btc' = IF IsPayer(n, d) THEN btc ELSE [btc EXCEPT ![d] = "sent"]
    /\ UNCHANGED <<up, online, net, untold, mishaps, agreed, payments, paid, left,
                   broken>>

\* The COMMIT does not come: the transaction times out and is rolled back.
Abandon(n, d) ==
    /\ Undecided(n, d)
    /\ "timeout" \in Faults /\ Interfere
    /\ books' = [books EXCEPT ![n] = ForEachContract(n, d, @, RmContract)]
    /\ UNCHANGED <<up, online, net, untold, agreed, btc, payments, paid, left,
                   broken>>

Confirm(d) ==
    /\ btc[d] = "sent"
    /\ btc' = [btc EXCEPT ![d] = "confirmed"]
    /\ UNCHANGED <<lineVars, agreed, payments, paid, left, broken>>

-----------------------------------------------------------------------------
(* The janitor's pollContracts().  What a poll works on is a record of the *)
(* node's book and the three variables of the properties.                  *)

Desk(n) ==
    [book |-> books[n], paid |-> paid[n], left |-> left[n], broken |-> broken]

PutDesk(n, desk) ==
    /\ books' = [books EXCEPT ![n] = desk.book]
    /\ paid' = [paid EXCEPT ![n] = desk.paid]
    /\ left' = [left EXCEPT ![n] = desk.left]
    /\ broken' = desk.broken

\* The writes of execute() and poll() that can fail; removal stands for the
\* COMMIT as well.
DbWrites == {"allocation", "balance", "removal"}

\* The object is deleted whatever became of it in the database.
Delete(b, ref) ==
    [b EXCEPT !.list = RemoveAt(@, CHOOSE i \in DOMAIN @ : @[i] = ref)]

Parted(desk, n, p) == [desk EXCEPT !.broken = @ \cup {{n, p}}]
LeftBehind(desk, ref, p, amount) ==
    IF ref.party = "receiver" THEN [desk EXCEPT !.left[p] = @ + amount] ELSE desk

\* A contract that is a day old goes, with what it allocated still allocated.
\* (If its row cannot be removed it goes after the next start.)
Expire(n, desk, ref) ==
    LET c == desk.book.contract[ref]
        gone == LeftBehind([desk EXCEPT !.book =
                               Delete(RmStored(@, c.btcTx, ref.party), ref)],
                           ref, c.peer, c.amount)
    IN IF btc[ref.tx] = "waiting" THEN gone ELSE Parted(gone, n, c.peer)

\* deallocateFunds(), whose failure is swallowed.
NotFreed(b, ref, fails) == b
Freed(b, ref, fails) ==
    LET c == b.contract[ref]
    IN IF ref.party = "sender" \/ fails = "allocation" THEN b
       ELSE GiveBack(b, c.peer, c.amount)

\* init() of PaymentSpender and PaymentReceiver.
Covered(b, ref) ==
    LET c == b.contract[ref]
    IN c.amount <= IF ref.party = "sender" THEN MyAvailable(Load(b, c.peer))
                   ELSE PeerAvailable(Load(b, c.peer))

\* commit() of PaymentSpender and PaymentReceiver.
Booked(b, ref) ==
    LET c == b.contract[ref]
        row == Load(b, c.peer)
    IN Store(b, c.peer, IF ref.party = "sender" THEN Spent(row, c.amount)
                        ELSE Received(row, c.amount))

\* execute() within beginTx and commitTx.  A payment that is not covered or
\* cannot be written is not made, and the contract is removed all the same.
\* If it cannot be removed all is rolled back, and the object is gone.
Settle(n, desk, ref, fails) ==
    LET c == desk.book.contract[ref]
        freed == Freed(desk.book, ref, fails)
        made == Covered(freed, ref) /\ fails # "balance"
        after == RmStored(IF made THEN Booked(freed, ref) ELSE freed,
                          c.btcTx, ref.party)
        done == [desk EXCEPT !.book = Delete(after, ref),
                             !.paid[ref] = IF made THEN @ + 1 ELSE @]
        told == IF fails = "allocation" THEN LeftBehind(done, ref, c.peer, c.amount)
                ELSE done
    IN IF fails = "removal" THEN [desk EXCEPT !.book = Delete(@, ref)]
       ELSE IF made \/ fails = "none" THEN told
       ELSE Parted(told, n, c.peer)

Due(b, ref, seen) == b.contract[ref].active /\ ref.tx \in seen

PollOne(n, desk, ref, old, seen, fails) ==
    IF ref \in old THEN Expire(n, desk, ref)
    ELSE IF Due(desk.book, ref, seen) THEN Settle(n, desk, ref, fails)
    ELSE desk

\* The element of a singleton; names a value that is used often.
TheOne(S) == CHOOSE x \in S : TRUE

Confirmed == {d \in Deals : btc[d] = "confirmed"}

\* One round over the first contracts of the list.  old are the contracts
\* that are a day old, seen the transactions that the Bitcoin client reports
\* as confirmed; failure may name a contract and a write that fails for it.
NoFailure == <<>>
FailsFor(ref, failure) ==
    IF failure # NoFailure /\ failure[1] = ref THEN failure[2] ELSE "none"
Round(n, list, old, seen, failure) ==
    LET desk[i \in 0..Len(list)] ==
            IF i = 0 THEN Desk(n)
            ELSE TheOne({PollOne(n, d, list[i], old, seen, FailsFor(list[i], failure)) :
                             d \in {desk[i - 1]}})
    IN desk[Len(list)]

Poll(n) ==
    /\ up[n]
    /\ \E ref \in Range(books[n].list) : Due(books[n], ref, Confirmed)
    /\ \E desk \in {Round(n, books[n].list, {}, Confirmed, NoFailure)} :
          PutDesk(n, desk)
    /\ UNCHANGED <<up, online, net, untold, mishaps, agreed, btc, payments>>

\* What can be a day old: a transaction is decided within minutes.
DayOld(n) ==
    {ref \in Range(books[n].list) : \A m \in Nodes : ~Undecided(m, ref.tx)}

\* The same with contracts that are a day old, a Bitcoin client that does not
\* answer, or a failing database.
PollBadly(n) ==
    /\ up[n] /\ Interfere
    /\ \E old \in SUBSET (IF "dayold" \in Faults THEN DayOld(n) ELSE {}),
          seen \in SUBSET Confirmed,
          failure \in {NoFailure} \cup
             (IF "dberror" \in Faults THEN Range(books[n].list) \X DbWrites ELSE {}) :
            PutDesk(n, Round(n, books[n].list, old, seen, failure))
    /\ UNCHANGED <<up, online, net, untold, agreed, btc, payments>>

-----------------------------------------------------------------------------
(* Processes, payments and lines.                                          *)

\* The process of n ends, perhaps in the middle of a round.  What is only in
\* memory is lost, but not what it allocated.
Ended(n, desk) ==
    LET b == desk.book
        lost == Range(b.list) \ StoredRefs(b)
    IN [desk EXCEPT
           !.book = [b EXCEPT !.list = <<>>, !.contract = <<>>],
           !.left = [p \in Nodes |->
                        desk.left[p] + Worth(b, lost \cap ReceiversFrom(n, b, p))]]
Crash(n) ==
    /\ up[n] /\ "crash" \in Faults /\ Interfere
    /\ \E done \in 0..Len(books[n].list) :
          PutDesk(n, Ended(n, Round(n, SubSeq(books[n].list, 1, done), {}, Confirmed,
                                    NoFailure)))
    /\ up' = [up EXCEPT ![n] = FALSE]
    /\ online' = {pair \in online : n \notin Range(pair)}
    /\ net' = [f \in Nodes |-> [t \in Nodes |->
                  IF n \in {f, t} THEN <<>> ELSE net[f][t]]]
    /\ UNCHANGED <<untold, agreed, btc, payments>>

\* loadBtcContracts: every row becomes an active contract, the newest first.
LoadedObject(row) == [Contract(row.peer, row.amount) EXCEPT !.btcTx = row.btcTx]
Loaded(row) == [LoadedObject(row) EXCEPT !.active = TRUE]
NewestFirst(list) ==
    \A i, j \in DOMAIN list : \A k, l \in DOMAIN agreed :
        i < j /\ list[i].tx = agreed[k] /\ list[j].tx = agreed[l] => k >= l
Reloads(refs) ==
    {list \in [1..Cardinality(refs) -> refs] :
        IsInjective(list) /\ Range(list) = refs /\ NewestFirst(list)}
Reloaded(b, list) ==
    [b EXCEPT !.list = list,
              !.contract = [ref \in Range(list) |-> Loaded(RowOf(b, ref))]]
Restart(n) ==
    /\ ~up[n]
    /\ up' = [up EXCEPT ![n] = TRUE]
    /\ \E list \in Reloads(StoredRefs(books[n])) :
          books' = [books EXCEPT ![n] = Reloaded(@, list)]
    /\ UNCHANGED <<online, net, untold, mishaps, agreed, btc, payments, paid, left,
                   broken>>

\* A payment of one unit from n to its friend p (LocalPayment's subject, here
\* one step): covered in both books, booked in both.
Pay(n, p) ==
    /\ payments < MaxPayments
    /\ up[n] /\ up[p] /\ Settled(n, p)
    /\ MyAvailable(Load(books[n], p)) >= 1 /\ PeerAvailable(Load(books[p], n)) >= 1
    /\ books' = [books EXCEPT
                    ![n] = Store(@, p, Spent(Load(@, p), 1)),
                    ![p] = Store(@, n, Received(Load(@, n), 1))]
    /\ payments' = payments + 1
    /\ UNCHANGED <<up, online, net, untold, mishaps, agreed, btc, paid, left, broken>>

\* A step of CreditLine.  A new row knows of no contract that is still open;
\* a line that is lowered, forgotten or badly told may part the friends.
LineStep ==
    /\ \E n \in Nodes : \E p \in Friends[n] :
          \/ StatusChange(n, p)
          \/ Disconnect(n, p)
          \/ \E line \in Lines : EditFriend(n, p, line)
          \/ ResetFriend(n, p)
          \/ HandleCredit(n, p)
    /\ left' = [n \in Nodes |-> [p \in Nodes |->
          IF p \in DOMAIN books'[n].credit \ DOMAIN books[n].credit
          THEN -Worth(books[n], ReceiversFrom(n, books[n], p)) ELSE left[n][p]]]
    /\ broken' = broken \cup {Range(pair) : pair \in untold' \ untold} \cup
          {Range(pair) : pair \in {x \in Nodes \X Nodes :
              Load(books'[x[1]], x[2]).credit < Load(books[x[1]], x[2]).credit}}
    /\ UNCHANGED <<agreed, btc, payments, paid>>

Next ==
    \/ \E d \in Deals : Agree(d) \/ Confirm(d)
    \/ \E n \in Nodes, d \in Deals : Commit(n, d) \/ Abandon(n, d)
    \/ \E n \in Nodes : Poll(n) \/ PollBadly(n) \/ Crash(n) \/ Restart(n)
    \/ \E n, p \in Nodes : p \in Friends[n] /\ Pay(n, p)
    \/ LineStep

Spec == Init /\ [][Next]_vars

\* The janitor runs every few seconds as long as the process does, and
\* somebody starts the program again.
FairSpec ==
    Spec /\ \A n \in Nodes : WF_vars(Poll(n)) /\ WF_vars(Restart(n))

-----------------------------------------------------------------------------
IsBook(n, b) ==
    /\ b = [contract |-> b.contract, list |-> b.list, stored |-> b.stored,
            credit |-> b.credit]
    /\ DOMAIN b.contract \subseteq AllRefs
    /\ \A ref \in DOMAIN b.contract :
          b.contract[ref] \in [peer : Friends[n], amount : Nat,
                              btcTx : {BtcTx(ref.tx)}, active : BOOLEAN]
    /\ b.list \in Seq(DOMAIN b.contract) /\ IsInjective(b.list)
    /\ b.stored \subseteq [tx : Deals, party : Parties, peer : Friends[n],
                           amount : Nat, btcTx : {BtcTx(d) : d \in Deals}]
    /\ DOMAIN b.credit \subseteq Friends[n]
    /\ \A p \in DOMAIN b.credit : b.credit[p] \in CreditRecord

TypeOK ==
    /\ DOMAIN books = Nodes /\ \A n \in Nodes : IsBook(n, books[n])
    /\ up \in [Nodes -> BOOLEAN]
    /\ \A pair \in online : /\ pair \in Nodes \X Nodes
                            /\ pair[2] \in Friends[pair[1]]
                            /\ up[pair[1]] /\ up[pair[2]]
    /\ net \in [Nodes -> [Nodes -> Seq([our_credit : Int, balance : Int])]]
    /\ mishaps \in 0..MaxMishaps /\ payments \in 0..MaxPayments
    /\ agreed \in Seq(Deals) /\ IsInjective(agreed)
    /\ btc \in [Deals -> {"waiting", "sent", "confirmed"}]
    /\ paid \in [Nodes -> [AllRefs -> Nat]] /\ left \in [Nodes -> [Nodes -> Int]]

\* pollContracts, restarts and failing writes: a contract moves the balance
\* once at most.  Its row leaves the table with the write of the balance or
\* neither happens, and the object does not come back.
PaidOnce == \A n \in Nodes : \A ref \in AllRefs : paid[n][ref] <= 1

\* Credit::allocate and deallocate: what is reserved for a friend is what the
\* open RECEIVER contracts with it are worth, whoever makes, shrinks, rolls
\* back, settles or reloads them, and what contracts left behind that were
\* lost in a crash, timed out, or could not be freed.
AllocationExplained ==
    \A n \in Nodes : \A p \in DOMAIN books[n].credit :
        books[n].credit[p].allocation =
            Worth(books[n], ReceiversFrom(n, books[n], p)) + left[n][p]

\* handleCredit's check of balances, once both friends are done with all
\* contracts between them: with the payee's reservation no payment is ever
\* refused on one side only, whatever is spent, granted, settled and
\* reloaded in between, but for the reasons that broken lists.
FriendsAgree ==
    \A n \in Nodes : \A p \in Friends[n] :
        \/ {n, p} \in broken
        \/ \E m, q \in {n, p} : \E ref \in Open(books[m]) : PeerOf(m, ref) = q
        \/ -Load(books[n], p).balance = Load(books[p], n).balance

\* Every contract whose Bitcoin transaction is confirmed is settled in the end
\* by every friend of the route, however often processes die and the Bitcoin
\* client does not answer, unless a failed removal left only its row, which
\* waits for the next start.
OnlyRow(n, ref) ==
    up[n] /\ ref \in StoredRefs(books[n]) \ Range(books[n].list)
EventuallyBooked ==
    []<>(\A n \in Nodes : \A ref \in UNION {Refs(n, d) : d \in Confirmed} :
            \/ paid[n][ref] = 1
            \/ {n, PeerOf(n, ref)} \in broken
            \/ OnlyRow(n, ref))
=============================================================================
