# ZeroReserve in TLA+

ZeroReserve is a plugin for the friend-to-friend network RetroShare. Friends
grant each other lines of credit, pay each other by moving the balance between
them, and trade Bitcoins for such credit with people they do not know, over a
chain of friends. There is no server: every node keeps its own books in SQLite,
and two nodes agree on anything only by the items they send each other.

This directory holds a model of that protocol, the TLC configurations that
check it on small networks, and proofs that TLAPS checks for networks of any
size.

    tlc -config local_faults.cfg MCLocalPayment     # any run
    tlapm LocalPaymentProofs.tla                    # any module with proofs

## 1. The system

Paths are relative to `src/`.

| Part | State | Operations | Talks to |
|---|---|---|---|
| Service: `p3ZeroReserveRS` | items to send and received | `tick` (incoming items; every 10 s the janitor: `TransactionManager::timeout`, `BtcContract::pollContracts`, `timeoutOrders`), `statusChange`, `sendRemote` | everything below; one thread |
| Transaction managers: `TransactionManager` | `currentTX`, transaction id to manager | `handleTxItem` (local and remote items), `timeout` | managers |
| Local payments: `TmLocalCoordinator`, `TmLocalCohorte`, `Payment` | coordinator: counter `sequence`; both: the payment | INIT, QUERY, VOTE, COMMIT, ACK_COMMIT, ABORT | credit, database, the friend |
| Exchange transactions: `TmContract` | coordinator (buyer), payee (seller), hop; pointers to orders and contracts | QUERY, VOTE, COMMIT, ABORT, ABORT_REQUEST, `rollback` | orders, contracts, router, Bitcoin |
| Contracts: `BtcContract` | list of contracts, table `btccontracts` | constructor, `setBtcAmount`, `activate`, `persist`, `rmContract`, `poll`, `execute` | credit, Bitcoin |
| Credit lines: `Credit` | table `peers`: line granted, line got, balance, allocation | `loadPeer`, `allocate`, `deallocate`, `getPeerAvailable`, `getMyAvailable` | database |
| Orders: `OrderBook`, `MyOrders` | asks, bids, own orders with commitment and lock | `processOrder`, `match`, `cancelOrder`, `timeoutOrders`, `remove` | service, managers |
| Routes: `Router` | next friend by order; tunnel by order | `addRoute`, `addTunnel`, `getTunnel`, `nextHop` | hops, orders |
| Database: `ZrDB` | the tables | load, store, `beginTx`/`commitTx` | |
| Bitcoin: `ZrSatoshiBitcoin`, `ZrLibBitcoin` | wallet | `mkRawTx`, `sendRaw`, `getConfirmations` | Bitcoin node |
| Amounts: `zrtypes.h`, `helpers.cpp` | none | rational arithmetic, text forms | |
| Items: `RSZeroReserveItems`, `RSZRRemoteItems` | none | serialise, deserialise | |
| Currencies: `Currency` | constant tables of names and symbols for each build | by name, by symbol | items, rows |
| Dialogs | widgets | `payTo`, `editFriend`, `resetFriend`, `doOrder`, `cancelOrder`; a thread of their own | payments, credit, orders, database |
| Plugin glue: `ZeroReservePlugin` | messages to the user | `stop`, `placeMsg` | RetroShare |

A **payment** is a two phase commit between two friends. The payer's
coordinator sends QUERY with the amount; the payee's cohorte votes by the credit
the payer has left; on COMMIT it sends ACK_COMMIT and books, on ACK_COMMIT the
payer books. A **trade** runs the same phases over the friends between buyer and
seller. Each of them adds a contract "I will pay / be paid this much when this
Bitcoin transaction is confirmed"; the buyer stores his first, then the COMMIT
goes down the chain, and the seller broadcasts the Bitcoins last.

What is hard: a manager lives in memory for at most a minute and vanishes without
telling anyone; items queue in a friend link that can drop; late items meet no
manager, or a fresh one with uninitialised members; handlers change several
tables and send items in the middle of that; orders, contracts and routes are
found by keys that are not unique to a transaction; several transactions share
one order or one line of credit. `PROJECT.json` lists each hazard at its line.

What makes the parts correct:

* payments: a debit has its credit, nothing is booked twice, balances and log
  agree (unless a commit broke off in the middle), nobody is overdrawn, every payment ends;
* trades: whoever is in anybody's books as a debtor has it in his own; no
  Bitcoin leaves without a debtor; an order never sells more than it has;
  commitments and allocated credit follow what is under way; every trade ends;
* contracts: settled exactly once and in the end, by both friends or by none;
  credit given back exactly once;
* credit lines: a node believes to have what its friend grants it;
* orders: books converge on what the owner last published; the table follows
  the books;
* amounts: stored and loaded, or sent and received, they stay what they are, or
  what both friends make of them.

## 2. Modules

| Module | Models |
|---|---|
| `Credit` | a row of table `peers`, what is available under it, booking and allocating |
| `PaymentLedger` | abstract: what the books of friends promise, without managers or items |
| `LocalPayment` | `TransactionManager` (local items), `TmLocalCoordinator`, `TmLocalCohorte`, `Payment`, `PaymentDialog::payTo`, the link, dying and restarting |
| `LocalPaymentInv` | the inductive invariants `Safe`, `Funded` and `Collectible`, in named parts |
| `LocalPaymentProofs` | theorems about `LocalPayment`: types, that the two sides of a payment agree, and that the money does |
| `MCLocalPayment` | its instances, and what the code's comment on balances says |
| `BtcContract` | a node's contracts: objects, list, stored rows, and the credit they allocate; pure operators on a node's book |
| `ContractTx` | the handlers of `TmContract`, `MyOrders::match`, order objects and commitments, tunnels, `mkRawTx`'s addresses |
| `ContractTxInv` | the inductive invariants `Owed` and `Counted` of `ContractTx`, in named parts |
| `ContractTxProofs`, `ContractTxFunds` | theorems about `ContractTx`: that nobody pays alone; types, commitments and sales |
| `MCContractTx` | its networks and orders, and the properties that sum up contracts |
| `CreditLine` | what friends grant each other and how they tell: `editFriend`, `resetFriend`, `statusChange`, `handleCredit`, connections that break |
| `Settlement` | contracts from the vote to their end: storing, `pollContracts`, `execute`, a day's timeout, crashes and reloading, on top of `CreditLine` |
| `SettlementInv` | `Sound` and `Concord`, the inductive invariants of `Settlement`, in named parts |
| `MCSettlement` | friends and deals for it |
| `DataLemmas` | lemmas about data that any module can use: least elements, recursive functions, sums over finite sets, elements removed from and added to sequences |
| `SettlementProofs` | theorems about `Settlement`: what its operations and a round of the janitor do to a book, and what every step keeps |
| `SettlementFriends` | theorems about `Settlement`: what the books of two friends have in common |
| `ZrNumber` | rationals, their fractions and decimals, six digits through SQLite |
| `Currencies` | the tables of both builds, with two pairs of names that missing commas join, and the look-ups |
| `Items` | the items, their declared and written sizes, packets, and what is read back |
| `Database` | contents of the SQLite file and what the statements make of them |
| `Records` | one node: dialogs and service on one connection, what is stored, logged and sent |
| `RecordsProofs` | theorems about `ZrNumber` and `Records`: what rounding keeps, that both friends book alike, the log, types |
| `MCRecords` | its orders, amounts and items |
| `OrderGossip` | what becomes known of one order: `publishOrder`, `handleOrder`, `processOrder`, `sendOrderBook`, `timeoutOrders`, the routes of `TraceRouter`, connecting and restarting |
| `OrderGossipProofs` | theorems about `OrderGossip` |
| `MCOrderGossip` | small networks of friends |

`LocalPayment`, `ContractTx`, `CreditLine` and `Settlement` share `Credit`;
`ContractTx` and `Settlement` use `BtcContract` for everything that happens to a
node's book. `Settlement` extends `CreditLine`, whose actions are its
`LineStep`. `Records` extends `Database`, which extends `Items`, which extends
`ZrNumber` and `Currencies`. How a trade comes to agree is `ContractTx`'s subject;
what becomes of the contracts it left is `Settlement`'s, where agreeing is one
step, over the same operators of `BtcContract`.

### LocalPayment

| Variable | Code |
|---|---|
| `peers[n][p]` | n's row of table `peers` for friend p |
| `txlog[n]` | n's rows of table `txlog`; the model adds the transaction id |
| `currentTX[n][id]` | the map `TransactionManager::currentTX` of n: `NoTM`, coordinator, cohorte |
| `sequence[n]` | static `TmLocalCoordinator::sequence` |
| `net[f][t]` | items sent by f, not yet handled by t: a FIFO link |
| `up[n]` | the process runs |
| `torn` | kept for the properties: `<<n, p>>` if a commit of n with p broke off before its last write |

One item is one step, and so is one run of the janitor. The user's thread runs
between items: `PayTo` is the constructor (funds are loaded here), `StartPayment`
is `init()` (they are compared here), so the window between them is there. A
commit writes the balance and the log row one after the other, into two databases
under the comment "TODO: make atomic" (`Payment.cpp:101`, `:149`). `"dberror"` lets
it stop before either; `"tear"` lets the process end there, and at the payee after
the acknowledgement was sent and nothing is written (`CohorteTorn`,
`CoordinatorTorn`). The other handlers write nothing to disk, so that a death inside
of them is one before or after them: managers are lost in any case, and what was sent
last may or may not arrive (`Ends`).

An amount is an integer of either sign: the dialog passes on whatever text the
user enters (`paymentdialog.cpp:57`), and neither check of the funds looks at the sign
(`Payment.cpp:88`, `:138`).

Undefined behaviour is a choice: a `TmLocalCohorte` made for a COMMIT or an
ABORT it does not know reads and frees an uninitialised pointer
(`CohorteUninitialised`): the process dies, or survives with or without sending
an ABORT to some friend. `timeout()` goes on with an erased iterator: the
process dies or any number of expired managers are deleted. Items that reach a
default branch throw, nobody catches it, the process ends (`UnknownPhase`).

### ContractTx

| Variable | Code |
|---|---|
| `ask[a]`, `bid[b]` | the owner's `Order` object: amount, `m_commitment`, `m_locked`, in the book, cancelled or deleted, the coins behind `m_btcAddr`; of a bid also `m_matched` |
| `market[n][a]` | n's object for an ask of somebody else, with `m_ignored` |
| `currentTX[n][id]` | managers; a transaction id is an ask and a bid |
| `books[n]` | see `BtcContract`: objects, list, stored rows, credit |
| `tunnels[n][a]` | `Router`: who is before and behind n for this ask |
| `chain` | Bitcoin transactions that were broadcast |

`LearnOrder` is what the flooding of order changes does to a friend's order
book: an ask that is sold is deleted there, one that is partly sold is replaced
by a new object. Pointers that a manager keeps to objects that were replaced or
deleted are followed: reading freed memory sees the old contents or kills the
process (`Dangling`, `UseAfterFree`). The object of a cancelled order is not
deleted: transactions under way go on to sell it.

Left out because the checks before them make them unreachable here: price and
currency mismatches (asks are no dearer than bids, one currency, price one, no
fee), malformed payloads, a missing route, a second QUERY of the same
transaction, a vote for more than was asked. Items that a payee has no case for, such as
a hop's ABORT_REQUEST, are taken and throw; `handleTxItem` catches that, and a payee that was made
for the item stays until it times out (`PayeeUnknownPhase`). `"dberror"` covers storing a
contract and storing an order's new amount; deleting an order and updating
credit do not fail. An order that is stored is not loaded again: a process that
dies in `ContractTx` does not come back.

### CreditLine and Settlement

| Variable | Code |
|---|---|
| `books[n]` | n's table `peers` (with lines, balance, allocation), contracts, list and table `btccontracts`, see `BtcContract` |
| `online` | whom RetroShare shows as connected |
| `net[f][t]` | credit items on the way |
| `agreed`, `btc[d]` | which deals came to a vote, and what the Bitcoin network made of them |
| `untold`, `paid`, `left`, `broken` | kept for the properties: what is not told, how often a contract was booked, what is allocated for good, who has a reason to disagree |

A round of `pollContracts` is one step that settles all contracts of the list
that are due: it is one transaction for each, and a crash in the middle
(`Crash`) stops after any of them. `PollBadly` is a round in which contracts are
a day old, the Bitcoin client does not answer for some, or one write fails:
the allocation's (which is swallowed), the balance's (which is not booked, and
the contract goes all the same) or the removal's (which rolls back, and the
object goes). `Restart` reloads the rows, newest first. A reset deletes the
friend's row under open contracts. `MaxMishaps` bounds how often anything of
this, an edit or a dropped connection happens.

### Records, Database, Items, ZrNumber, Currencies

| Variable | Code |
|---|---|
| `build` | `ZR_TESTNET` or not: which table of currencies |
| `made`, `stage` | how far `init()` came with a new file; the process is off, creating it, up, or hung in `stop()` |
| `disk`, `db` | the file, and what the connection sees in an open transaction |
| `poll` | where `poll()` is between BEGIN and COMMIT |
| `log` | the payment log, a database of its own |
| `orders`, `unlisted` | the user's order objects; those that have left the order book but not `MyOrders` |
| `out` | what the last step sent: items and their packets |
| `there` | the friend, who books the same payments |

Numbers are exact: an amount is a rational, a row holds what SQLite makes of the
text that the statement carried, and a callback reads what SQLite prints. So
the model computes six significant digits, the `.0` and `e-05` that SQLite adds,
the integer division in `updateOrder`, and the sign that `fromDecimalString` gives to
a fraction. A packet is a sequence of typed values with sizes; a reader
that expects other types, another size or another version has no item.
A dialog's statement that falls between BEGIN and COMMIT is in `db` and not in
`disk`; `RollbackTx` and `Die` take it back.

An order is in `MyOrders` and in one of the order books. A sold ask leaves `MyOrders`
first (`SellRest`), a bid that is filled leaves the order book first (`BuyRest`), and
each list deletes the row; if the first deletion fails the order stays in the other list
(`unlisted` are bids that are in `MyOrders` only), if the second fails nobody is told.

### OrderGossip

| Variable | Code |
|---|---|
| `mine` | the owner's `Order` in `MyOrders` and in its own `OrderBook`: purpose and amount |
| `book[n]` | n's object for the order, which is not n's own |
| `route[n]` | n's entry in `TraceRouter::routingTable` |
| `net[f][t]` | order items and REQUEST_ORDERBOOK from f, not yet handled by t |
| `insolvent` | pairs for which `publishOrder` finds too little credit |
| `aged` | the nodes by whose clock the order is older than `Order::timeout` |

One order is enough: orders do not influence each other here. `IgnoreOrder` and
`AcceptOrder` are the two ways through `handleOrder`, which differ in whether
`processOrder` returns success; both learn a route. An order with a transaction
under way is kept a while longer by `timeoutOrders`; here its day is over when
it goes. SENT_ORDERBOOK is sent without a peer id and arrives nowhere, so that
`m_initialized` stays 0 and every friend that connects is asked for its orders.
`Reconnect` and `Restart` cut the links at any place: what was not received is
lost, and both ends ask. Friends that are offline are told nothing; that is the
same as a link that is cut before it is told.

## 3. Runs

`Spec` has no fairness; `FairSpec` adds weak fairness for handling the items of
a link, for the user's thread finishing `payTo` (payments), for the janitor
finding expired managers, and in `Settlement` for the janitor's polls and for
starting a process again. The code justifies all but the last: `tick` is called
by RetroShare for ever, takes every item that arrived, and calls the janitor
every 10 seconds; that a user starts the program again some day is what
`EventuallyBooked` means by "in the end". Nothing makes a user pay, an order match
or a node fail. `CHECK_DEADLOCK FALSE`: when everyone has done what the bounds
allow the system stops.

| Run | Network and bounds | Shows |
|---|---|---|
| `local_faults` | 2 friends, amount 1, line 1, 2 payments each, both open; timeouts, dying between handlers, one dropped link | `TypeOK`; `Safe` is an invariant; `DebitsAreMatched`, `BookedOnce`; the protocol implements `PaymentLedger` |
| `local_single` | as above, amounts 1-2, line 2, one open; failing database and dying within a commit too | `Funded` is an invariant; `WithinCreditLines` in both books; `DebitsAreMatched`, but for friends whose own commit was torn |
| `local_restart` | amounts 1 and -1, one payment of a node per life of its process, 1 restart, timeouts, dying between handlers and within a commit, one dropped link | `Collectible` is an invariant; `NoPhantomPayments` and `BooksBalance` in spite of ids used again; `PaymentsEnd` by timeouts |
| `contract_faults` | buyer, hop, seller; bids of 2 and 1 on an ask of 2; line 3; timeouts, dying, one dropped link, failing database and Bitcoin | `TypeOK`; `OwedAlongTheRoute`, `SoldWithinVolume`, `CommitmentIsInFlight`, with the tunnel of the first buyer overwritten by the second |
| `contract_end` | one bid of 2 on an ask of 1 behind the hop and an ask of 2 of the hop; timeouts, one order cancelled at any time | `Owed` and `Counted` are invariants; `OwedAlongTheRoute` though `rmContract` confuses the two; `CommitmentIsInFlight` of cancelled orders (`SoldWithinVolume` follows from `Counted`); `TransactionsEnd` |
| `settle` | two friends, two deals of 1 in one direction, lines 1 and 2, one payment, two mishaps of any kind | `TypeOK`; `Sound` and `Concord` are invariants; `PaidOnce`, `AllocationExplained`, `FriendsAgree`, `LinesAgree`; `EventuallyBooked` |
| `records` | one node and its friend; one order of the user (a bid or an ask), two bookings of 1/3, -2/7 or 1/20000, one mishap | `TypeOK`; `ToldExactly`, `OrdersStored`, `LogCoversBookings`, `BalancesKeepSixDigits`, `FriendsRoundAlike` |
| `gossip_routes` | a ring of 3 friends; one link that drops or one credit that is used up, the order's day ends for each at any time | `TypeOK`; `RoutesLeadToOwner` |
| `gossip_expiry` | a chain of 4 friends, volume 3 sold in any parts; one restart or one credit used up; the order's day ends | `ToldInOrder` is an invariant; `BooksAgree` while nothing breaks; `OrderExpires` in any case |

Why these bounds: a payment has two parties, and two open payments each are what
it takes for late answers, crossing payments and shared funds; ids 2 and 3 are
enough to tell an id that is used again. Two contracts between the same friends
are what it takes for one to use up what the other needs, and two mishaps for a
crash in the middle of settling and a second one before the rest is settled. One
mishap in `records` is enough for each statement to fail or be the last one, in
or out of a transaction; two bookings for a rounded balance that is rounded
again, or whose rollback and repetition leaves the log ahead. Three nodes are the shortest chain
with a hop, four the smallest with two ways that share one. Volume 2 against 1
makes an order partly filled. One drop of a link with any suffix lost, at any
moment, is enough to lose any one item; the rest of a transaction then depends on
timeouts. `MaxSeq`, `MaxOpen`, `MaxDrops`, `MaxRestarts`, `MaxMishaps`,
`MaxPayments`, `MaxBookings` and `MaxOrders` are the only bounds that the code does not
have.

`WithinCreditLines` needs one open payment at a time: with two, both are
compared with the same funds before either is booked. It also needs that a
process is not started again, which has forgotten its open payment. And it is
about amounts that are not negative. A payment of a negative amount, which the dialog
takes, is less than any funds, so both checks let it pass and it overdraws the payee in
both books, with one payment open and without any fault.

`BooksBalance`, `DebitsAreMatched` and `NoPhantomPayments` except what a torn commit
spoils, pair by pair: a process that ends, or a database that fails, between the two
writes leaves a balance without its log row; and a payee that has sent ACK_COMMIT and
comes no further has acknowledged what it never books. Nothing repairs this. What is
claimed is that nothing else has such an effect, for friends with whom no commit was
torn, and that a torn commit with one friend does not spoil the books with another.

`NoPhantomPayments` counts: what a node booked as paid is not more than what all its
friends booked as received from it. For each friend by itself it is not true: a
node that was started again uses an id for another friend, and the late
acknowledgement of the first one books the payment to the second.

`RoutesLeadToOwner` is about nodes that keep running: a node that restarts has
lost its routes and may learn a new one from a friend whose route leads through
it. `BooksAgree` is about trees of friends, as the chain is one. In a ring it fails, without any fault: a
cancellation overtakes the order's echo on the other way, and the late echo puts
the order back into all books, the owner's too; two volumes, or an order and its
cancellation, can even chase each other around the ring, until the order's day
is over (`OrderExpires`). Volume 3 is needed for two part sales that can meet.

`FriendsAgree` is about deals in one direction between two friends. The payee
reserves what it will receive, so that in this direction nobody is ever refused
on one side only, unless a contract expires on one side, a line is lowered or
reset, or a write fails (`broken`). With a deal in each direction it is not true,
which is what `settle_back` shows, and why the theorem assumes `OneWay`. `EventuallyBooked` excepts a contract whose row
could not be removed: it waits for the next start (`OnlyRow`).

`BalancesKeepSixDigits` excepts balances that ever were below 0.0001, whose
exponent `fromDecimalString` takes for digits. `OrdersStored` excepts orders whose
statement failed or was rolled back with somebody else's transaction (`astray`),
until the next start, when the table is right by definition: a cancelled order
may be back. The row that it expects of an order that was partly sold has no
fraction, because `updateOrder` loses it. `LogCoversBookings` excepts a node whose file
has no path for the log: its log is temporary and goes with the process.

Three runs show a disagreement of the code with what it says about itself
(`findings` in `PROJECT.json` quotes the lines):

| Run | What happens |
|---|---|
| `local_balance` | payer times out, payee commits: two balances that differ for good |
| `contract_overbuy` | one `match()` starts two trades; the first to finish unlocks the bid, which matches again and buys more than it is about |
| `settle_back` | a friend settles a deal in the opposite direction first, a payment spends what that gave it; the payer finds its contract not covered and deletes it, the payee has booked it |

Also seen, without a run: a payment of a negative amount overdraws the payee (above);
a commit that is torn (above); in the names of currencies two commas are missing
(`Currency.cpp:107`, `:167`), so that two pairs of names are one, all names from there on
stand at the place of another symbol, "Yemen Rial" is sent and stored with the symbol of
the BCEAO franc (XOF), and the last two symbols have no name at all (friends of the same build
show the same name nevertheless, which is all that `ToldExactly` says); a yes vote for a payment allocates nothing although
`Credit.h:53` says allocation covers ongoing transactions; `rmContract` can
delete the contract of another transaction with the same friend, which is then
active but not polled; when that other transaction's vote then lowers its amount, the
difference is given back a second time, and the friend has more credit left than
it should (it takes an ask of 2 and one of 1 behind the hop, bids of 3 and 1 and
timeouts), so that allocated credit is not in general what open contracts are worth; a trade that is voted down leaves its bid locked
for good (`rollback` does not reset `m_locked`); a hop stores its debt and may
fail to store the claim that covers it; `publishOrder` compares an ask with the
node's own credit at the friend, who would be the one to pay, and with 0 instead
of a tenth of the amount; two part sales told around a ring meet, and friends end
with different volumes (`OrderBook.cpp:190`); a part of a cancelled order that is
sold all the same puts the order back into the friends' books
(`OrderBook.cpp:199`); a sale that is aborted after `mkRawTx` leaves the order
with a change address that never gets coins (`ZrSatoshiBitcoin.cpp:173`);
commitments are not stored, so that after a start an ask is offered in full while
a sale of it is still settling; a friend that is reset under open contracts ends
with a negative allocation; `init()` takes a half made file for complete; a
failing `init()` waits for its own mutex; `updateOrder` does
not store the purpose, so that an order that was partly sold before a restart is
offered as NEW, and friends that missed the sale keep the old volume.

## 4. Proofs

`LocalPaymentProofs` proves for any set of friends, any amounts of either sign, lines and bounds:

| Theorem | States | Assumes |
|---|---|---|
| `TypeCorrect` | `Spec => []TypeOK` | nothing |
| `AlwaysSafe` | `Spec => []Safe` | no process is started again (`MaxRestarts = 0`) |
| `DebitsAlwaysMatched` | `Spec => []DebitsAreMatched` | the same |
| `AlwaysBookedOnce` | `Spec => []BookedOnce` | the same |
| `PaymentsImplementLedger` | `Spec => Ledger!Spec` | the same, and no commit breaks off in the middle (neither `"dberror"` nor `"tear"` in `Faults`) |

The assumptions are needed: after a restart ids are used again and an acknowledgement can
book another payment; and a payee that sends its acknowledgement and does not book leaves
a debit without its credit, which is no step of the ledger. `DebitsAreMatched` says that
this is the only way. Timeouts, lost items and dying processes are in, for the first four
theorems a death or a failing write in the middle of a commit too.

Why `Safe` is inductive, and why `DebitsAreMatched` alone is not: an
acknowledgement books whatever the payer's manager holds, so one must know that
it was sent for just this payment (`AckMeansBooked`), hence that the payee's
manager held the same amount (`CoordinatorAgrees`), hence that items travel in
the right direction with the amount of the manager that sent them
(`ItemsGoTheRightWay`, `RolesFollowIds`), and that no other payment ever had
this id (`IdsAreCounted`). `BookedOnce` needs that a QUERY comes once and
before anything else of its payment (`OneQuery`, `QueryIsFirst`,
`CohorteBooksOnce`). `local_faults` checks `Safe` with TLC. Each action has a lemma; lemmas
about a queue that lost its first item, or got one more, carry the facts about
items from one state to the next.

About the money it proves, for any set of friends, any amounts and lines:

| Theorem | States | Assumes |
|---|---|---|
| `FundedInvariant` | `Spec => []Funded` | one payment of a node is open at a time (`MaxOpen = 1`), no process is started again (`MaxRestarts = 0`), no amount is negative (`Amounts \subseteq Nat`); commits may be torn |
| `NobodyIsOverdrawn` | `Spec => []WithinCreditLines` | the same |
| `BooksAlwaysBalance` | `Spec => []BooksBalance` | nothing: any amounts, restarts and faults |
| `CollectibleInvariant` | `Spec => []Collectible` | friends are finitely many; any amounts, restarts and faults |
| `NoPhantoms` | `Spec => []NoPhantomPayments` | the same |

`WithinCreditLines` looks local and is not. The payee compares the amount with
what the payer has left, votes, and reserves nothing; what it booked meanwhile
is up to every other payment of that payer that can still be committed. `Funded`
says that there is one: the open payment is the newest of its node
(`NewestIsFunded`), orders travel in the order of the payments (`OrdersInOrder`),
so a COMMIT finds the cohorte that checked the funds last (`CohortesAreNewest`), and
what it holds is covered as long as a COMMIT for it can come (`VotesAreCovered`). That the
payer cannot be overdrawn in its own book follows from the check in `init()`, and from
nobody having heard of a payment whose check is still to come
(`UnqueriedIsUnheard`). Each of the assumptions is needed: with two open payments, with
a restart, or with a negative amount, the bounds of `local_single` violate the property.

`NoPhantomPayments` is not inductive: the acknowledgement that is under way must be
backed too, even if nobody waits for it any more. `Collectible` says that debits and
acknowledgements under way together are no more than credits
(`AcksAreCollected`), for everybody whose friends have torn no commit with it. It does not say whose they are, because after a restart that is
lost; a set of log rows and a set of items are compared by their sizes, with the
library's theorems about finite sets. That a coordinator pays somebody else and has an id of its own
(`PayersOwnIds`) is what tells a debit from a credit. `BooksBalance` is inductive by itself; it needs the sums of
`DataLemmas`.

`OrderGossipProofs` proves for any network of friends (any symmetric graph), any
volume and any number of faults:

| Theorem | States |
|---|---|
| `GossipTypes` | `Spec => []TypeOK`, whatever fails |
| `RoutesAlwaysLeadToOwner` | `Spec => []RoutesLeadToOwner`, as long as no node restarts (`"restart" \notin Faults`) |
| `NewsReachEverybody` | `Spec => []NewsComeDown(Parent)`, where the friends are a tree (`Tree(Parent)`) |
| `BooksAgreeInTrees` | `Spec => []BooksAgree`, where the friends are a tree |

`RoutesLeadToOwner` says that no set of nodes has routes among themselves only,
which over finitely many nodes means that following the routes ends at the
owner. It is inductive together with `NewsHaveRoute`: whoever talks about the
order has a way to the owner already. So a node that learns its route from such
an item extends a path, and nobody's route led to the node before, because
routes go on.

`Tree(Parent)` says that the friends are a tree below the owner, of any depth and any number
of branches: every other node has one friend above it, and no set of nodes is above
itself only. In a tree of friends news can go one way only, and `BooksAgree` follows
from what two friends have in common, which is inductive without looking any
further (`Follows`): the link brings NEW first, if at all, and only to a node that knows
nothing yet, so that it cannot be taken for known; a removal comes last, from a friend
that has no order any more; and what the node will have once it has handled the last item
is what the friend has now. `NewsComeDown` says so of all pairs, while no clock is past the
order's day and nothing broke. It is stronger than `BooksAgree`, because it speaks of the
time when news are under way too, and `gossip_expiry` checks it on its chain as
`ToldInOrder`. When all is quiet, the nodes that differ from the owner would be
above themselves only.

`SettlementProofs` proves for any friends, any routes of any length, any number of
deals, any amounts and lines, and any number of mishaps of every kind that
`Faults` names:

| Theorem | States |
|---|---|
| `AlwaysSound` | `Spec => []Sound` |
| `SettlementTypes` | `Spec => []TypeOK` |
| `PaidOnlyOnce` | `Spec => []PaidOnce` |
| `AllocationsAddUp` | `Spec => []AllocationExplained` |
| `LinesAlwaysAgree` | `Spec => []LinesAgree` |

They assume of the constants what the modules state: friendship is mutual
(`FriendsAssumption`), and a route goes from friend to friend and nowhere twice
(`RouteAssumption`). `SettlementFriends` proves what two books have in common:

| Theorem | States |
|---|---|
| `ConcordInvariant` | `OneWay` implies `Spec => []Concord` |
| `FriendsAlwaysAgree` | `OneWay` implies `Spec => []FriendsAgree` |

`OneWay` says that no two friends buy from each other: deals may go over any
chains, cross at any node and be any number, but each credit line is used in one
direction. The run `settle` is such a network; without `OneWay` the theorem is
false (`settle_back`).

`PaidOnce` is not inductive: that a contract is booked again is excluded because
it is neither in the list nor in the table once it was booked (`PaidIsGone`), and
that it does not come back there needs that a transaction is agreed on once.
That the row goes with the object needs that they are of the same Bitcoin
transaction (`IsBook`), that no row is there twice (`OwnContracts`), and that a
contract in force has a row (`ObjectsMatchRows`): `RmStored` looks for transaction and
party alone. `AllocationExplained` needs more: an object that is lost in a crash is
replaced by its row, so both must say the same amount; `rmContract` looks for
friend and transaction and must find the contract itself, because a node's two
contracts of a deal are with different friends (`Neighbours`: a route goes nowhere
twice). `LinesAgree` follows from what it means in the middle of things
(`LinesAreTold`): the last item under way, or else the friend's row, says the line.

`FriendsAgree` speaks of friends that are done with each other; its invariant
has to say what holds meanwhile. Payer and payee settle the same contracts at
different times and, after a restart, in different orders, so their balances
differ by what one has booked and the other has not (`Lags`). That the other will
book it too, and not find that its funds do not cover it, is
`Covers`: what the payer has yet to book (`Pendings`) is within what it has.
Nobody reserves that at the payer. It follows from what the payee reserved
(`FundsSuffice`): the payer's own funds are what the payee has available and
reserved for open contracts, corrected by what is late, and a payment, a new
contract or an edited line can only take of what the payee has available. For
this the payer must not think that it has less than was granted, which is why
`Pay` and `Agree` need that the two are `Settled`, and the lines that are sent,
under way and heard must rise (`LineRises`). A contract that goes without being
booked is harmless as long as no Bitcoins were sent for it, and afterwards it
must have a row on both sides (`AreFirm`), or a crash would make it disappear on
one. So the seller has to know, when it hands the Bitcoins over, that everybody
on the route has stored everything. It knows only that the COMMIT came to it;
`SellersDecide` is why that is enough: while the seller's own contract is open and
not stored, nobody's stored contract can go, and a hop stores both or none
(`HopsAreComplete`). And what was booked was confirmed (`PaidIsConfirmed`). The proof
sorts what a step does to a pair into four kinds: nothing is booked (`PairFades`),
the payee books (`PayeeTakes`), the payer books (`PayerTakes`), a deal is made
(`DealMade`), besides a payment that both book (`PairPays`). That a round of polls and
a crash in the middle of one is made of such steps is `RoundFine` and `EndFine`.

`ContractTxProofs` proves for any friends, any routes without circles, any asks and
bids, volumes and lines, and for every fault that `Faults` can name:

| Theorem | States |
|---|---|
| `OwedInvariant` | `Spec => []Owed` |
| `NobodyPaysAlone` | `Spec => []OwedAlongTheRoute` |

It assumes of the orders that they are there at all (`OrdersAssumption`) and that no
route leads in a circle (`RoutesAssumption`), which is what `RoutesLeadToOwner` says of
the gossip that makes the routes.

`OwedAlongTheRoute` says of a stored receipt that the friend before has stored the
debt and the claim that covers it. Nobody checks that: a hop that handles a COMMIT
knows neither whether the friend before it stored anything nor where its manager
came from. Managers cannot be relied on, because each node forgets a transaction on its own
after a minute. So `Owed` rests on what was said and written. A transaction is one item at a time,
which is the QUERY, then a vote, then a COMMIT (`OneToken`, `NothingBeforeMatch`,
`NothingBeforeVote`), because a node that was passed has no manager that would answer
again (`NobodyWaitsBehind`). A COMMIT comes only from the friend who is the debtor
(`ItemsOnRoute`: orders travel along `Route`, votes back, and on routes
without circles a node has one friend before it on them), and it was sent after the debt was
stored (`CommitsAreCovered`). The amounts are the same because everybody took the
seller's (`VotesAgree`). And who stored a debt and sent the COMMIT has no manager left
that could take it back in a rollback (`Covers`, `MayUndo`), which is what makes the promise one. That
`rmContract` may take the contract of another transaction off the list does not
matter here: it removes rows by transaction and party. Two kinds of lemmas carry the proof:
a step that takes a transaction no further keeps `OwedFor` of it (`FadesKeeps`: items get lost,
managers give up, contracts stay with who may still need them), which is all timeouts, crashes, aborts
and all steps for other transactions; and three shapes of steps that take it
further: `BeginsKeeps` (a match, a QUERY), `PassesKeeps` (a vote), `CommitsKeeps` (a COMMIT).

`ContractTxFunds` proves from the same assumptions, for any number of transactions of
one ask and every fault:

| Theorem | States |
|---|---|
| `CountedInvariant` | `Spec => []Counted` |
| `ContractTypes` | `Spec => []TypeOK` |
| `NothingSoldTwice` | `Spec => []CommitmentIsInFlight` |
| `SoldIsGone` | `Spec => []SoldWithinVolume` |

`CommitmentIsInFlight` is what `OrderBook.h:75` says of `m_commitment`, "the amount which is
currently processed by active TX", and "`m_commitment` <= `m_amount`". A sum over the sales of a
seller must change by just what `doQuery`, `doCommit` and `rollback` add and subtract
(`SaleBegins` and its like, from `SumAdd` and `SumRemove`), and for that the amount of a
contract must stay what it was when it was committed, while other transactions make,
shrink and remove contracts at the same node (`Spares`). Three things had to be
found. No contract may be made a second time while the first one is in use, which would
replace the amount that was committed: contracts are made where the QUERY comes by, and a
QUERY comes to a node once, because routes have no circles (`MadeOnce`). That a sale
is stored only once, so that its amount counts once, needs `Owed`: a node that has
stored a receipt has no manager left that could store it again. And when an
order is sold out while other sales of it are under way, those must be sales of
nothing (`Committed`), or the deleted order would be oversold: it follows, because
the whole rest was committed to the one that took it. `TypeOK` is part of `Counted`,
because that no amount becomes negative is what the sums are for.

`SettlementProofs` first has one lemma for each operation on a book, composes
them to what `PollOne` does to a desk, and shows that a round keeps `DeskOK` for any list, any
failure and any set of old or confirmed contracts; then it has one lemma
for each action. Two things had to be reasoned about that the library's
induction theorems would be for: the sum of what contracts are worth, and the
recursive round. `DataLemmas` does without them: subsets of a finite set
and natural numbers are well founded, so a set of counterexamples has a least one
(`SmallestSubset`, `SmallestNat`; these speak of sets and take no operator). From that
follow a sum's equations (`SumRemove`, `SumAdd`, `SumSplit`), and that the round is the
end of a sequence of steps (`RoundSteps`).

`RecordsProofs` proves for any rational amounts, any texts a user enters, any number of
payments and mishaps:

| Theorem | States |
|---|---|
| `BookingsInvariant` | `Spec => []BookingsInv` |
| `LogHasEveryBooking` | `Spec => []LogCoversBookings` |
| `FriendsLoseTheSame` | `Spec => []FriendsRoundAlike` |
| `TypeInvariant` | `Spec => []TypeInv` |
| `TypeCorrect` | `Spec => []TypeOK` |

It assumes that amounts are numbers and texts are what `fromDecimalString` can take
(`AmountsAssumption`), and that every name has a symbol, not necessarily its own
(`TablesAssumption`: `Currencies` has the tables of the code, 167 names and 169
symbols, which the provers cannot count, so TLC does).

Everything in `ZrNumber` ends in recursive functions: the divisors of `boost::rational`,
the digits that `<<` writes and the zeros that SQLite drops. That such a function is
defined at all is what has to be proved before it can be used. Each comes with a rank that
descends (`GcdRank` and its like), and `RecursionExists` makes the function from it;
`DescendingInduction` gives what holds of all its values. Both speak of sets and
functions and take no operator. From there: the greatest common divisor divides both
numbers, a number stays a number through all its forms (`NumberFacts`,
`PlusFacts`, `DigitsFacts`), and a number and its negative have the same digits, so what is
stored of one is the negative of what is stored of the other (`StoredFacts`). This is where
the sign that `fromDecimalString` gives to the fraction matters: without it the two
friends would keep different balances from the first cent on.

`FriendsRoundAlike` compares two books only when the friend has booked everything that the file
has. `BookingsInv` says what they have in common in between: one chain of
balances, from 0, each stored from the one before, and the connection, the file and the friend
all stand somewhere on it (`Alike`). A rollback or a crash moves the connection back to
the file, a COMMIT the file forward to the connection, and the friend goes along in its own
time. For this the file's bookings must be the first of the connection's, and bookings must
be made in transactions only, by a node whose file is complete (`Bookable`): a
booking without a row for the friend would count and change nothing. The log is another
database; `Covers` speaks of the connection and of the file, because either can be what is left.
TLC does not evaluate `BookingsInv`, which quantifies over the chains; it checks what
follows from it.

`TypeInv` adds that every order in memory or in a table was entered, in a currency
of this build. An amount is stored as a decimal by `addOrder` and as a fraction,
which SQLite cuts, by `updateOrder`; both are numbers again when they are loaded.

Only model-checked:

* liveness (`EventuallyBooked` and the others), which is out of the provers' reach;
* `BalancesKeepSixDigits`: its half of the sixth digit is that of a balance below 10, as
  those of the run are. For any balance it would be a statement about the value of the long
  division in `Expand`, of which only the type, and that signs do not matter, is proved;
* `OrdersStored`: it compares a row with what storing the order would give, and after
  a start the order is what the row gave. So it depends on the sizes of amounts: one
  below 0.0001 has the characters of its exponent counted as digits each time, and
  one over six digits that `updateOrder` wrote in full has no row of six digits that is
  equal. For amounts as in the run it is true;
* `ToldExactly`: sizes of items are lengths of strings, which the provers know nothing
  of.

## 5. Not modelled, and the plan

Next: `Deal`, an abstract trade, implemented by `ContractTx`.

Not modelled:

* JSON-RPC, wallets and their display: I/O with a Bitcoin node. What the
  protocol sees of it (`mkRawTx`, `sendRaw`, `getConfirmations` and their failures) is in
  `ContractTx` and `Settlement`. That a double becomes an integer on the way to
  `ZR_Number` (`ZrSatoshiBitcoin.cpp:83`, `:120`), that `fromDouble` writes exponents
  (`zrtypes.h:49`), and that coins are sent before the order that needs them is
  made (`ZrSatoshiBitcoin.cpp:202`) is therefore outside.
* `ZrLibBitcoin` and `ZrDummyBitcoin`: back-ends that the build does not choose.
* Amounts beyond 64 bits: TLC's integers have 32.
* Data races below a handler: the dialogs' thread and the service's thread on
  the map of managers (`paymentdialog.cpp:54`) and the lists of orders
  (`OrderBook.cpp:300`).
* Wallet tables, sums over all friends, reading the log, the settings dialog (a
  new path of the log, `dbconfig.cpp:51`, begins an empty log with the next start),
  addresses of other peers: nothing in the protocol reads them.
* Qt's table models, sorting, layout, message boxes (`displayMsg` keeps the mutex
  of messages while the user reads, `ZeroReservePlugin.cpp:203`, and the service
  waits in `placeMsg`).
* A friend of another build or protocol version: currencies it does not know
  become INVALID (`RSZRRemoteItems.cpp:214`). The role of a payment's first item is
  never set (`RSZeroReserveItems.cpp:447`) and never read.
