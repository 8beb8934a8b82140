------------------------------- MODULE Records -------------------------------
(***************************************************************************)
(* What one node keeps in its database and tells its friend, while its two *)
(* threads share one SQLite connection: the user's dialogs, and the        *)
(* service that settles contracts in transactions of several statements.   *)
(* A statement of the user that falls into such a transaction becomes part *)
(* of it.                                                                  *)
(*                                                                         *)
(* Which contracts are due, which orders are sold and what friends do with *)
(* items is the subject of Settlement, ContractTx and OrderGossip.  The    *)
(* module is about the numbers: rationals in memory, fractions on the      *)
(* wire, six digits in the database.                                       *)
(***************************************************************************)
EXTENDS Database

CONSTANTS
    Entries,      \* what the user enters as orders, by order id
    Parts,        \* what may be sold of an order at a time
    Texts,        \* what the user enters as the friend's credit
    FriendsLine,  \* what the friend grants
    PeerCurrency, \* PeerCurrency[build]: the number of the currency they share
    Payments,     \* amounts of contracts: what the friend pays, or is paid if < 0
    Conversation, \* items of transactions, see LocalPayment and ContractTx
    Faults,       \* which happen: "dberror", "crash"
    MaxMishaps,   \* bound: how many happen
    MaxBookings,  \* bound: how many payments are booked
    MaxOrders     \* bound: how many orders the user enters

\* Amounts are numbers, and what the user enters are decimals.
ASSUME AmountsAssumption ==
    /\ Payments \cup Parts \cup {FriendsLine} \subseteq ZR_Numbers
    /\ Texts \subseteq Decimals
    /\ \A id \in DOMAIN Entries :
          Entries[id].amount \in Decimals /\ Entries[id].price \in Decimals

VARIABLES
    build,    \* the network the program was built for
    made,     \* how much of Population the file has
    stage,    \* "off", "creating", "up", or "hung"
    disk,     \* the committed content of the file
    db,       \* the content as the connection sees it
    poll,     \* pollContracts: "idle", "begun", "booked"
    log,      \* the rows of the payment log
    orders,   \* the order objects of the user, in MyOrders and the order books
    unlisted, \* bids that have left the order book but not MyOrders
    out,      \* what the last step sent: pairs of an item and its packet
    there,    \* the friend's balance, and how many payments it booked
    mishaps,
    \* Kept for the properties only.
    entered,  \* the ids of all orders the user ever made
    astray,   \* orders whose row was lost or came back behind the program's back
    torn      \* a payment is booked that could not be logged

vars == <<build, made, stage, disk, db, poll, log, orders, unlisted, out, there,
          mishaps, entered, astray, torn>>
fileVars == <<build, made, stage>>
ghostVars == <<entered, astray, torn>>

Init ==
    /\ build \in Builds
    /\ made = 0
    /\ stage = "off"
    /\ disk = Empty /\ db = Empty
    /\ poll = "idle"
    /\ log = <<>>
    /\ orders = <<>> /\ unlisted = {}
    /\ out = <<>>
    /\ there = [balance |-> Zero, count |-> 0]
    /\ mishaps = MaxMishaps
    /\ entered = {} /\ astray = {} /\ torn = FALSE

Interfere(fault) ==
    /\ fault \in Faults /\ mishaps > 0
    /\ mishaps' = mishaps - 1

\* Outside of a transaction every statement is committed at once.
Hold(content) == db' = content /\ UNCHANGED disk
Write(content) ==
    IF poll = "idle" THEN db' = content /\ disk' = content ELSE Hold(content)
WriteFails == Interfere("dberror") /\ UNCHANGED <<db, disk>>

\* updateCredit and updateOurCredit: a failure is swallowed, before or after the
\* row was made.
WriteLine(content) ==
    \/ Write(content) /\ UNCHANGED mishaps
    \/ Interfere("dberror") /\ \E c \in {db, Made(db)} : Write(c)

Send(items) ==
    out' = [i \in DOMAIN items |-> [item |-> items[i],
                                    packet |-> Serialise(build, items[i])]]
CreditOf(row) ==
    CreditItem(SymbolOf(build, PeerCurrency[build]), row.credit, row.our_credit,
               row.balance)
OrderItem(o) == OrderBookItem(o.id, o)

\* publishOrder.  The tenth of the amount that the friend must be good for is 0,
\* because 0.1 becomes an integer before it is multiplied.
Worthwhile(o) ==
    LET available == IF o.orderType = "ASK" THEN MyAvailable(LoadPeer(db))
                     ELSE PeerAvailable(LoadPeer(db))
    IN ~Less(available, Zero)
PublishOrder(o) == Send(IF Worthwhile(o) THEN <<OrderItem(o)>> ELSE <<>>)

-----------------------------------------------------------------------------
(* Start and end of the process.                                           *)

\* The file is not there, or a statement was made and another one follows.
Create ==
    /\ \/ stage = "off" /\ made = 0
       \/ stage = "creating" /\ made < Len(Population)
    /\ stage' = "creating"
    /\ made' = made + 1
    /\ out' = <<>>
    /\ UNCHANGED <<build, disk, db, poll, log, orders, unlisted, there, mishaps,
                   ghostVars>>

\* An error in init().  Instance() stops the plugin, stop() calls Instance(),
\* and the thread waits for the mutex that it holds.
CreateFails ==
    /\ stage = "creating" /\ made < Len(Population)
    /\ Interfere("dberror")
    /\ stage' = "hung"
    /\ out' = <<>>
    /\ UNCHANGED <<build, made, disk, db, poll, log, orders, unlisted, there,
                   ghostVars>>

\* openTxLog: the log is made if it is not there; without a path SQLite opens a
\* temporary one.
Rewritten == <<>>
OpenTxLog == IF Has(made, "TXLOGPATH") THEN log ELSE <<>>

\* init() with a file that is there, which it takes for complete, and the
\* dialog's constructor.  The plugin hangs without a table for the path of the
\* log, and the process ends without a table of contracts.
Start ==
    /\ \/ stage = "off" /\ made > 0
       \/ stage = "creating" /\ made = Len(Population)
    /\ Has(made, "config") => Has(made, "btccontracts")
    /\ IF Has(made, "config")
       THEN /\ stage' = "up"
            /\ log' = OpenTxLog
            /\ orders' = LoadOrders(build, disk)
       ELSE stage' = "hung" /\ UNCHANGED <<log, orders>>
    /\ db' = disk
    /\ out' = <<>>
    /\ UNCHANGED <<build, made, disk, poll, unlisted, there, mishaps, ghostVars>>

\* Orders whose rows the connection and the file know differently.
Pending ==
    {id \in entered : \/ (id \in DOMAIN db.orders) # (id \in DOMAIN disk.orders)
                      \/ id \in DOMAIN db.orders /\ db.orders[id] # disk.orders[id]}

\* What is not committed is lost.  Orders are loaded again: what was astray is
\* what the database says, from now on.
Ends ==
    /\ stage' = "off"
    /\ db' = disk
    /\ poll' = "idle"
    /\ orders' = <<>> /\ unlisted' = {}
    /\ out' = <<>>
    /\ astray' = {}
    /\ UNCHANGED <<build, made, disk, there, entered, torn>>
Die ==
    /\ stage # "off"
    /\ Interfere("crash")
    /\ log' = OpenTxLog
    /\ Ends

-----------------------------------------------------------------------------
(* The user.                                                               *)

\* doOrder and processMyOrder.  An order that cannot be stored, or gets no
\* address for its Bitcoins, is not made.
NewOrder(id) ==
    LET e == Entries[id]
    IN [id |-> id, orderType |-> e.orderType, amount |-> FromDecimalString(e.amount),
        price |-> FromDecimalString(e.price),
        currency |-> ByName(build, e.currency[build]), timeStamp |-> e.timeStamp,
        purpose |-> "NEW"]
DoOrder(id) ==
    LET o == NewOrder(id)
    IN /\ stage = "up" /\ id \notin entered /\ Cardinality(entered) < MaxOrders
       /\ Less(Zero, o.amount) /\ Less(Zero, o.price)
       /\ entered' = entered \cup {id}
       /\ \/ /\ Write(AddOrder(build, db, o))
             /\ orders' = With(orders, id, o)
             /\ PublishOrder(o)
             /\ UNCHANGED mishaps
          \/ /\ WriteFails
             /\ out' = <<>>
             /\ UNCHANGED orders
       /\ UNCHANGED <<fileVars, poll, log, unlisted, there, astray, torn>>

Without(id) == [i \in DOMAIN orders \ {id} |-> orders[i]]

\* What is in MyOrders, and what is in the order books.
Mine == {id \in DOMAIN orders : orders[id].purpose # "FILLED"}
Listed == DOMAIN orders \ unlisted

\* cancelOrder.
CancelOrder(id) ==
    /\ stage = "up" /\ id \in Mine
    /\ Write(DeleteOrder(db, id))
    /\ orders' = Without(id)
    /\ PublishOrder([orders[id] EXCEPT !.purpose = "CANCEL"])
    /\ UNCHANGED <<fileVars, poll, log, unlisted, there, mishaps, ghostVars>>

\* The exception of a failing database leaves the dialog's slot, which ends the
\* process.  (remove() deletes the row once for MyOrders and once for the order
\* book: failing the second time is CancelOrder and Die.)
CancelFails(id) ==
    /\ stage = "up" /\ id \in Mine
    /\ Interfere("dberror")
    /\ log' = OpenTxLog
    /\ Ends

\* The user gives the friend a line; the friend is told what the user entered,
\* not what is stored.
EditFriend(text) ==
    LET line == FromDecimalString(text)
    IN /\ stage = "up"
       /\ WriteLine(UpdateCredit(db, line))
       /\ Send(<<CreditOf([LoadPeer(db) EXCEPT !.credit = line])>>)
       /\ UNCHANGED <<fileVars, poll, log, orders, unlisted, there, ghostVars>>

\* PaymentDialog::payTo sends the first item of a payment, with whatever is in
\* the memory of its role.
PayTo(text) ==
    /\ stage = "up"
    /\ LET amount == FromDecimalString(text)
       IN /\ ~Less(MyAvailable(LoadPeer(db)), amount)
          /\ Send(<<InitTxItem("me:2", "any", amount,
                               SymbolOf(build, PeerCurrency[build]), "PAYMENT", "")>>)
    /\ UNCHANGED <<fileVars, disk, db, poll, log, orders, unlisted, there, mishaps,
                   ghostVars>>

-----------------------------------------------------------------------------
(* The service, outside of pollContracts.                                  *)

Idle == stage = "up" /\ poll = "idle"

\* A friend connects and asks for orders, and transactions go on.
StatusChange ==
    /\ Idle
    /\ Send(<<MsgItem("REQUEST_ORDERBOOK", "")>> \o
            (IF PeerExists(db) THEN <<CreditOf(db.peers)>> ELSE <<>>))
    /\ UNCHANGED <<fileVars, disk, db, poll, log, orders, unlisted, there, mishaps,
                   ghostVars>>
SendOrderBook ==
    /\ Idle
    /\ Send(SetToSeq({OrderItem(orders[id]) : id \in Listed})
              \o <<MsgItem("SENT_ORDERBOOK", "")>>)
    /\ UNCHANGED <<fileVars, disk, db, poll, log, orders, unlisted, there, mishaps,
                   ghostVars>>
SendTxItem(item) ==
    /\ Idle
    /\ Send(<<item>>)
    /\ UNCHANGED <<fileVars, disk, db, poll, log, orders, unlisted, there, mishaps,
                   ghostVars>>

\* The friend's credit item.
HandleCredit ==
    /\ Idle
    /\ LoadPeer(db).our_credit # FriendsLine
    /\ WriteLine(UpdateOurCredit(db, FriendsLine))
    /\ out' = <<>>
    /\ UNCHANGED <<fileVars, poll, log, orders, unlisted, there, ghostVars>>

\* doCommit of the seller and VOTE_YES at the buyer: a part is sold.  If the row
\* cannot be written nobody is told.
SellPart(id, part) ==
    /\ Idle /\ id \in Mine
    /\ Less(part, orders[id].amount)
    /\ LET o == [orders[id] EXCEPT !.purpose = "PARTLY_FILLED",
                                   !.amount = Plus(@, Minus(part))]
       IN /\ orders' = [orders EXCEPT ![id] = o]
          /\ \/ /\ Write(UpdateOrder(db, o))
                /\ PublishOrder(o)
                /\ UNCHANGED <<mishaps, astray>>
             \/ /\ WriteFails
                /\ out' = <<>>
                /\ astray' = astray \cup {id}
    /\ UNCHANGED <<fileVars, poll, log, unlisted, there, entered, torn>>

\* The rest is sold.  remove() takes the order out of a list and then deletes the
\* row, for MyOrders and for the order book.  If only the second statement fails
\* the order is gone all the same, but nobody is told.
Filled(id) == [orders[id] EXCEPT !.purpose = "FILLED"]
Removed(id) ==
    /\ Write(DeleteOrder(db, id))
    /\ orders' = Without(id)
    /\ \/ PublishOrder(Filled(id)) /\ UNCHANGED mishaps
       \/ id \in Listed /\ Interfere("dberror") /\ out' = <<>>
    /\ UNCHANGED <<unlisted, astray>>
NotRemoved(id) ==
    /\ WriteFails
    /\ out' = <<>>
    /\ astray' = astray \cup {id}

\* doCommit of the seller takes an ask out of MyOrders first: if the row cannot be
\* deleted, the order stays in the order book.
SellRest(id) ==
    /\ Idle /\ id \in Mine /\ orders[id].orderType = "ASK"
    /\ \/ Removed(id)
       \/ /\ NotRemoved(id)
          /\ orders' = [orders EXCEPT ![id] = Filled(id)]
          /\ UNCHANGED unlisted
    /\ UNCHANGED <<fileVars, poll, log, there, entered, torn>>

\* VOTE_YES at the buyer takes a bid out of the order book first, if it is still
\* there: if the row cannot be deleted, the order stays in MyOrders.
BuyRest(id) ==
    /\ Idle /\ id \in Mine /\ orders[id].orderType = "BID"
    /\ \/ Removed(id)
       \/ /\ NotRemoved(id)
          /\ unlisted' = unlisted \cup {id}
          /\ IF id \in Listed THEN UNCHANGED orders ELSE orders' = Without(id)
    /\ UNCHANGED <<fileVars, poll, log, there, entered, torn>>

\* timeoutOrders: an order that is too old goes, and nobody needs to be told.
\* The exception of a failing database ends the process.
TimeoutOrder(id) ==
    /\ Idle /\ id \in Listed
    /\ \/ /\ Write(DeleteOrder(db, id))
          /\ orders' = Without(id)
          /\ out' = <<>>
          /\ UNCHANGED <<fileVars, poll, log, unlisted, there, mishaps, ghostVars>>
       \/ Interfere("dberror") /\ log' = OpenTxLog /\ Ends

-----------------------------------------------------------------------------
(* pollContracts: begin, execute, and commit or roll back.                 *)

BeginTx ==
    /\ Idle /\ PeerExists(db)
    /\ Len(db.booked) < MaxBookings
    /\ poll' = "begun"
    /\ out' = <<>>
    /\ UNCHANGED <<fileVars, disk, db, log, orders, unlisted, there, mishaps, ghostVars>>

Covered(amount) ==
    ~Less(IF amount.n > 0 THEN PeerAvailable(LoadPeer(db)) ELSE MyAvailable(LoadPeer(db)),
          ZR_Number(Magnitude(amount.n), amount.d))

\* execute(): the payment is booked in the transaction, and logged in a database
\* that knows nothing of it.
Execute(amount) ==
    /\ stage = "up" /\ poll = "begun"
    /\ Covered(amount)
    /\ poll' = "booked"
    /\ Hold(Book(db, amount))
    /\ \/ log' = Append(log, amount) /\ UNCHANGED <<mishaps, torn>>
       \/ Interfere("dberror") /\ torn' = TRUE /\ UNCHANGED log
    /\ out' = <<>>
    /\ UNCHANGED <<fileVars, orders, unlisted, there, entered, astray>>

CommitTx ==
    /\ stage = "up" /\ poll # "idle"
    /\ poll' = "idle"
    /\ disk' = db
    /\ out' = <<>>
    /\ UNCHANGED <<fileVars, db, log, orders, unlisted, there, mishaps, ghostVars>>

\* The contract cannot be removed, or COMMIT fails.
RollbackTx ==
    /\ stage = "up" /\ poll # "idle"
    /\ Interfere("dberror")
    /\ poll' = "idle"
    /\ db' = disk
    /\ astray' = astray \cup Pending
    /\ out' = <<>>
    /\ UNCHANGED <<fileVars, disk, log, orders, unlisted, there, entered, torn>>

\* The friend settles the same contracts, in the same order.
FriendBooks ==
    /\ there.count < Len(disk.booked)
    /\ there' = [balance |-> Stored(Plus(there.balance,
                                         Minus(disk.booked[there.count + 1]))),
                 count |-> there.count + 1]
    /\ out' = <<>>
    /\ UNCHANGED <<fileVars, disk, db, poll, log, orders, unlisted, mishaps, ghostVars>>

-----------------------------------------------------------------------------
Next ==
    \/ Create \/ CreateFails \/ Start \/ Die
    \/ \E id \in DOMAIN Entries :
          \/ DoOrder(id) \/ CancelOrder(id) \/ CancelFails(id)
          \/ SellRest(id) \/ BuyRest(id) \/ TimeoutOrder(id)
          \/ \E part \in Parts : SellPart(id, part)
    \/ \E text \in Texts : EditFriend(text) \/ PayTo(text)
    \/ StatusChange \/ SendOrderBook \/ HandleCredit
    \/ \E item \in Conversation : SendTxItem(item)
    \/ BeginTx \/ CommitTx \/ RollbackTx
    \/ \E amount \in Payments : Execute(amount)
    \/ FriendBooks

Spec == Init /\ [][Next]_vars

-----------------------------------------------------------------------------
(* Properties.                                                             *)

TypeOK ==
    /\ made \in 0..Len(Population)
    /\ stage \in {"off", "creating", "up", "hung"}
    /\ poll \in {"idle", "begun", "booked"}
    /\ poll = "idle" => db = disk
    /\ DOMAIN orders \cup DOMAIN db.orders \cup astray \cup unlisted \subseteq entered
    /\ \A id \in DOMAIN orders :
          /\ orders[id].amount \in ZR_Numbers /\ orders[id].price \in ZR_Numbers
          /\ orders[id].currency \in Numbers(build)
    /\ {there.balance, LoadPeer(db).balance, LoadPeer(db).credit} \subseteq ZR_Numbers

\* Serialisation and currencies: whatever is sent is understood as it was sent.
\* No item is dropped because its declared size is not what is written or read,
\* and what we grant a friend is what it was granted.  An order keeps the name
\* that its owner chose, in whatever build, row or packet it was a number or a
\* symbol in between; so its owner and friends of the same build show it by the
\* same name.  (That the symbol is the one of the currency of this name is not
\* said, and not true: see the missing commas of Currencies.)
Told(item) ==
    IF item.class = "credit"
    THEN [item EXCEPT !.credit = item.our_credit, !.our_credit = item.credit]
    ELSE item
ToldExactly ==
    /\ \A i \in DOMAIN out :
          Deserialise(build, out[i].packet) = Told(out[i].item)
    /\ \A id \in DOMAIN orders :
          CurrencyNames[build][orders[id].currency] = Entries[id].currency[build]

\* Persistence of orders: the table has the orders of the user as they are in
\* memory, but for six digits and, once a part is sold, for the fraction of a
\* Bitcoin.  Only orders that a rollback or a failing write went past differ,
\* until the next start.
InTable(o) ==
    [OrderRow(build, o) EXCEPT
        !.amount = IF o.purpose = "PARTLY_FILLED" THEN StoredFraction(o.amount) ELSE @]
OrdersStored ==
    stage = "up" =>
        \A id \in entered \ astray :
            /\ id \in DOMAIN orders <=> id \in DOMAIN db.orders
            /\ id \in DOMAIN orders =>
                  db.orders[id].amount = InTable(orders[id]).amount
            /\ id \in DOMAIN orders =>
                  LoadedOrder(build, id, db.orders[id]).price = InTable(orders[id]).price

\* The payment log, which is no part of the transaction that books: every booked
\* payment is in the log as often as it was booked, whatever is rolled back or
\* lost, and though the log of a node is opened by whatever the file knows of it
\* after its creation was broken off.
Times(list, amount) == Cardinality({i \in DOMAIN list : list[i] = amount})
LogCoversBookings ==
    ~torn /\ Has(made, "TXLOGPATH") =>
        \A amount \in Payments : Times(db.booked, amount) <= Times(log, amount)

\* Rounding: every booking may cost the balance half of its sixth digit, and no
\* more.  A balance that ever was less than 0.0001 is another matter, because its
\* exponent is read as further decimal places.
Exact(list) == FoldLeft(Plus, Zero, list)
EverTiny == \E i \in DOMAIN db.booked : IsTiny(Exact(SubSeq(db.booked, 1, i)))
BalancesKeepSixDigits ==
    ~EverTiny =>
        LET error == Plus(LoadPeer(db).balance, Minus(Exact(db.booked)))
        IN ~Less(ZR_Number(5 * Len(db.booked), 1000000),
                 ZR_Number(Magnitude(error.n), error.d))

\* handleCredit's check of balances: friends who booked the same payments in the
\* same order have balances that differ in nothing but the sign, however they
\* were written, rounded and read on the way.
FriendsRoundAlike ==
    there.count = Len(disk.booked) => there.balance = Minus(LoadPeer(disk).balance)
=============================================================================
