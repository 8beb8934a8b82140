------------------------------ MODULE Database ------------------------------
(***************************************************************************)
(* Class ZrDB: what the program keeps in its SQLite file, as far as one    *)
(* friend and the user's own orders go, and the steps in which a new file  *)
(* is filled.  A content is a record                                       *)
(*                                                                         *)
(*   peers    the friend's row of table peers, if there is one             *)
(*   orders   the rows of table myorders, by order id                      *)
(*   booked   not in the file: the payments that the balance is made of    *)
(*                                                                         *)
(* Numbers are what a callback will read of them.                          *)
(***************************************************************************)
EXTENDS Items

\* init(): the file appears, then every statement is a transaction of its own.
Population ==
    <<"file", "peers", "config", "payments", "myorders", "mywallet", "peerwallet",
      "btccontracts", "id_curr", "TXLOGPATH", "DB_VERSION", "MINIMUM_FEE",
      "PERCENTAGE_FEE">>
Has(made, what) == Contains(SubSeq(Population, 1, made), what)

NoRow == [credit |-> Zero]
NewRow == [credit |-> Zero, our_credit |-> Zero, balance |-> Zero]
Empty == [peers |-> NoRow, orders |-> <<>>, booked |-> <<>>]

-----------------------------------------------------------------------------
(* Table peers.                                                            *)

PeerExists(c) == c.peers # NoRow
CreatePeerRecord(c) == [c EXCEPT !.peers = NewRow]
\* loadPeer leaves a credit without a row as it was made.
LoadPeer(c) == IF PeerExists(c) THEN c.peers ELSE NewRow

\* updatePeerCredit: one column is written, as a decimal; without a row there is
\* nothing to update.
UpdatePeerCredit(c, column, value) ==
    IF PeerExists(c) THEN [c EXCEPT !.peers[column] = Stored(value)] ELSE c
Made(c) == IF PeerExists(c) THEN c ELSE CreatePeerRecord(c)
UpdateCredit(c, line) == UpdatePeerCredit(Made(c), "credit", line)
UpdateOurCredit(c, line) == UpdatePeerCredit(Made(c), "our_credit", line)

PeerAvailable(row) == Plus(row.credit, Minus(row.balance))
MyAvailable(row) == Plus(row.our_credit, row.balance)

\* commit() of a payment: loadPeer, newBalance, and the balance is written.
Book(c, amount) ==
    [UpdatePeerCredit(c, "balance", Plus(LoadPeer(c).balance, amount))
        EXCEPT !.booked = Append(@, amount)]

-----------------------------------------------------------------------------
(* Table myorders.                                                         *)

\* An order becomes a row with the purpose it has then.
OrderRow(build, o) ==
    [orderType |-> o.orderType, amount |-> Stored(o.amount), price |-> Stored(o.price),
     currency |-> SymbolOf(build, o.currency), timeStamp |-> o.timeStamp,
     purpose |-> o.purpose]
With(table, id, entry) ==
    [i \in DOMAIN table \cup {id} |-> IF i = id THEN entry ELSE table[i]]
AddOrder(build, c, o) == [c EXCEPT !.orders = With(@, o.id, OrderRow(build, o))]

\* The amount that is left is written as a fraction, and nothing else.
UpdateOrder(c, o) ==
    IF o.id \in DOMAIN c.orders
    THEN [c EXCEPT !.orders[o.id].amount = StoredFraction(o.amount)] ELSE c
KeepOrder(c, id) == c
DeleteOrder(c, id) ==
    [c EXCEPT !.orders = [i \in DOMAIN @ \ {id} |-> @[i]]]

\* loadOrders.
LoadedOrder(build, id, row) ==
    [id |-> id, orderType |-> row.orderType, amount |-> row.amount, price |-> row.price,
     currency |-> BySymbol(build, row.currency), timeStamp |-> row.timeStamp,
     purpose |-> row.purpose]
LoadOrders(build, c) ==
    [id \in DOMAIN c.orders |-> LoadedOrder(build, id, c.orders[id])]
=============================================================================
