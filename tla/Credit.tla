------------------------------- MODULE Credit -------------------------------
(***************************************************************************)
(* The credit line between two friends, as one row of the "peers" table    *)
(* and as class Credit keep it.  Amounts are integers: a multiple of one   *)
(* indivisible unit of the currency (how amounts are rounded when they are *)
(* written as text is not the subject of this module).                     *)
(***************************************************************************)
EXTENDS Integers

\* The function f with y at x, which may be a new argument.
With(f, x, y) == [z \in DOMAIN f \cup {x} |-> IF z = x THEN y ELSE f[z]]

\* One row of table peers, for one friend and one currency.
CreditRecord == [our_credit : Int,  \* our credit with the peer
                 credit     : Int,  \* the peer's credit with us
                 balance    : Int,  \* negative: we owe the peer
                 allocation : Int]  \* reserved for contracts being made

\* What the peer can still spend with us.
PeerAvailable(c) == c.credit - c.balance - c.allocation

\* What we can still spend with the peer.
MyAvailable(c) == c.our_credit + c.balance

\* PaymentReceiver::newBalance and PaymentSpender::newBalance, stored.
Received(c, amount)       == [c EXCEPT !.balance = @ + amount]
SpentAllocation(c, amount) == [c EXCEPT !.allocation = @ - amount]
Spent(c, amount)          == [c EXCEPT !.balance = @ - amount]

\* Credit::allocate (of what is available) and Credit::deallocate.
Allocated(c, amount)   == [c EXCEPT !.allocation = @ + amount]
Deallocated(c, amount) == [c EXCEPT !.allocation = @ - amount]

\* A row of two friends who granted each other a line and owe nothing.
OpenLine(line) ==
    [our_credit |-> line, credit |-> line, balance |-> 0, allocation |-> 0]
=============================================================================
