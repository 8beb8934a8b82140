---------------------------- MODULE MCContractTx ----------------------------
(***************************************************************************)
(* Friends and orders for TLC, and what OrderBook.h says of a bid that is  *)
(* locked.  The friends are in a line: two buyers, a hop, a seller.        *)
(***************************************************************************)
EXTENDS ContractTxInv

CONSTANTS buyer, rival, middle, seller

\* far is sold by seller behind middle; near and spare are sold by middle.
Sellers == [far |-> seller, near |-> middle, spare |-> middle]
Buyers == [first |-> buyer, second |-> buyer, other |-> rival]
OwnerOf == Sellers @@ Buyers
OwnersOf == [o \in Asks \cup Bids |-> OwnerOf[o]]
RankOf == SelectSeq(<<"far", "near", "spare">>, LAMBDA a : a \in Asks)

\* Every way leads over middle.
Towards(n, t) == IF n = t THEN NoHop ELSE IF middle \in {n, t} THEN t ELSE middle
Routes == [n \in Nodes |-> [a \in Asks |-> Towards(n, Sellers[a])]]

\* Volumes: the orders are about one Bitcoin each; the first bid is about two
\* (of two asks, of which near may be about two as well); the ask far is about
\* two (for two bids).
OneEach == [o \in Asks \cup Bids |-> 1]
TwoBid == [OneEach EXCEPT !["first"] = 2]
TwoAsked == [OneEach EXCEPT !["far"] = 2]
TwoNear == [TwoBid EXCEPT !["near"] = 2]
TwoBoth == [TwoAsked EXCEPT !["first"] = 2]

\* What a bid bought.
Bought(o) ==
    LET rows == {row \in books[Owner[o]].stored :
                    row.party = "sender" /\ row.tx[2] = o}
    IN MapThenSumSet(LAMBDA row : row.amount, rows)

\* Bids buy no more than they are about: they are locked while transactions
\* are under way.
BidNotOverfilled == \A o \in Bids : Bought(o) <= Volume[o]
=============================================================================
