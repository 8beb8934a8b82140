---------------------------- MODULE BtcContract ----------------------------
(***************************************************************************)
(* The contracts of one node: class BtcContract with its list of active    *)
(* contracts and its table in the database, and the credit that contracts  *)
(* reserve.  A node's book is a record                                     *)
(*                                                                         *)
(*   contract   what each contract object holds; objects are named by the  *)
(*              transaction and the party they were made for.  An object   *)
(*              that left the list is freed memory: its fields are still   *)
(*              there for whoever kept a pointer to it                     *)
(*   list       BtcContract::contracts, oldest first                       *)
(*   stored     the rows of table btccontracts                             *)
(*   credit     the rows of table peers, by friend                         *)
(*                                                                         *)
(* The price is one unit of the currency per Bitcoin, and there is no fee: *)
(* the fiat amount of a contract is its Bitcoin amount.                    *)
(***************************************************************************)
EXTENDS Credit, SequencesExt

Parties == {"receiver", "sender"}

\* The contract object that a transaction's manager made for a party.
Ref(tx, party) == [tx |-> tx, party |-> party]

\* The Bitcoin transaction a contract waits for: none is known before the
\* vote, and a NO vote carries the words "VOTE_NO" in its place.
NoBtcTx == <<>>
VoteNoTx == <<"VOTE_NO">>

Contract(peer, amount) ==
    [peer |-> peer, amount |-> amount, btcTx |-> NoBtcTx, active |-> FALSE]

Row(ref, c) ==
    [tx |-> ref.tx, party |-> ref.party, peer |-> c.peer,
     amount |-> c.amount, btcTx |-> c.btcTx]

Listed(b, ref) == Contains(b.list, ref)

\* loadPeer: a friend without a row has nothing; and updatePeerCredit: an
\* "update" finds no row to write to.
Load(b, peer) == IF peer \in DOMAIN b.credit THEN b.credit[peer] ELSE OpenLine(0)
Store(b, peer, c) ==
    [b EXCEPT !.credit = [p \in DOMAIN @ |-> IF p = peer THEN c ELSE @[p]]]

\* allocate and deallocate, on the row of a contract's friend.
Reserve(b, peer, amount) == Store(b, peer, Allocated(Load(b, peer), amount))
GiveBack(b, peer, amount) == Store(b, peer, Deallocated(Load(b, peer), amount))

\* The friend must have something left with us for a RECEIVER contract.
CanReceive(b, peer) == PeerAvailable(Load(b, peer)) > 0

NewSender(b, ref, peer, amount) ==
    [b EXCEPT !.contract = With(@, ref, Contract(peer, amount)),
              !.list = Append(@, ref)]

\* Several of them: the objects for refs, in that order, hold made[ref].
NewSenders(b, refs, made) ==
    [b EXCEPT !.contract = [ref \in DOMAIN @ \cup DOMAIN made |->
                               IF ref \in DOMAIN made THEN made[ref] ELSE @[ref]],
              !.list = @ \o refs]

\* A RECEIVER contract shrinks to what the friend has left, and reserves it.
Receivable(b, peer, amount) ==
    IF PeerAvailable(Load(b, peer)) < amount
    THEN PeerAvailable(Load(b, peer)) ELSE amount
NewReceiver(b, ref, peer, amount) ==
    LET kept == Receivable(b, peer, amount)
    IN Reserve(NewSender(b, ref, peer, kept), peer, kept)

SetBtcAmountOnly(b, ref, amount) == [b EXCEPT !.contract[ref].amount = amount]
SetBtcAmount(b, ref, amount) ==
    LET c == b.contract[ref]
    IN IF ref.party = "sender" THEN SetBtcAmountOnly(b, ref, amount)
       ELSE GiveBack(SetBtcAmountOnly(b, ref, amount), c.peer, c.amount - amount)

SetBtcTxId(b, ref, btcTx) == [b EXCEPT !.contract[ref].btcTx = btcTx]

Activate(b, ref) == [b EXCEPT !.contract[ref].active = TRUE]

Persist(b, ref) == [b EXCEPT !.stored = @ \cup {Row(ref, b.contract[ref])}]

\* rmBtcContract, which a contract that waits for no transaction is spared.
KeepStored(b, btcTx, party) == b
RmStored(b, btcTx, party) ==
    [b EXCEPT !.stored = {row \in @ : \/ btcTx = NoBtcTx
                                      \/ row.btcTx # btcTx
                                      \/ row.party # party}]

\* rmContract: the first contract of the list with the same friend and the
\* same Bitcoin transaction goes, whichever transaction it was made for;
\* what it holds is given back if the contract to remove is a RECEIVER.
RmContract(b, ref) ==
    LET c == b.contract[ref]
        alike == {i \in DOMAIN b.list :
                     /\ b.contract[b.list[i]].peer = c.peer
                     /\ b.contract[b.list[i]].btcTx = c.btcTx}
        first == Min(alike)
        found == b.contract[b.list[first]]
    IN IF alike = {} THEN b
       ELSE LET gone == [RmStored(b, c.btcTx, ref.party)
                            EXCEPT !.list = RemoveAt(@, first)]
            IN IF ref.party = "sender" THEN gone
               ELSE GiveBack(gone, c.peer, found.amount)
=============================================================================
