--------------------------- MODULE ContractTxInv ---------------------------
(***************************************************************************)
(* Why OwedAlongTheRoute holds: the inductive invariant Owed of ContractTx, *)
(* in named parts, most of them about one transaction.  Nodes forget a     *)
(* transaction when it times out, so what a promise rests on is what the   *)
(* items on their way and the rows of the neighbours say, not what some    *)
(* manager still knows.                                                    *)
(***************************************************************************)
EXTENDS ContractTx

\* The buyer of a transaction, and whoever is asked next by one of them.
Closed(S, a) == \A n \in S : NextHop[n][a] \in S \cup {NoHop}
From(n, a) == {m \in Nodes : \A S \in SUBSET Nodes : n \in S /\ Closed(S, a) => m \in S}
Route(id) == From(Owner[id[2]], id[1])
Leads(f, t, id) == f \in Route(id) /\ NextHop[f][id[1]] = t

\* A manager that takes the contracts and rows it made back when it fails.
MayUndo(n, id) ==
    LET tm == currentTX[n][id]
    IN tm.role = "coordinator" \/ (tm.role \in {"payee", "hop"} /\ tm.contract)

\* A hop that passed the vote on and waits for a COMMIT; that, or a payee who
\* does; a hop that waits for the vote.
PassedVote(n, id) ==
    currentTX[n][id].role = "hop" /\ currentTX[n][id].phase = "VOTE_YES"
Voted(n, id) ==
    \/ PassedVote(n, id)
    \/ currentTX[n][id].role = "payee" /\ currentTX[n][id].phase = "QUERY"
Waits(n, id) == currentTX[n][id].role = "hop" /\ currentTX[n][id].phase = "QUERY"

HasRow(n, id) == \E row \in books[n].stored : row.tx = id

\* The items a transaction consists of when nothing fails.
Token(item, id) ==
    item.tx = id /\ item.phase \in {"QUERY", "VOTE_YES", "VOTE_NO", "COMMIT"}

-----------------------------------------------------------------------------
(* What the parts of the state look like.                                  *)

Known(network) ==
    /\ DOMAIN network = Nodes
    /\ \A f \in Nodes : DOMAIN network[f] = Nodes
    /\ \A f, t \in Nodes :
          /\ network[f][t] \in Seq(Range(network[f][t]))
          /\ \A item \in Range(network[f][t]) :
                item.tx \in TxIds /\ item.phase \in Phases

IsContract(ref, c) ==
    /\ DOMAIN c = {"peer", "amount", "btcTx", "active"}
    /\ c.btcTx \in {NoBtcTx, VoteNoTx, ref.tx}
IsBook(b) ==
    /\ DOMAIN b = {"contract", "list", "stored", "credit"}
    /\ \A ref \in DOMAIN b.contract : ref \in Refs /\ IsContract(ref, b.contract[ref])
    /\ \A row \in b.stored :
          /\ row = [tx |-> row.tx, party |-> row.party, peer |-> row.peer,
                    amount |-> row.amount, btcTx |-> row.tx]
          /\ row.tx \in TxIds

\* Nodes keep the tunnels that their routes dug.
IsTunnel(n, a, tunnel) ==
    tunnel = NoTunnel \/ \E p \in Nodes : /\ tunnel = <<p, NextHop[n][a]>>
                                          /\ NextHop[p][a] = n

ManagersKnown == currentTX \in [Nodes -> [TxIds -> Managers]]
TunnelsLead ==
    /\ DOMAIN tunnels = Nodes
    /\ \A n \in Nodes : /\ DOMAIN tunnels[n] = Asks
                        /\ \A a \in Asks : IsTunnel(n, a, tunnels[n][a])
BidsKnown ==
    /\ DOMAIN bid = Bids
    /\ \A b \in Bids : DOMAIN bid[b] = {"amount", "locked", "state", "matched"}

Shape ==
    /\ Known(net)
    /\ DOMAIN books = Nodes /\ \A n \in Nodes : IsBook(books[n])
    /\ ManagersKnown /\ TunnelsLead /\ BidsKnown

-----------------------------------------------------------------------------
(* Where the items of a transaction come from and what its managers have.  *)

\* Orders go from the buyer on, votes come back.
IsOnRoute(f, t, item) ==
    /\ item.phase \in {"QUERY", "COMMIT"} => Leads(f, t, item.tx)
    /\ item.phase \in {"VOTE_YES", "VOTE_NO"} => NextHop[t][item.tx[1]] = f
    /\ item.phase = "VOTE_YES" => item.btcTx = item.tx
    /\ item.phase = "VOTE_NO" => item.btcTx = VoteNoTx
ItemsOnRoute(id) ==
    \A f, t \in Nodes : \A item \in Range(net[f][t]) :
        Token(item, id) => IsOnRoute(f, t, item)

PaysNext(n, id) ==
    /\ Payer(id) \in DOMAIN books[n].contract
    /\ books[n].contract[Payer(id)].peer = NextHop[n][id[1]]
GetsPaid(n, id) ==
    /\ Payee(id) \in DOMAIN books[n].contract
    /\ books[n].contract[Payee(id)].peer \in Nodes
    /\ Leads(books[n].contract[Payee(id)].peer, n, id)
IsManager(n, id, tm) ==
    /\ tm.role = "coordinator" => Owner[id[2]] = n /\ PaysNext(n, id)
    /\ tm.role = "payee" => Owner[id[1]] = n
    /\ tm.role = "payee" /\ tm.contract => GetsPaid(n, id)
    /\ tm.role = "hop" /\ tm.contract =>
          n \in Route(id) /\ PaysNext(n, id) /\ GetsPaid(n, id)
HasVoted(n, id, contract) ==
    /\ Voted(n, id) => /\ currentTX[n][id].contract
                       /\ contract[Payee(id)].btcTx = id
    /\ Waits(n, id) => currentTX[n][id].contract
    /\ PassedVote(n, id) =>
          /\ NextHop[n][id[1]] \in Nodes
          /\ contract[Payer(id)].btcTx = id
          /\ contract[Payer(id)].amount = contract[Payee(id)].amount
ManagersOnRoute(id) ==
    \A n \in Nodes : /\ IsManager(n, id, currentTX[n][id])
                     /\ HasVoted(n, id, books[n].contract)

-----------------------------------------------------------------------------
(* One thing after the other.                                              *)

\* A transaction has one QUERY, which becomes one vote, which becomes one
\* COMMIT.
OneToken(network, id) ==
    \A f, t, g, u \in Nodes :
        \A i \in DOMAIN network[f][t], j \in DOMAIN network[g][u] :
            Token(network[f][t][i], id) /\ Token(network[g][u][j], id) =>
                f = g /\ t = u /\ i = j
NoToken(network, id) ==
    \A f, t \in Nodes : \A item \in Range(network[f][t]) : ~Token(item, id)

\* Nothing happened before the bid met the ask, nothing is agreed on while the
\* QUERY is under way, and nobody waits for a vote that was given.
Untouched(id) == \A n \in Nodes : ~Voted(n, id) /\ ~HasRow(n, id)
NothingBeforeMatch(id) ==
    id[1] \notin bid[id[2]].matched => Untouched(id) /\ NoToken(net, id)
NothingBeforeVote(id) ==
    \A f, t \in Nodes : \A item \in Range(net[f][t]) :
        Token(item, id) =>
            /\ item.phase = "QUERY" => Untouched(id)
            /\ item.phase \in {"VOTE_YES", "VOTE_NO"} => ~Waits(f, id)
NobodyWaitsBehind(id) ==
    \A n, p \in Nodes :
        NextHop[p][id[1]] = n /\ (Voted(p, id) \/ HasRow(p, id)) => ~Waits(n, id)

-----------------------------------------------------------------------------
(* What one node promised is what the next one relies on.                  *)

VotesAgree(id) ==
    \A n \in Nodes : Voted(n, id) =>
        /\ \A t \in Nodes : \A item \in Range(net[n][t]) :
              Token(item, id) /\ item.phase = "VOTE_YES" => item.amount = AmountOf(n, id)
        /\ \A p \in Nodes : NextHop[p][id[1]] = n =>
              /\ Voted(p, id) => AmountOf(p, id) = AmountOf(n, id)
              /\ \A row \in books[p].stored : row.tx = id => row.amount = AmountOf(n, id)

\* p has promised n the amount for good, and was promised it.
Covers(p, n, id, amount) ==
    /\ Promise(p, id, "sender", n, amount)
    /\ \/ Owner[id[2]] = p
       \/ \E before \in Nodes : Promise(p, id, "receiver", before, amount)
    /\ ~MayUndo(p, id)
CommitsAreCovered(id) ==
    \A p, n \in Nodes : \A item \in Range(net[p][n]) :
        Token(item, id) /\ item.phase = "COMMIT" =>
            \E row \in books[p].stored : row.tx = id /\ Covers(p, n, id, row.amount)
ReceiptsAreCovered(id) ==
    \A n \in Nodes : \A row \in Receipts(n) :
        row.tx = id =>
            ~MayUndo(n, id) /\ row.peer \in Nodes /\ Covers(row.peer, n, id, row.amount)
ChainIsCovered(id) ==
    id \in chain => \E row \in Receipts(Owner[id[1]]) : row.tx = id

OwedFor(id) ==
    /\ ItemsOnRoute(id)
    /\ ManagersOnRoute(id)
    /\ OneToken(net, id)
    /\ NothingBeforeMatch(id)
    /\ NothingBeforeVote(id)
    /\ NobodyWaitsBehind(id)
    /\ VotesAgree(id)
    /\ CommitsAreCovered(id)
    /\ ReceiptsAreCovered(id)
    /\ ChainIsCovered(id)

Owed == Shape /\ chain \subseteq TxIds /\ \A id \in TxIds : OwedFor(id)

-----------------------------------------------------------------------------
(* What is sold, with the types of everything: Counted, which is inductive *)
(* together with Owed.                                                     *)

\* The contract objects of a transaction are made where its QUERY comes by, so
\* that none is made for one that is in the list.
Noted(n, id) == \E ref \in Range(books[n].list) : ref.tx = id
MadeOnce(id) ==
    /\ id[1] \notin bid[id[2]].matched => \A n \in Nodes : ~Noted(n, id)
    /\ \A f, t \in Nodes : \A item \in Range(net[f][t]) :
          item.tx = id /\ item.phase = "QUERY" =>
              \A n \in From(t, id[1]) : ~Noted(n, id)

\* A sale that goes on after the order was sold out is one of nothing.
Committed(a) ==
    up[Owner[a]] =>
        /\ IsFiniteSet(InFlight(Owner[a], a))
        /\ ask[a].state = "deleted" =>
              \A id \in InFlight(Owner[a], a) : AmountOf(Owner[a], id) = 0
        /\ ask[a].state # "deleted" =>
              /\ ask[a].commitment = Promised(Owner[a], a)
              /\ ask[a].commitment <= ask[a].amount
Sold(a) == IsFiniteSet(Sales(a)) /\ SoldOf(a) = Volume[a] - Unsold(a)

Counted ==
    /\ TypeOK
    /\ \A id \in TxIds : MadeOnce(id)
    /\ \A a \in Asks : Committed(a) /\ Sold(a)
=============================================================================
