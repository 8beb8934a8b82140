----------------------------- MODULE CreditLine -----------------------------
(***************************************************************************)
(* How friends tell each other what they grant: table peers of every node, *)
(* the dialogs that edit and reset a friend's line, and the credit items   *)
(* that RetroShare carries between the two.  A node knows what it grants   *)
(* (credit) from its own user and what it was granted (our_credit) only    *)
(* from the friend's items; items to a friend that is not online are       *)
(* dropped, and the whole list is sent again when the friend comes online. *)
(*                                                                         *)
(* The module has the state and the steps of the lines alone; Settlement   *)
(* adds the contracts that live on them.                                   *)
(***************************************************************************)
EXTENDS BtcContract

CONSTANTS
    Nodes,
    Friends,  \* Friends[n]: the friends of n
    Lines,    \* what a user enters as a friend's credit
    Faults    \* what may go wrong, see Settlement

\* Friendship is mutual, and nobody is its own friend.
ASSUME FriendsAssumption ==
    /\ Friends \in [Nodes -> SUBSET Nodes]
    /\ \A n \in Nodes : \A p \in Friends[n] : p # n /\ n \in Friends[p]
    /\ Lines \subseteq Int

VARIABLES
    books,    \* books[n]: see BtcContract; books[n].credit is table peers
    up,       \* up[n]: the process runs
    online,   \* <<n, p>>: n's RetroShare sees p connected
    net,      \* net[f][t]: credit items from f to t, oldest first
    untold,   \* <<n, p>>: n's line for p changed in a way that no item tells
              \*    p of before the two connect again (for the properties)
    mishaps   \* bound: how often users and faults interfere

lineVars == <<books, up, online, net, untold, mishaps>>

\* A credit item.  deserialise() exchanges the two credits, "because credit
\* at peer is our_credit here": these are the receiver's names.
CreditItem(c) == [our_credit |-> c.credit, balance |-> c.balance]

\* sendItem to a friend that is not seen online goes nowhere.
Post(f, t, q, c) ==
    IF <<f, t>> \in online THEN Append(q, CreditItem(c)) ELSE q

CreateRow(b, p) ==
    IF p \in DOMAIN b.credit THEN b
    ELSE [b EXCEPT !.credit = With(@, p, OpenLine(0))]

\* What updateCredit and updateOurCredit leave behind: the column is written,
\* or the database fails before that and the exception is swallowed.
Writes(b, p, c) ==
    {Store(CreateRow(b, p), p, c)}
      \cup (IF "dberror" \in Faults THEN {b, CreateRow(b, p)} ELSE {})

Interfere ==
    /\ mishaps > 0
    /\ mishaps' = mishaps - 1

-----------------------------------------------------------------------------
\* What n sends to a friend that connects: what it has on the friend.
NoGreeting(n, p) == <<>>
Greeting(n, p) ==
    IF p \in DOMAIN books[n].credit THEN <<CreditItem(books[n].credit[p])>> ELSE <<>>

\* RetroShare tells n that p has connected.
StatusChange(n, p) ==
    /\ up[n] /\ up[p] /\ <<n, p>> \notin online
    /\ online' = online \cup {<<n, p>>}
    /\ net' = [net EXCEPT ![n][p] = @ \o Greeting(n, p)]
    /\ untold' = IF p \in DOMAIN books[n].credit THEN untold \ {<<n, p>>} ELSE untold
    /\ UNCHANGED <<books, up, mishaps>>

\* The connection of two friends breaks; what is under way is lost.
Disconnect(n, p) ==
    /\ <<n, p>> \in online
    /\ "drop" \in Faults /\ Interfere
    /\ online' = online \ {<<n, p>>, <<p, n>>}
    /\ net' = [net EXCEPT ![n][p] = <<>>, ![p][n] = <<>>]
    /\ UNCHANGED <<books, up, untold>>

\* The user of n gives p a new line.  If the database fails, the friend is
\* told of the line all the same.
EditFriend(n, p, line) ==
    /\ up[n] /\ Interfere
    /\ LET c == [Load(books[n], p) EXCEPT !.credit = line]
       IN \E b \in Writes(books[n], p, c) :
             /\ books' = [books EXCEPT ![n] = b]
             /\ net' = [net EXCEPT ![n][p] = Post(n, p, @, c)]
             /\ untold' = IF p \in DOMAIN b.credit /\ Load(b, p) = c
                          THEN untold \ {<<n, p>>} ELSE untold \cup {<<n, p>>}
    /\ UNCHANGED <<up, online>>

\* The user of n forgets what there is between p and n.  p is not told, and
\* n no longer knows what p told it.
ResetFriend(n, p) ==
    /\ "reset" \in Faults
    /\ up[n] /\ p \in DOMAIN books[n].credit /\ Interfere
    /\ books' = [books EXCEPT ![n].credit =
                    [q \in DOMAIN @ \ {p} |-> @[q]]]
    /\ untold' = untold \cup {<<n, p>>, <<p, n>>}
    /\ UNCHANGED <<up, online, net>>

\* What p told n is written if it is news.  A different balance is only shown
\* to the user.
HandleCredit(n, p) ==
    /\ up[n] /\ net[p][n] # <<>>
    /\ net' = [net EXCEPT ![p][n] = Tail(@)]
    /\ LET told == Head(net[p][n]).our_credit
           c == [Load(books[n], p) EXCEPT !.our_credit = told]
       IN IF c = Load(books[n], p) THEN UNCHANGED <<books, untold>>
          ELSE \E b \in Writes(books[n], p, c) :
                 /\ books' = [books EXCEPT ![n] = b]
                 /\ untold' = IF Load(b, p) = c THEN untold
                              ELSE untold \cup {<<p, n>>}
    /\ UNCHANGED <<up, online, mishaps>>

-----------------------------------------------------------------------------
\* Both friends see each other, and no item is under way between them.
Settled(n, p) ==
    /\ {<<n, p>>, <<p, n>>} \subseteq online
    /\ net[n][p] = <<>> /\ net[p][n] = <<>>

\* What a node believes it may spend with a friend is what the friend grants
\* it, once both see each other and all items arrived: items that are lost,
\* cross each other or come from before an edit are all made good when the
\* friends connect.  (Credit.h: "our credit with peer", "their credit with
\* us".)  Only a reset and a failed write stay untold until then.
LinesAgree ==
    \A n \in Nodes : \A p \in Friends[n] :
        Settled(n, p) /\ <<n, p>> \notin untold =>
            Load(books[p], n).our_credit = Load(books[n], p).credit
=============================================================================
