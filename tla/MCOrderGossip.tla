--------------------------- MODULE MCOrderGossip ---------------------------
(***************************************************************************)
(* Small networks of friends for OrderGossip; ann is the owner.            *)
(***************************************************************************)
EXTENDS OrderGossip
CONSTANTS ann, bob, cy, dee
Undirected(pairs) ==
    [n \in Nodes |-> {p \in Nodes : <<n, p>> \in pairs \/ <<p, n>> \in pairs}]
Line == Undirected({<<ann, bob>>, <<bob, cy>>, <<cy, dee>>})
LineParent == (bob :> ann) @@ (cy :> bob) @@ (dee :> cy)
Ring == Undirected({<<ann, bob>>, <<bob, cy>>, <<cy, ann>>})

\* Along the line every node follows the one before it: with no fault and
\* before the order's day is over, what it will have once it has handled all that
\* is on its way is what the node before it has in its book (OrderBook::processOrder
\* and publishOrder).
ToldInOrder == Tree(LineParent) /\ NewsComeDown(LineParent)
=============================================================================
