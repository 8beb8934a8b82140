---------------------------- MODULE MCSettlement ----------------------------
(***************************************************************************)
(* Two or three friends for Settlement: an order is bought over a hop, and *)
(* a second deal goes the other way between two of them.                   *)
(***************************************************************************)
EXTENDS SettlementInv

CONSTANTS buyer, hop, seller

Chain == [n \in Nodes |-> IF n = hop THEN Nodes \ {hop} ELSE {hop}]
Routes == [d \in Deals |->
    CASE d = "far" -> <<buyer, hop, seller>>
      [] d = "near" -> <<buyer, hop>>
      [] d = "back" -> <<hop, buyer>>
      [] d = "twin" -> <<buyer, hop>>]
Amounts == [d \in Deals |-> IF d = "far" THEN 2 ELSE 1]
=============================================================================
