----------------------------- MODULE MCRecords -----------------------------
(***************************************************************************)
(* A user with a bid and an ask, and contracts whose amounts have no end.  *)
(***************************************************************************)
EXTENDS Records

Half == Decimal(FALSE, 0, 5, 1)
Dollars == [testnet |-> "Zimbabwe Dollar", prodnet |-> "Euro"]
Papers == [testnet |-> "German Papiermark (1923)", prodnet |-> "Yemen Rial"]
TwoEntries ==
    [ask |-> [orderType |-> "ASK", amount |-> Decimal(FALSE, 2, 0, 0), price |-> Half,
              currency |-> Dollars, timeStamp |-> 1],
     bid |-> [orderType |-> "BID", amount |-> Decimal(FALSE, 1, 2345678, 7),
              price |-> Decimal(FALSE, 10, 0, 1), currency |-> Papers, timeStamp |-> 2]]
HalfACoin == {ZR_Number(1, 2)}
Credits == {Decimal(FALSE, 1, 5, 1)}
OneUnit == ZR_Number(1, 1)
SharedCurrency == [testnet |-> 4, prodnet |-> 45]
Thirds == {ZR_Number(1, 3), ZR_Number(-2, 7), ZR_Number(1, 20000)}
Phrases ==
    {TxItem("VOTE_YES", "me:2"),
     RemoteTxItem("ask", "QUERY", "SERVER", "bid", "1/2:0/1")}
=============================================================================
