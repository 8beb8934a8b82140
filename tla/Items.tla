-------------------------------- MODULE Items --------------------------------
(***************************************************************************)
(* The items that friends send each other and their packets.  A packet is  *)
(* RetroShare's header, whose subtype tells the class of the item and      *)
(* whose size is what serial_size() declares, the protocol version, and    *)
(* fields without names: bytes, 64 bit numbers, and strings that carry     *)
(* their length.  Only the order of the fields says what they mean.        *)
(*                                                                         *)
(* The bytes of a field are abstracted to its value and its size.          *)
(***************************************************************************)
EXTENDS ZrNumber, Currencies, SequencesExt

ProtocolVersion == 0
HeadersOffset == 8
CurrencyStrlen == 3
HollerithLenSpec == 4

MsgItem(msgType, msg) == [class |-> "msg", msgType |-> msgType, msg |-> msg]

\* A friend's line as its owner's row has it, and the order that is told.
CreditItem(currency, credit, our_credit, balance) ==
    [class |-> "credit", currency |-> currency, credit |-> credit,
     our_credit |-> our_credit, balance |-> balance]
OrderBookItem(address, order) ==
    [class |-> "orderbook", address |-> address, order |-> order]

TxItem(phase, txId) == [class |-> "tx", txPhase |-> phase, txId |-> txId]
\* The first item of a payment; nobody sets its role.
InitTxItem(txId, role, amount, currency, category, referrer) ==
    [class |-> "tx_init", txPhase |-> "QUERY", txId |-> txId, role |-> role,
     amount |-> amount, currency |-> currency, category |-> category,
     referrer |-> referrer]
RemoteTxItem(address, phase, direction, payerId, payload) ==
    [class |-> "remote_tx", address |-> address, txPhase |-> phase,
     direction |-> direction, payerId |-> payerId, payload |-> payload]

Subtypes == {"msg", "credit", "orderbook", "tx", "tx_init", "remote_tx"}

-----------------------------------------------------------------------------
(* Sending.                                                                *)

UInt8(v) == [type |-> "byte", value |-> v, size |-> 1]
UInt64(v) == [type |-> "number", value |-> v, size |-> 8]
String(v, length) ==
    [type |-> "string", value |-> v, size |-> HollerithLenSpec + length]
Word(w) == String(w, Len(w))
Number(a) == String(ToStdString(a), TextLength(a))

\* What serialise() of the classes, and of their base classes, writes behind the
\* protocol version.
MsgFields(item) == <<UInt8(item.msgType), Word(item.msg)>>
CreditFields(item) ==
    <<Word(item.currency), Number(item.credit), Number(item.our_credit),
      Number(item.balance)>>
TxFields(item) == <<UInt8(item.txPhase), Word(item.txId)>>
InitTxFields(item) ==
    TxFields(item) \o <<UInt8(item.role), Number(item.amount), Word(item.currency),
                        UInt8(item.category), Word(item.referrer)>>
RemoteFields(item) == <<Word(item.address)>>
RemoteTxFields(item) ==
    RemoteFields(item) \o <<UInt8(item.txPhase), UInt8(item.direction),
                            Word(item.payerId), Word(item.payload)>>
OrderFields(build, item) ==
    LET o == item.order
    IN RemoteFields(item) \o
       <<Number(o.amount), Word(SymbolOf(build, o.currency)), UInt8(o.orderType),
         Number(o.price), UInt64(o.timeStamp), Word(o.id), UInt8(o.purpose)>>
Fields(build, item) ==
    CASE item.class = "msg" -> MsgFields(item)
      [] item.class = "credit" -> CreditFields(item)
      [] item.class = "orderbook" -> OrderFields(build, item)
      [] item.class = "tx" -> TxFields(item)
      [] item.class = "tx_init" -> InitTxFields(item)
      [] item.class = "remote_tx" -> RemoteTxFields(item)

\* serial_size() of the classes, which do not look at the text of a currency.
BaseSize == HeadersOffset + 1
StringSize(length) == HollerithLenSpec + length
NumberSize(a) == StringSize(TextLength(a))
MsgSize(item) == BaseSize + 1 + StringSize(Len(item.msg))
CreditSize(item) ==
    BaseSize + StringSize(CurrencyStrlen) + NumberSize(item.credit)
             + NumberSize(item.our_credit) + NumberSize(item.balance)
TxSize(item) == BaseSize + 1 + StringSize(Len(item.txId))
InitTxSize(item) ==
    TxSize(item) + 1 + StringSize(CurrencyStrlen) + NumberSize(item.amount)
                 + 1 + StringSize(Len(item.referrer))
RemoteSize(item) == BaseSize + StringSize(Len(item.address))
RemoteTxSize(item) ==
    RemoteSize(item) + 1 + 1 + StringSize(Len(item.payload))
                     + StringSize(Len(item.payerId))
OrderSize(item) ==
    RemoteSize(item) + NumberSize(item.order.amount) + NumberSize(item.order.price)
        + 1 + StringSize(CurrencyStrlen) + 8 + StringSize(Len(item.order.id)) + 1
SerialSize(item) ==
    CASE item.class = "msg" -> MsgSize(item)
      [] item.class = "credit" -> CreditSize(item)
      [] item.class = "orderbook" -> OrderSize(item)
      [] item.class = "tx" -> TxSize(item)
      [] item.class = "tx_init" -> InitTxSize(item)
      [] item.class = "remote_tx" -> RemoteTxSize(item)

Written(fields) == FoldLeft(LAMBDA sum, f : sum + f.size, BaseSize, fields)

\* An item whose size is not what was declared is not sent, nor is a string
\* written that does not fit.  (TX and remote items do not compare the sizes.)
NoPacket == [subtype |-> "none"]
Comparing == {"msg", "credit", "orderbook", "tx_init"}
Serialise(build, item) ==
    LET written == Written(Fields(build, item))
    IN IF \/ written > SerialSize(item)
          \/ item.class \in Comparing /\ written # SerialSize(item)
       THEN NoPacket
       ELSE [subtype |-> item.class, size |-> SerialSize(item),
             version |-> ProtocolVersion, fields |-> Fields(build, item)]

-----------------------------------------------------------------------------
(* Receiving.                                                              *)

\* The types that the constructors read, field by field.
Layout ==
    [msg       |-> <<"byte", "string">>,
     credit    |-> <<"string", "string", "string", "string">>,
     orderbook |-> <<"string", "string", "string", "byte", "string", "number",
                     "string", "byte">>,
     tx        |-> <<"byte", "string">>,
     tx_init   |-> <<"byte", "string", "byte", "string", "string", "byte", "string">>,
     remote_tx |-> <<"string", "byte", "byte", "string", "string">>]
Fits(packet) ==
    /\ packet.version = ProtocolVersion
    /\ [i \in DOMAIN packet.fields |-> packet.fields[i].type] = Layout[packet.subtype]
    /\ packet.subtype \in Comparing \ {"tx_init"} => Written(packet.fields) = packet.size

\* Classes Credit and Payment throw at a currency that is not known; an order
\* gets the currency INVALID.
KnownCurrency(build, packet) ==
    LET place == CASE packet.subtype = "credit" -> 1
                   [] packet.subtype = "tx_init" -> 5
                   [] OTHER -> 0
    IN place = 0 \/ BySymbol(build, packet.fields[place].value) # Invalid[build]

\* In a credit item the credits change places: what the friend grants us is
\* its credit, and our_credit here.
ReadCreditAsSent(v) ==
    CreditItem(v[1], FromFractionString(v[2]), FromFractionString(v[3]),
               FromFractionString(v[4]))
ReadCredit(v) ==
    CreditItem(v[1], FromFractionString(v[3]), FromFractionString(v[2]),
               FromFractionString(v[4]))
ReadOrder(build, v) ==
    [id |-> v[7], orderType |-> v[4], amount |-> FromFractionString(v[2]),
     price |-> FromFractionString(v[5]), currency |-> BySymbol(build, v[3]),
     timeStamp |-> v[6], purpose |-> v[8]]
ReadMsg(v) == MsgItem(v[1], v[2])
ReadTx(v) == TxItem(v[1], v[2])
ReadInitTx(v) == InitTxItem(v[2], v[3], FromFractionString(v[4]), v[5], v[6], v[7])
ReadRemoteTx(v) == RemoteTxItem(v[1], v[2], v[3], v[4], v[5])
Read(build, subtype, v) ==
    CASE subtype = "msg" -> ReadMsg(v)
      [] subtype = "credit" -> ReadCredit(v)
      [] subtype = "orderbook" -> OrderBookItem(v[1], ReadOrder(build, v))
      [] subtype = "tx" -> ReadTx(v)
      [] subtype = "tx_init" -> ReadInitTx(v)
      [] subtype = "remote_tx" -> ReadRemoteTx(v)

\* A packet that cannot be read is dropped.
NoItem == [class |-> "none"]
Deserialise(build, packet) ==
    IF packet.subtype \in Subtypes /\ Fits(packet) /\ KnownCurrency(build, packet)
    THEN Read(build, packet.subtype,
              [i \in DOMAIN packet.fields |-> packet.fields[i].value])
    ELSE NoItem
=============================================================================
