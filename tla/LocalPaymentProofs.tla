------------------------- MODULE LocalPaymentProofs -------------------------
(***************************************************************************)
(* Proofs about LocalPayment, for any set of friends, any amounts and any  *)
(* bounds.  Whatever fails, every variable keeps its type.  As long as no  *)
(* node is started again, Safe (LocalPaymentInv) is inductive and implies  *)
(* that debits are matched and booked once; if no commit misses a write    *)
(* either, payments implement PaymentLedger.                               *)
(*                                                                         *)
(* Then about the money.  Nobody is overdrawn while every node has one     *)
(* payment open at a time and amounts are not negative: Funded             *)
(* (LocalPaymentInv) is inductive, whatever times out, gets lost, dies or  *)
(* is half written, as long as no node is started again.  Every balance is *)
(* what the log adds up to but for commits that missed a write, and nobody *)
(* books a payment that no friend collected: Collectible is inductive,     *)
(* restarts or not, whatever fails.                                        *)
(***************************************************************************)
EXTENDS LocalPaymentInv, SequenceTheorems, DataLemmas, TLAPS

-----------------------------------------------------------------------------
(* Queues.                                                                 *)

\* What is left of a queue after its first item was taken.
LEMMA TailOfQueue ==
    ASSUME NEW S, NEW q \in Seq(S), q # <<>>
    PROVE  /\ Head(q) \in S
           /\ Tail(q) \in Seq(S)
           /\ Head(q) \in Range(q)
           /\ Range(Tail(q)) \subseteq Range(q)
           /\ Len(Tail(q)) = Len(q) - 1
           /\ \A i \in 1..Len(Tail(q)) : Tail(q)[i] = q[i + 1]
<1>1. Len(q) \in Nat \ {0} /\ DOMAIN q = 1..Len(q)
  BY EmptySeq, LenProperties
<1>2. /\ Head(q) \in S
      /\ Tail(q) \in Seq(S)
      /\ Len(Tail(q)) = Len(q) - 1
      /\ \A i \in 1..Len(Tail(q)) : Tail(q)[i] = q[i + 1]
  BY HeadTailProperties
<1>3. DOMAIN Tail(q) = 1..Len(Tail(q))
  BY <1>2, LenProperties
<1>4. Range(Tail(q)) \subseteq Range(q)
  BY <1>1, <1>2, <1>3 DEF Range
<1>5. Head(q) \in Range(q)
  BY <1>1 DEF Range
<1> QED
  BY <1>2, <1>4, <1>5

\* A queue with one more item.
LEMMA AppendToQueue ==
    ASSUME NEW S, NEW q \in Seq(S), NEW x \in S
    PROVE  /\ Append(q, x) \in Seq(S)
           /\ Range(Append(q, x)) = Range(q) \cup {x}
           /\ DOMAIN Append(q, x) = 1..(Len(q) + 1)
           /\ \A i \in 1..Len(q) : Append(q, x)[i] = q[i]
           /\ Append(q, x)[Len(q) + 1] = x
           /\ DOMAIN q = 1..Len(q)
           /\ Len(q) \in Nat
  BY LenProperties DEF Range

\* The part of a queue that is left when its end is lost.
LEMMA PrefixOfQueue ==
    ASSUME NEW S, NEW q \in Seq(S), NEW r \in Prefixes(q)
    PROVE  /\ r \in Seq(S)
           /\ Range(r) \subseteq Range(q)
           /\ DOMAIN r \subseteq DOMAIN q
           /\ \A i \in DOMAIN r : r[i] = q[i]
<1>1. PICK k \in 0..Len(q) : r = SubSeq(q, 1, k)
  BY DEF Prefixes
<1>2. Len(q) \in Nat /\ DOMAIN q = 1..Len(q) /\ \A i \in 1..k : q[i] \in S
  BY LenProperties, ElementOfSeq
<1>3. /\ r \in Seq(S)
      /\ Len(r) = k
      /\ \A i \in 1..k : r[i] = q[i]
  BY <1>1, <1>2, SubSeqProperties
<1>4. DOMAIN r = 1..k
  BY <1>3, LenProperties
<1> QED
  BY <1>2, <1>3, <1>4 DEF Range

-----------------------------------------------------------------------------
(* Type correctness.                                                       *)

\* The program starts with values of the right kinds.
LEMMA InitTypeOK == Init => TypeOK
  BY ConstantsAssumption, EmptySeq
     DEF FirstSequence, Init, TypeOK, CreditRecord, OpenLine, Managers

\* What n's first item of p, its removal and its answer have for a type.
LEMMA ReceiveTypes ==
    ASSUME TypeOK, NEW n \in Nodes, NEW p \in Nodes, NEW phases,
           Receives(n, p, phases)
    PROVE  /\ Head(net[p][n]) \in Items
           /\ Head(net[p][n]).phase \in phases
           /\ Tm(n, p) \in Managers
           /\ Consume(n, p) => net' \in [Nodes -> [Nodes -> Seq(Items)]]
           /\ \A t \in Nodes, item \in Items :
                 ConsumeAndSend(n, p, t, item)
                     => net' \in [Nodes -> [Nodes -> Seq(Items)]]
<1>1. net[p][n] \in Seq(Items) /\ net[p][n] # <<>>
  BY DEF TypeOK, Receives
<1>2. Head(net[p][n]) \in Items /\ Tail(net[p][n]) \in Seq(Items)
  BY <1>1, TailOfQueue
<1>3. Tm(n, p) \in Managers
  BY <1>2 DEF Tm, TypeOK, Items
<1>4. Consume(n, p) => net' \in [Nodes -> [Nodes -> Seq(Items)]]
  BY <1>2 DEF Consume, TypeOK
<1>5. ASSUME NEW t \in Nodes, NEW item \in Items, ConsumeAndSend(n, p, t, item)
      PROVE  net' \in [Nodes -> [Nodes -> Seq(Items)]]
  <2> DEFINE taken == [net EXCEPT ![p][n] = Tail(@)]
  <2>1. taken \in [Nodes -> [Nodes -> Seq(Items)]]
    BY <1>2 DEF TypeOK
  <2>2. net' = [taken EXCEPT ![n][t] = Post(t, @, item)]
    BY <1>5 DEF ConsumeAndSend
  <2>3. Post(t, taken[n][t], item) \in Seq(Items)
    BY <2>1, AppendToQueue DEF Post
  <2> QED
    BY <2>1, <2>2, <2>3
<1> QED
  BY <1>2, <1>3, <1>4, <1>5 DEF Receives

\* The end of a process leaves every queue well typed, whatever it sent last.
LEMMA EndsTypes ==
    ASSUME TypeOK, NEW n \in Nodes, NEW sent, Ends(n, sent),
           \A t \in Nodes : sent[t] \in Seq(Items)
    PROVE  /\ net' \in [Nodes -> [Nodes -> Seq(Items)]]
           /\ currentTX' \in [Nodes -> [TxIds -> Managers]]
           /\ sequence' \in [Nodes -> 1..MaxSeq]
           /\ up' \in [Nodes -> BOOLEAN]
           /\ drops' = drops /\ restarts' = restarts
<1>1. PICK kept \in [Nodes -> UNION {Prefixes(sent[t]) : t \in Nodes}] :
          /\ \A t \in Nodes : kept[t] \in Prefixes(sent[t])
          /\ net' = [f \in Nodes |-> [t \in Nodes |->
                        IF t = n THEN <<>>
                        ELSE IF f = n THEN kept[t] ELSE net[f][t]]]
  BY DEF Ends, FirstSequence
<1>2. \A t \in Nodes : kept[t] \in Seq(Items)
  BY <1>1, PrefixOfQueue
<1>3. net' \in [Nodes -> [Nodes -> Seq(Items)]]
  BY <1>1, <1>2, EmptySeq DEF TypeOK
<1>4. currentTX' \in [Nodes -> [TxIds -> Managers]]
  BY DEF Ends, TypeOK, Managers
<1>5. sequence' \in [Nodes -> 1..MaxSeq]
  <2>1. 1 \in 1..MaxSeq
    BY ConstantsAssumption DEF ConstantsAssumption
  <2>2. sequence' = [sequence EXCEPT ![n] = 1]
    BY DEF Ends, FirstSequence
  <2> QED
    BY <2>1, <2>2 DEF TypeOK
<1>6. up' \in [Nodes -> BOOLEAN] /\ drops' = drops /\ restarts' = restarts
  BY DEF Ends, TypeOK
<1> QED
  BY <1>3, <1>4, <1>5, <1>6

LEMMA DieTypes ==
    ASSUME TypeOK, NEW n \in Nodes, Die(n)
    PROVE  TypeOK'
<1>1. Ends(n, net[n]) /\ UNCHANGED <<peers, txlog, torn>>
  BY DEF Die
<1>2. \A t \in Nodes : net[n][t] \in Seq(Items)
  BY DEF TypeOK
<1>3. /\ net' \in [Nodes -> [Nodes -> Seq(Items)]]
      /\ currentTX' \in [Nodes -> [TxIds -> Managers]]
      /\ sequence' \in [Nodes -> 1..MaxSeq]
      /\ up' \in [Nodes -> BOOLEAN]
      /\ drops' = drops /\ restarts' = restarts
  BY <1>1, <1>2, EndsTypes
<1> QED
  BY <1>1, <1>3 DEF TypeOK

\* Forgetting a manager leaves the map well typed.
LEMMA ForgetTypes ==
    ASSUME TypeOK, NEW n \in Nodes, NEW id \in TxIds, Forget(n, id)
    PROVE  currentTX' \in [Nodes -> [TxIds -> Managers]]
  BY DEF TypeOK, Forget, Managers

\* A commit writes a row of the right type, or a part of it, or nothing.
LEMMA BookTypes ==
    ASSUME TypeOK, NEW n \in Nodes, NEW p \in Nodes, NEW done \in 0..2,
           NEW record \in CreditRecord, NEW row \in LogRows,
           Book(done, n, p, record, row)
    PROVE  /\ peers' \in [Nodes -> [Nodes -> CreditRecord]]
           /\ txlog' \in [Nodes -> Seq(LogRows)]
           /\ torn' \subseteq Nodes \X Nodes
<1>1. peers' \in [Nodes -> [Nodes -> CreditRecord]]
  BY DEF TypeOK, Book
<1>2. Append(txlog[n], row) \in Seq(LogRows)
  BY AppendToQueue DEF TypeOK
<1>3. txlog' \in [Nodes -> Seq(LogRows)]
  BY <1>2 DEF TypeOK, Book
<1>4. torn' \subseteq Nodes \X Nodes
  BY DEF TypeOK, Book
<1> QED
  BY <1>1, <1>3, <1>4

\* Every item that is sent, every row that is stored has its type.
LEMMA ReplyTypes ==
    /\ \A phase \in TxPhases, id \in TxIds : Reply(phase, id) \in Items
    /\ \A phase \in TxPhases, id \in TxIds, amount \in Int :
          Item(phase, id, amount) \in Items
    /\ \A p \in Nodes, id \in TxIds, amount \in Int :
          LogRow(p, id, amount) \in LogRows
    /\ \A c \in CreditRecord, amount \in Int :
          /\ Received(c, amount) \in CreditRecord
          /\ Spent(c, amount) \in CreditRecord
          /\ MyAvailable(c) \in Int
  BY DEF Reply, Item, Items, LogRow, LogRows, Received, Spent, MyAvailable,
         CreditRecord

\* The same of what payee and payer book.
LEMMA CommitTypes ==
    ASSUME TypeOK, NEW n \in Nodes, NEW p \in Nodes, NEW done \in 0..2,
           NEW id \in TxIds, NEW amount \in Int,
           \/ CommitReceiver(done, n, p, id, amount)
           \/ CommitSpender(done, n, p, id, amount)
    PROVE  /\ peers' \in [Nodes -> [Nodes -> CreditRecord]]
           /\ txlog' \in [Nodes -> Seq(LogRows)]
           /\ torn' \subseteq Nodes \X Nodes
<1>1. peers[n][p] \in CreditRecord
  BY DEF TypeOK
<1>2. -amount \in Int
  OBVIOUS
<1>3. /\ Received(peers[n][p], amount) \in CreditRecord
      /\ Spent(peers[n][p], amount) \in CreditRecord
      /\ LogRow(p, id, amount) \in LogRows
      /\ LogRow(p, id, -amount) \in LogRows
  BY <1>1, <1>2, ReplyTypes
<1>4. CASE CommitReceiver(done, n, p, id, amount)
  BY <1>3, <1>4, BookTypes DEF CommitReceiver
<1>5. CASE CommitSpender(done, n, p, id, amount)
  BY <1>3, <1>5, BookTypes DEF CommitSpender
<1> QED
  BY <1>4, <1>5

\* The manager found for an item, by its role.
LEMMA ManagerTypes ==
    ASSUME NEW tm \in Managers
    PROVE  /\ tm.role \in {"none", "coordinator", "cohorte"}
           /\ tm.role = "none" <=> tm = NoTM
           /\ tm.role # "none" => tm.peer \in Nodes /\ tm.amount \in Int
           /\ tm.role = "coordinator" => tm.avail \in Int /\ tm.queried \in BOOLEAN
  BY DEF Managers, NoTM

\* Each action keeps every variable in its type.
LEMMA NextTypeOK == TypeOK /\ [Next]_vars => TypeOK'
<1> SUFFICES ASSUME TypeOK, [Next]_vars PROVE TypeOK'
  OBVIOUS
<1>1. ASSUME NEW n \in Nodes, NEW p \in Nodes, NEW amount \in Amounts,
             PayTo(n, p, amount)
      PROVE  TypeOK'
  <2> DEFINE id == <<n, sequence[n] + 1>>
  <2>1. id \in TxIds /\ sequence[n] + 1 \in 1..MaxSeq
    BY <1>1, ConstantsAssumption DEF PayTo, TypeOK, TxIds, ConstantsAssumption
  <2>2. Coordinator(p, amount, MyAvailable(peers[n][p]), FALSE) \in Managers
    BY ReplyTypes, ConstantsAssumption
       DEF TypeOK, Coordinator, Managers, ConstantsAssumption
  <2>3. currentTX' \in [Nodes -> [TxIds -> Managers]]
    BY <1>1, <2>1, <2>2 DEF PayTo, TypeOK
  <2>4. sequence' \in [Nodes -> 1..MaxSeq]
    BY <1>1, <2>1 DEF PayTo, TypeOK
  <2> QED
    BY <1>1, <2>3, <2>4 DEF PayTo, TypeOK
<1>2. ASSUME NEW n \in Nodes, NEW id \in TxIds, StartPayment(n, id)
      PROVE  TypeOK'
  <2> DEFINE tm == currentTX[n][id]
  <2>1. tm \in Managers /\ tm.role = "coordinator"
    BY <1>2 DEF StartPayment, TypeOK
  <2>2. CASE tm.avail < tm.amount
    BY <1>2, <2>2, ForgetTypes DEF StartPayment, TypeOK
  <2>3. CASE ~(tm.avail < tm.amount)
    <3>1. Item("QUERY", id, tm.amount) \in Items /\ tm.peer \in Nodes
      BY <2>1, ReplyTypes, ManagerTypes DEF TxPhases
    <3>2. Post(tm.peer, net[n][tm.peer], Item("QUERY", id, tm.amount)) \in Seq(Items)
      BY <3>1, AppendToQueue DEF TypeOK, Post
    <3>6. /\ net' = [net EXCEPT ![n][tm.peer] =
                          Post(tm.peer, @, Item("QUERY", id, tm.amount))]
          /\ currentTX' = [currentTX EXCEPT ![n][id].queried = TRUE]
      BY <1>2, <2>3 DEF StartPayment
    <3>3. net' \in [Nodes -> [Nodes -> Seq(Items)]]
      BY <3>1, <3>2, <3>6 DEF TypeOK
    <3>4. [tm EXCEPT !.queried = TRUE] \in Managers
      BY <2>1 DEF Managers, NoTM
    <3>7. currentTX' = [currentTX EXCEPT ![n][id] = [tm EXCEPT !.queried = TRUE]]
      BY <3>6 DEF TypeOK
    <3>5. currentTX' \in [Nodes -> [TxIds -> Managers]]
      BY <3>4, <3>7 DEF TypeOK
    <3> QED
      BY <1>2, <3>3, <3>5 DEF StartPayment, TypeOK
  <2> QED
    BY <2>2, <2>3
<1>3. ASSUME NEW n \in Nodes, NEW p \in Nodes, HandleTxItem(n, p)
      PROVE  TypeOK'
  <2> DEFINE item == Head(net[p][n])
  <2>1. CASE CohorteQuery(n, p)
    <3>1. Receives(n, p, {"QUERY"})
      BY <2>1 DEF CohorteQuery
    <3>2. item \in Items /\ item.tx \in TxIds /\ item.amount \in Int
      BY <3>1, ReceiveTypes DEF Items
    <3>3. /\ Reply("VOTE_NO", item.tx) \in Items
          /\ Reply("VOTE_YES", item.tx) \in Items
      BY <3>2, ReplyTypes DEF TxPhases
    <3>4. net' \in [Nodes -> [Nodes -> Seq(Items)]]
      BY <2>1, <3>1, <3>3, ReceiveTypes DEF CohorteQuery
    <3>5. Cohorte(p, item.amount) \in Managers
      BY <3>2 DEF Cohorte, Managers
    <3>7. \/ currentTX' = currentTX
          \/ currentTX' = [currentTX EXCEPT ![n][item.tx] = Cohorte(p, item.amount)]
      BY <2>1 DEF CohorteQuery
    <3>8. currentTX \in [Nodes -> [TxIds -> Managers]]
      BY DEF TypeOK
    <3>6. currentTX' \in [Nodes -> [TxIds -> Managers]]
      BY <3>2, <3>5, <3>7, <3>8
    <3> QED
      BY <2>1, <3>4, <3>6 DEF CohorteQuery, TypeOK
  <2>2. CASE CohorteRequery(n, p)
    <3>1. Receives(n, p, {"QUERY"}) /\ Tm(n, p).role = "cohorte"
      BY <2>2 DEF CohorteRequery
    <3>2. item \in Items /\ item.tx \in TxIds /\ Tm(n, p).peer \in Nodes
      BY <3>1, ReceiveTypes, ManagerTypes DEF Items
    <3>3. Reply("ABORT", item.tx) \in Items
      BY <3>2, ReplyTypes DEF TxPhases
    <3>4. net' \in [Nodes -> [Nodes -> Seq(Items)]]
      BY <2>2, <3>1, <3>2, <3>3, ReceiveTypes DEF CohorteRequery
    <3>5. currentTX' \in [Nodes -> [TxIds -> Managers]]
      BY <2>2, <3>2, ForgetTypes DEF CohorteRequery
    <3> QED
      BY <2>2, <3>4, <3>5 DEF CohorteRequery, TypeOK
  <2>3. CASE CohorteCommit(n, p)
    <3>1. Receives(n, p, {"COMMIT"}) /\ Tm(n, p).role = "cohorte"
      BY <2>3 DEF CohorteCommit
    <3>2. /\ item.tx \in TxIds
          /\ Tm(n, p).peer \in Nodes /\ Tm(n, p).amount \in Int
      BY <3>1, ReceiveTypes, ManagerTypes DEF Items
    <3>3. Reply("ACK_COMMIT", item.tx) \in Items
      BY <3>2, ReplyTypes DEF TxPhases
    <3>4. net' \in [Nodes -> [Nodes -> Seq(Items)]]
      BY <2>3, <3>1, <3>2, <3>3, ReceiveTypes DEF CohorteCommit
    <3>5. currentTX' \in [Nodes -> [TxIds -> Managers]]
      BY <2>3, <3>2, ForgetTypes DEF CohorteCommit
    <3>6. PICK done \in WritesDone :
              CommitReceiver(done, n, Tm(n, p).peer, item.tx, Tm(n, p).amount)
      BY <2>3 DEF CohorteCommit
    <3>7. /\ peers' \in [Nodes -> [Nodes -> CreditRecord]]
          /\ txlog' \in [Nodes -> Seq(LogRows)]
          /\ torn' \subseteq Nodes \X Nodes
      BY <3>2, <3>6, CommitTypes DEF WritesDone
    <3> QED
      BY <2>3, <3>4, <3>5, <3>7 DEF CohorteCommit, TypeOK
  <2>4. CASE CohorteUninitialised(n, p)
    <3>1. Receives(n, p, {"COMMIT", "ABORT"})
      BY <2>4 DEF CohorteUninitialised
    <3>2. item.tx \in TxIds
      BY <3>1, ReceiveTypes DEF Items
    <3>3. Reply("ABORT", item.tx) \in Items
      BY <3>2, ReplyTypes DEF TxPhases
    <3>4. CASE Die(n)
      BY <3>4, DieTypes
    <3>5. CASE ~Die(n)
      <4>1. net' \in [Nodes -> [Nodes -> Seq(Items)]]
        BY <2>4, <3>1, <3>3, <3>5, ReceiveTypes DEF CohorteUninitialised
      <4> QED
        BY <2>4, <3>5, <4>1 DEF CohorteUninitialised, TypeOK
    <3> QED
      BY <3>4, <3>5
  <2>5. CASE CoordinatorVoteYes(n, p)
    <3>1. Receives(n, p, {"VOTE_YES"}) /\ Tm(n, p).role = "coordinator"
      BY <2>5 DEF CoordinatorVoteYes
    <3>2. item.tx \in TxIds /\ Tm(n, p).peer \in Nodes
      BY <3>1, ReceiveTypes, ManagerTypes DEF Items
    <3>3. Reply("COMMIT", item.tx) \in Items
      BY <3>2, ReplyTypes DEF TxPhases
    <3>4. net' \in [Nodes -> [Nodes -> Seq(Items)]]
      BY <2>5, <3>1, <3>2, <3>3, ReceiveTypes DEF CoordinatorVoteYes
    <3> QED
      BY <2>5, <3>4 DEF CoordinatorVoteYes, TypeOK
  <2>6. CASE AbortPayment(n, p)
    <3>1. PICK phases : Receives(n, p, phases)
      BY <2>6 DEF AbortPayment
    <3>2. item.tx \in TxIds /\ net' \in [Nodes -> [Nodes -> Seq(Items)]]
      BY <2>6, <3>1, ReceiveTypes DEF AbortPayment, Items
    <3>3. currentTX' \in [Nodes -> [TxIds -> Managers]]
      BY <2>6, <3>2, ForgetTypes DEF AbortPayment
    <3> QED
      BY <2>6, <3>2, <3>3 DEF AbortPayment, TypeOK
  <2>7. CASE CoordinatorAck(n, p)
    <3>1. Receives(n, p, {"ACK_COMMIT"}) /\ Tm(n, p).role = "coordinator"
      BY <2>7 DEF CoordinatorAck
    <3>2. /\ item.tx \in TxIds
          /\ Tm(n, p).peer \in Nodes /\ Tm(n, p).amount \in Int
      BY <3>1, ReceiveTypes, ManagerTypes DEF Items
    <3>3. net' \in [Nodes -> [Nodes -> Seq(Items)]]
      BY <2>7, <3>1, ReceiveTypes DEF CoordinatorAck
    <3>4. currentTX' \in [Nodes -> [TxIds -> Managers]]
      BY <2>7, <3>2, ForgetTypes DEF CoordinatorAck
    <3>5. PICK done \in WritesDone :
              CommitSpender(done, n, Tm(n, p).peer, item.tx, Tm(n, p).amount)
      BY <2>7 DEF CoordinatorAck
    <3>6. /\ peers' \in [Nodes -> [Nodes -> CreditRecord]]
          /\ txlog' \in [Nodes -> Seq(LogRows)]
          /\ torn' \subseteq Nodes \X Nodes
      BY <3>2, <3>5, CommitTypes DEF WritesDone
    <3> QED
      BY <2>7, <3>3, <3>4, <3>6 DEF CoordinatorAck, TypeOK
  <2>8. CASE UnknownPhase(n, p)
    BY <2>8, DieTypes DEF UnknownPhase
  <2> QED
    BY <1>3, <2>1, <2>2, <2>3, <2>4, <2>5, <2>6, <2>7, <2>8 DEF HandleTxItem
<1>4. ASSUME NEW n \in Nodes, Timeout(n)
      PROVE  TypeOK'
  <2>1. CASE Die(n)
    BY <2>1, DieTypes
  <2>2. CASE ~Die(n)
    <3>2. PICK expired \in SUBSET TxIds :
              currentTX' = [currentTX EXCEPT ![n] =
                  [id \in TxIds |-> IF id \in expired THEN NoTM ELSE @[id]]]
      BY <1>4, <2>2 DEF Timeout, ManagersOf
    <3>3. NoTM \in Managers
      BY DEF Managers
    <3>1. currentTX' \in [Nodes -> [TxIds -> Managers]]
      BY <3>2, <3>3 DEF TypeOK
    <3> QED
      BY <1>4, <2>2, <3>1 DEF Timeout, TypeOK
  <2> QED
    BY <2>1, <2>2
<1>5. ASSUME NEW n \in Nodes, NEW p \in Nodes, DropLink(n, p)
      PROVE  TypeOK'
  <2>1. PICK there \in Prefixes(net[n][p]), back \in Prefixes(net[p][n]) :
            net' = [net EXCEPT ![n][p] = there, ![p][n] = back]
    BY <1>5 DEF DropLink
  <2>2. there \in Seq(Items) /\ back \in Seq(Items)
    BY PrefixOfQueue DEF TypeOK
  <2>3. net' \in [Nodes -> [Nodes -> Seq(Items)]]
    BY <2>1, <2>2 DEF TypeOK
  <2>4. drops' \in 0..MaxDrops
    BY <1>5, ConstantsAssumption DEF DropLink, TypeOK, ConstantsAssumption
  <2> QED
    BY <1>5, <2>3, <2>4 DEF DropLink, TypeOK
<1>6. ASSUME NEW n \in Nodes, Crash(n)
      PROVE  TypeOK'
  BY <1>6, DieTypes DEF Crash
<1>7. ASSUME NEW n \in Nodes, Restart(n)
      PROVE  TypeOK'
  BY <1>7, ConstantsAssumption DEF Restart, TypeOK, ConstantsAssumption
<1>8. ASSUME NEW n \in Nodes, NEW p \in Nodes,
             CohorteTorn(n, p) \/ CoordinatorTorn(n, p)
      PROVE  TypeOK'
  <2> DEFINE item == Head(net[p][n])
  <2>1. Receives(n, p, {"COMMIT", "ACK_COMMIT"}) /\ Tm(n, p).role # "none"
    BY <1>8 DEF CohorteTorn, CoordinatorTorn, Receives
  <2>2. item.tx \in TxIds /\ Tm(n, p).peer \in Nodes /\ Tm(n, p).amount \in Int
    BY <2>1, ReceiveTypes, ManagerTypes DEF Items
  <2>3. /\ peers' \in [Nodes -> [Nodes -> CreditRecord]]
        /\ txlog' \in [Nodes -> Seq(LogRows)]
        /\ torn' \subseteq Nodes \X Nodes
    <3>1. PICK done \in 0..1 :
            \/ CommitReceiver(done, n, Tm(n, p).peer, item.tx, Tm(n, p).amount)
            \/ CommitSpender(done, n, Tm(n, p).peer, item.tx, Tm(n, p).amount)
      BY <1>8 DEF CohorteTorn, CoordinatorTorn
    <3>2. done \in 0..2
      BY <3>1
    <3> QED
      BY <2>2, <3>1, <3>2, CommitTypes
  <2>4. PICK sent : Ends(n, sent) /\ \A t \in Nodes : sent[t] \in Seq(Items)
    <3>1. net[n] \in [Nodes -> Seq(Items)]
      BY DEF TypeOK
    <3>2. CASE CoordinatorTorn(n, p)
      BY <3>1, <3>2 DEF CoordinatorTorn
    <3>3. CASE CohorteTorn(n, p)
      <4>1. PICK ack : ack = Reply("ACK_COMMIT", item.tx) /\ ack \in Items
        BY <2>2, ReplyTypes DEF TxPhases
      <4>2. PICK sent : sent = [net[n] EXCEPT ![Tm(n, p).peer] =
                                   Post(Tm(n, p).peer, @, ack)]
        OBVIOUS
      <4>3. Post(Tm(n, p).peer, net[n][Tm(n, p).peer], ack) \in Seq(Items)
        BY <2>2, <3>1, <4>1, AppendToQueue DEF Post
      <4>4. sent \in [Nodes -> Seq(Items)]
        BY <3>1, <4>2, <4>3
      <4>5. Ends(n, sent)
        BY <3>3, <4>1, <4>2 DEF CohorteTorn
      <4> QED
        BY <4>4, <4>5
    <3> QED
      BY <1>8, <3>2, <3>3
  <2>5. /\ net' \in [Nodes -> [Nodes -> Seq(Items)]]
        /\ currentTX' \in [Nodes -> [TxIds -> Managers]]
        /\ sequence' \in [Nodes -> 1..MaxSeq]
        /\ up' \in [Nodes -> BOOLEAN]
        /\ drops' = drops /\ restarts' = restarts
    BY <2>4, EndsTypes
  <2> QED
    BY <2>3, <2>5 DEF TypeOK
<1>9. CASE UNCHANGED vars
  BY <1>9 DEF vars, TypeOK
<1> QED
  BY <1>1, <1>2, <1>3, <1>4, <1>5, <1>6, <1>7, <1>8, <1>9 DEF Next

\* Whatever fails and however often, every variable keeps its type: in
\* particular no manager, item or row of a payment nobody began appears.
THEOREM TypeCorrect == Spec => []TypeOK
  BY InitTypeOK, NextTypeOK, PTL DEF Spec

-----------------------------------------------------------------------------
(* What a step does to the queues.                                         *)

\* An acknowledgement of a commit that is torn, to the payer that ordered it.
TornAck(f, t, id) ==
    /\ <<f, t>> \in torn'
    /\ currentTX'[t][id].role = "coordinator" => currentTX'[t][id].peer = f

\* Nothing is in net' but what was there and answers that start nothing.
OnlyAnswersAdded ==
    \A f, t \in Nodes : \A item \in Range(net'[f][t]) :
        \/ item \in Range(net[f][t])
        \/ /\ RightDirection(f, t, item)
           /\ Counted(item.tx)
           /\ item.phase # "QUERY"
           /\ item.phase = "ACK_COMMIT" => TornAck(f, t, item.tx)

\* Taking an item adds nothing.
LEMMA ConsumeEffect ==
    ASSUME TypeOK, NEW n \in Nodes, NEW p \in Nodes, net[p][n] # <<>>,
           Consume(n, p)
    PROVE  /\ \A f, t \in Nodes : Range(net'[f][t]) \subseteq Range(net[f][t])
           /\ OneQuery => OneQuery'
           /\ \A f, t \in Nodes :
                 ~(f = p /\ t = n) => net'[f][t] = net[f][t]
           /\ net'[p][n] = Tail(net[p][n])
<1> DEFINE q == net[p][n]
<1>1. q \in Seq(Items)
  BY DEF TypeOK
<1>2. /\ Range(Tail(q)) \subseteq Range(q)
      /\ Tail(q) \in Seq(Items)
      /\ Len(Tail(q)) = Len(q) - 1
      /\ \A i \in 1..Len(Tail(q)) : Tail(q)[i] = q[i + 1]
  BY <1>1, TailOfQueue
<1>3. DOMAIN q = 1..Len(q) /\ DOMAIN Tail(q) = 1..Len(Tail(q)) /\ Len(q) \in Nat
  BY <1>1, <1>2, LenProperties
<1>4. \A f, t \in Nodes :
         net'[f][t] = IF f = p /\ t = n THEN Tail(q) ELSE net[f][t]
  BY DEF Consume, TypeOK
<1>5. ASSUME OneQuery PROVE OneQuery'
  <2> SUFFICES ASSUME NEW f \in Nodes, NEW t \in Nodes,
                      NEW i \in DOMAIN net'[f][t], NEW j \in DOMAIN net'[f][t],
                      net'[f][t][i].phase = "QUERY", net'[f][t][j].phase = "QUERY",
                      net'[f][t][i].tx = net'[f][t][j].tx
               PROVE  i = j
    BY DEF OneQuery
  <2>1. CASE f = p /\ t = n
    <3>1. i \in 1..Len(Tail(q)) /\ j \in 1..Len(Tail(q))
      BY <2>1, <1>3, <1>4
    <3>2. i + 1 \in DOMAIN q /\ j + 1 \in DOMAIN q
      BY <3>1, <1>2, <1>3
    <3>3. net'[f][t][i] = q[i + 1] /\ net'[f][t][j] = q[j + 1]
      BY <2>1, <3>1, <1>2, <1>4
    <3>4. i + 1 = j + 1
      BY <1>5, <3>2, <3>3 DEF OneQuery
    <3> QED
      BY <3>1, <3>4
  <2>2. CASE ~(f = p /\ t = n)
    BY <2>2, <1>4, <1>5 DEF OneQuery
  <2> QED
    BY <2>1, <2>2
<1> QED
  BY <1>2, <1>4, <1>5

\* Sending adds the item, if the friend is online.
LEMMA PostEffect ==
    ASSUME NEW t \in Nodes, NEW q \in Seq(Items), NEW item \in Items
    PROVE  /\ Range(Post(t, q, item)) \subseteq Range(q) \cup {item}
           /\ \A i \in DOMAIN Post(t, q, item) :
                 \/ i \in DOMAIN q /\ Post(t, q, item)[i] = q[i]
                 \/ Post(t, q, item)[i] = item /\ i = Len(q) + 1
<1>1. CASE up[t]
  BY <1>1, AppendToQueue DEF Post
<1>2. CASE ~up[t]
  BY <1>2 DEF Post
<1> QED
  BY <1>1, <1>2

\* The queues hold nothing new but one item that n sent.
OnlyAdds(n, to, item) ==
    \A f, t \in Nodes :
        Range(net'[f][t]) \subseteq Range(net[f][t]) \cup
            (IF f = n /\ t = to THEN {item} ELSE {})

\* Taking an item and answering it: the queues hold what they held and the
\* answer, and no QUERY twice.
LEMMA ConsumeAndSendEffect ==
    ASSUME TypeOK, NEW n \in Nodes, NEW p \in Nodes, net[p][n] # <<>>,
           NEW to \in Nodes, NEW item \in Items, ConsumeAndSend(n, p, to, item)
    PROVE  /\ OnlyAdds(n, to, item)
           /\ OneQuery /\ item.phase # "QUERY" => OneQuery'
           /\ n # p => net'[p][n] = Tail(net[p][n])
<1> DEFINE taken == [net EXCEPT ![p][n] = Tail(@)]
<1> DEFINE q == net[p][n]
<1>1. q \in Seq(Items)
  BY DEF TypeOK
<1>2. /\ Range(Tail(q)) \subseteq Range(q)
      /\ Tail(q) \in Seq(Items)
      /\ Len(Tail(q)) = Len(q) - 1
      /\ \A i \in 1..Len(Tail(q)) : Tail(q)[i] = q[i + 1]
  BY <1>1, TailOfQueue
<1>3. taken \in [Nodes -> [Nodes -> Seq(Items)]]
  BY <1>2 DEF TypeOK
<1>4. \A f, t \in Nodes :
         taken[f][t] = IF f = p /\ t = n THEN Tail(q) ELSE net[f][t]
  BY DEF TypeOK
<1>5. net' = [taken EXCEPT ![n][to] = Post(to, @, item)]
  BY DEF ConsumeAndSend
<1> HIDE DEF taken
<1>9. \A f, t \in Nodes :
          /\ Range(net'[f][t]) \subseteq Range(taken[f][t]) \cup
                (IF f = n /\ t = to THEN {item} ELSE {})
          /\ \A i \in DOMAIN net'[f][t] :
                \/ i \in DOMAIN taken[f][t] /\ net'[f][t][i] = taken[f][t][i]
                \/ /\ f = n /\ t = to
                   /\ net'[f][t][i] = item
                   /\ i = Len(taken[f][t]) + 1
  <2> TAKE f, t \in Nodes
  <2>1. net'[f][t] = IF f = n /\ t = to THEN Post(to, taken[n][to], item)
                     ELSE taken[f][t]
    BY <1>3, <1>5
  <2>2. taken[n][to] \in Seq(Items)
    BY <1>3
  <2>3. CASE f = n /\ t = to
    BY <2>1, <2>2, <2>3, PostEffect
  <2>4. CASE ~(f = n /\ t = to)
    BY <2>1, <2>4
  <2> QED
    BY <2>3, <2>4
<1>6. ASSUME NEW f \in Nodes, NEW t \in Nodes
      PROVE  Range(net'[f][t]) \subseteq Range(net[f][t]) \cup
                 (IF f = n /\ t = to THEN {item} ELSE {})
  <2>1. Range(net'[f][t]) \subseteq Range(taken[f][t]) \cup
            (IF f = n /\ t = to THEN {item} ELSE {})
    BY <1>9
  <2>2. Range(taken[f][t]) \subseteq Range(net[f][t])
    BY <1>2, <1>4
  <2> QED
    BY <2>1, <2>2
<1>7. ASSUME OneQuery, item.phase # "QUERY" PROVE OneQuery'
  <2> SUFFICES ASSUME NEW f \in Nodes, NEW t \in Nodes,
                      NEW i \in DOMAIN net'[f][t], NEW j \in DOMAIN net'[f][t],
                      net'[f][t][i].phase = "QUERY", net'[f][t][j].phase = "QUERY",
                      net'[f][t][i].tx = net'[f][t][j].tx
               PROVE  i = j
    BY DEF OneQuery
  <2>1. /\ i \in DOMAIN taken[f][t] /\ net'[f][t][i] = taken[f][t][i]
        /\ j \in DOMAIN taken[f][t] /\ net'[f][t][j] = taken[f][t][j]
    <3>1. \A k \in DOMAIN net'[f][t] :
             \/ k \in DOMAIN taken[f][t] /\ net'[f][t][k] = taken[f][t][k]
             \/ net'[f][t][k] = item
      BY <1>9
    <3> QED
      BY <3>1, <1>7
  <2>2. CASE f = p /\ t = n
    <3>1. i \in 1..Len(Tail(q)) /\ j \in 1..Len(Tail(q))
      BY <2>1, <2>2, <1>2, <1>4, LenProperties
    <3>2. DOMAIN q = 1..Len(q) /\ Len(q) \in Nat
      BY <1>1, LenProperties
    <3>3. i + 1 \in DOMAIN q /\ j + 1 \in DOMAIN q
      BY <3>1, <3>2, <1>2
    <3>4. net'[f][t][i] = q[i + 1] /\ net'[f][t][j] = q[j + 1]
      BY <2>1, <2>2, <3>1, <1>2, <1>4
    <3>5. i + 1 = j + 1
      BY <1>7, <3>3, <3>4 DEF OneQuery
    <3> QED
      BY <3>1, <3>5
  <2>3. CASE ~(f = p /\ t = n)
    <3>1. taken[f][t] = net[f][t]
      BY <2>3, <1>4
    <3>2. /\ i \in DOMAIN net[f][t] /\ net'[f][t][i] = net[f][t][i]
          /\ j \in DOMAIN net[f][t] /\ net'[f][t][j] = net[f][t][j]
      BY <2>1, <3>1
    <3> QED
      BY <3>2, <1>7 DEF OneQuery
  <2> QED
    BY <2>2, <2>3
<1>8. ASSUME n # p PROVE net'[p][n] = Tail(q)
  BY <1>8, <1>3, <1>4, <1>5
<1> QED
  BY <1>6, <1>7, <1>8 DEF OnlyAdds

\* A queue that loses its end, or everything, has nothing new.
LEMMA LossEffect ==
    ASSUME TypeOK,
           \A f, t \in Nodes : \/ net'[f][t] \in {<<>>, net[f][t]}
                               \/ net'[f][t] \in Prefixes(net[f][t])
    PROVE  /\ \A f, t \in Nodes : Range(net'[f][t]) \subseteq Range(net[f][t])
           /\ OneQuery => OneQuery'
<1>1. ASSUME NEW f \in Nodes, NEW t \in Nodes
      PROVE  /\ Range(net'[f][t]) \subseteq Range(net[f][t])
             /\ DOMAIN net'[f][t] \subseteq DOMAIN net[f][t]
             /\ \A i \in DOMAIN net'[f][t] : net'[f][t][i] = net[f][t][i]
  <2>1. net[f][t] \in Seq(Items)
    BY DEF TypeOK
  <2>2. CASE net'[f][t] \in Prefixes(net[f][t])
    BY <2>1, <2>2, PrefixOfQueue
  <2>3. CASE net'[f][t] = <<>>
    BY <2>3 DEF Range
  <2>4. CASE net'[f][t] = net[f][t]
    BY <2>4
  <2> QED
    BY <2>2, <2>3, <2>4
<1>2. ASSUME OneQuery PROVE OneQuery'
  BY <1>1, <1>2 DEF OneQuery
<1> QED
  BY <1>1, <1>2

-----------------------------------------------------------------------------
(* The inductive invariant.                                                *)

\* No payment is under way in the beginning.
LEMMA InitSafe == Init => Safe
<1> SUFFICES ASSUME Init PROVE Safe
  OBVIOUS
<1>1. TypeOK
  BY InitTypeOK
<1>2. \A n \in Nodes : Rows(n) = {} /\ DOMAIN txlog[n] = {}
  BY DEF Init, Rows, Range
<1>3. \A f, t \in Nodes : Range(net[f][t]) = {} /\ DOMAIN net[f][t] = {}
  BY DEF Init, Range
<1>4. \A n \in Nodes, id \in TxIds : currentTX[n][id] = NoTM
  BY DEF Init
<1>5. NoTM.role = "none"
  BY DEF NoTM
<1>6. IdsAreCounted /\ RolesFollowIds /\ ItemsGoTheRightWay
  BY <1>2, <1>3, <1>4, <1>5
     DEF IdsAreCounted, RolesFollowIds, ItemsGoTheRightWay
<1>7. CoordinatorAgrees /\ RowsAreTrue /\ AckMeansBooked
  BY <1>2, <1>3, <1>4, <1>5 DEF CoordinatorAgrees, RowsAreTrue, AckMeansBooked
<1>8. OneQuery /\ QueryIsFirst /\ CohorteBooksOnce /\ BookedOnce
  BY <1>2, <1>3, <1>4, <1>5
     DEF OneQuery, QueryIsFirst, CohorteBooksOnce, BookedOnce
<1> QED
  BY <1>1, <1>6, <1>7, <1>8 DEF Safe

\* Managers may be forgotten, none is made.
OnlyForgets ==
    \A n \in Nodes, id \in TxIds :
        currentTX'[n][id] = currentTX[n][id] \/ currentTX'[n][id] = NoTM

KeepsCounted == \A id \in TxIds : Counted(id) => Counted(id)'

\* Where items, rows and ids come from.
ElementsTyped ==
    /\ \A f, t \in Nodes : \A item \in Range(net[f][t]) :
          item \in Items /\ item.tx \in TxIds
    /\ \A n \in Nodes : \A row \in Rows(n) :
          row \in LogRows /\ row.tx \in TxIds /\ row.peer \in Nodes
    /\ \A id \in TxIds : id[1] \in Nodes
    /\ \A n \in Nodes, id \in TxIds : currentTX[n][id] \in Managers
\* TypeOK, element by element, as the provers need it.
LEMMA ElementTypes == TypeOK => ElementsTyped
<1> SUFFICES ASSUME TypeOK PROVE ElementsTyped
  OBVIOUS
<1>1. ASSUME NEW f \in Nodes, NEW t \in Nodes, NEW item \in Range(net[f][t])
      PROVE  item \in Items
  <2>1. net[f][t] \in Seq(Items)
    BY DEF TypeOK
  <2> QED
    BY <2>1, LenProperties, ElementOfSeq DEF Range
<1>2. ASSUME NEW n \in Nodes, NEW row \in Rows(n)
      PROVE  row \in LogRows
  <2>1. txlog[n] \in Seq(LogRows)
    BY DEF TypeOK
  <2> QED
    BY <2>1, LenProperties, ElementOfSeq DEF Range, Rows
<1>3. \A n \in Nodes, id \in TxIds : currentTX[n][id] \in Managers
  BY DEF TypeOK
<1> QED
  BY <1>1, <1>2, <1>3 DEF Items, LogRows, TxIds, ElementsTyped

\* Nothing is in net' but what was there and answers.
OnlyRepliesAdded ==
    \A f, t \in Nodes : \A item \in Range(net'[f][t]) :
        \/ item \in Range(net[f][t])
        \/ /\ RightDirection(f, t, item)
           /\ Counted(item.tx)
           /\ item.phase # "QUERY"

\* What a step that forgets managers, sends answers and adds rows keeps.
LEMMA ForgettingStep ==
    ASSUME Safe, TypeOK', OnlyForgets, OnlyRepliesAdded, KeepsCounted,
           \A n \in Nodes : Rows(n) \subseteq Rows(n)', torn \subseteq torn'
    PROVE  /\ \A n \in Nodes, id \in TxIds :
                 currentTX'[n][id] # NoTM => Counted(id)'
           /\ \A f, t \in Nodes : \A item \in Range(net'[f][t]) : Counted(item.tx)'
           /\ RolesFollowIds' /\ ItemsGoTheRightWay' /\ CoordinatorAgrees'
           /\ \A n \in Nodes : \A row \in Rows(n) :
                 Counted(row.tx)' /\ CreditRow(n, row)' /\ DebitRow(n, row)'
<1>0. TypeOK /\ NoTM.role = "none"
  BY DEF Safe, NoTM
<1>a. ElementsTyped
  BY <1>0, ElementTypes
<1>b. ElementsTyped'
  BY ElementTypes, PTL
<1>1. \A n \in Nodes, id \in TxIds : currentTX'[n][id] # NoTM => Counted(id)'
  BY DEF Safe, IdsAreCounted, OnlyForgets, KeepsCounted
<1>2. \A f, t \in Nodes : \A item \in Range(net'[f][t]) : Counted(item.tx)'
  BY <1>b DEF Safe, IdsAreCounted, OnlyRepliesAdded, KeepsCounted, ElementsTyped
<1>3. RolesFollowIds'
  BY <1>0 DEF Safe, RolesFollowIds, OnlyForgets
<1>4. ItemsGoTheRightWay'
  BY DEF Safe, ItemsGoTheRightWay, OnlyRepliesAdded, RightDirection
<1>5. \A id \in TxIds, p \in Nodes : \A amount :
          Agrees(PayerTm(id), p, amount) => Agrees(PayerTm(id)', p, amount)
  BY <1>0, <1>a DEF Agrees, PayerTm, OnlyForgets, ElementsTyped
<1>6. CoordinatorAgrees'
  <2>1. ASSUME NEW f \in Nodes, NEW t \in Nodes, NEW item \in Range(net'[f][t]),
               item.phase = "QUERY"
        PROVE  Agrees(PayerTm(item.tx)', t, item.amount)
    <3>1. item \in Range(net[f][t])
      BY <2>1 DEF OnlyRepliesAdded
    <3>2. Agrees(PayerTm(item.tx), t, item.amount)
      BY <2>1, <3>1 DEF Safe, CoordinatorAgrees
    <3> QED
      BY <3>1, <3>2, <1>5, <1>a DEF ElementsTyped
  <2>2. ASSUME NEW n \in Nodes, NEW id \in TxIds,
               currentTX'[n][id].role = "cohorte"
        PROVE  Agrees(PayerTm(id)', n, currentTX'[n][id].amount)
    <3>1. currentTX'[n][id] = currentTX[n][id]
      BY <2>2, <1>0 DEF OnlyForgets
    <3>2. Agrees(PayerTm(id), n, currentTX[n][id].amount)
      BY <2>2, <3>1 DEF Safe, CoordinatorAgrees
    <3> QED
      BY <3>1, <3>2, <1>5
  <2> QED
    BY <2>1, <2>2 DEF CoordinatorAgrees
<1>7. ASSUME NEW n \in Nodes, NEW row \in Rows(n)
      PROVE  Counted(row.tx)' /\ CreditRow(n, row)' /\ DebitRow(n, row)'
  <2>1. Counted(row.tx) /\ CreditRow(n, row) /\ DebitRow(n, row)
    BY DEF Safe, IdsAreCounted, RowsAreTrue
  <2>2. row.tx \in TxIds /\ row.peer \in Nodes
    BY <1>a DEF ElementsTyped
  <2>3. CreditRow(n, row)'
    BY <2>1, <2>2, <1>5 DEF CreditRow
  <2>4. DebitRow(n, row)'
    BY <2>1, <2>2, <1>0 DEF DebitRow, OnlyForgets
  <2>5. Counted(row.tx)'
    BY <2>1, <2>2 DEF KeepsCounted
  <2> QED
    BY <2>3, <2>4, <2>5
<1> QED
  BY <1>1, <1>2, <1>3, <1>4, <1>6, <1>7

\* A step that only forgets managers, loses items and sends answers that
\* start nothing keeps the invariant: timeouts, drops, crashes, refusals.
LEMMA HarmlessStep ==
    ASSUME Safe, TypeOK', OnlyForgets, OnlyAnswersAdded, OneQuery',
           UNCHANGED txlog, torn \subseteq torn', KeepsCounted
    PROVE  Safe'
<1>0. /\ TypeOK /\ NoTM.role = "none"
      /\ \A n \in Nodes : Rows(n)' = Rows(n)
  BY DEF Safe, NoTM, Rows
<1>a. ElementsTyped
  BY <1>0, ElementTypes
<1>1. OnlyRepliesAdded
  BY DEF OnlyAnswersAdded, OnlyRepliesAdded
<1>2. /\ \A n \in Nodes, id \in TxIds :
            currentTX'[n][id] # NoTM => Counted(id)'
      /\ \A f, t \in Nodes : \A item \in Range(net'[f][t]) : Counted(item.tx)'
      /\ RolesFollowIds' /\ ItemsGoTheRightWay' /\ CoordinatorAgrees'
      /\ \A n \in Nodes : \A row \in Rows(n) :
            Counted(row.tx)' /\ CreditRow(n, row)' /\ DebitRow(n, row)'
  BY <1>0, <1>1, ForgettingStep
<1>3. IdsAreCounted' /\ RowsAreTrue'
  BY <1>0, <1>2 DEF IdsAreCounted, RowsAreTrue
<1>7. AckMeansBooked'
  <2> SUFFICES ASSUME NEW f \in Nodes, NEW t \in Nodes,
                      NEW item \in Range(net'[f][t]),
                      item.phase = "ACK_COMMIT",
                      currentTX'[t][item.tx].role = "coordinator"
               PROVE  /\ currentTX'[t][item.tx].peer = f
                      /\ \/ LogRow(t, item.tx, currentTX'[t][item.tx].amount) \in Rows(f)
                         \/ <<f, t>> \in torn'
    BY <1>0 DEF AckMeansBooked, LogRow
  <2>1. CASE item \in Range(net[f][t])
    <3>1. currentTX'[t][item.tx] = currentTX[t][item.tx]
      BY <2>1, <1>0, <1>a DEF OnlyForgets, ElementsTyped
    <3> QED
      BY <2>1, <3>1 DEF Safe, AckMeansBooked
  <2>2. CASE TornAck(f, t, item.tx)
    BY <2>2 DEF TornAck
  <2> QED
    BY <2>1, <2>2 DEF OnlyAnswersAdded
<1>8. QueryIsFirst'
  <2> SUFFICES ASSUME NEW f \in Nodes, NEW t \in Nodes,
                      NEW item \in Range(net'[f][t]), item.phase = "QUERY"
               PROVE  currentTX'[t][item.tx] = NoTM /\ Unbooked(t, item.tx)'
    BY DEF QueryIsFirst
  <2>1. item \in Range(net[f][t])
    BY DEF OnlyAnswersAdded
  <2>2. currentTX[t][item.tx] = NoTM /\ Unbooked(t, item.tx)
    BY <2>1 DEF Safe, QueryIsFirst
  <2> QED
    BY <2>1, <2>2, <1>0, <1>a DEF OnlyForgets, ElementsTyped, Unbooked
<1>9. CohorteBooksOnce'
  BY <1>0 DEF Safe, CohorteBooksOnce, OnlyForgets, Unbooked
<1>10. BookedOnce'
  BY DEF Safe, BookedOnce
<1> QED
  BY <1>2, <1>3, <1>7, <1>8, <1>9, <1>10 DEF Safe

\* What is known of an item that is handled, and of its manager.
LEMMA ReceivedItem ==
    ASSUME Safe, NEW n \in Nodes, NEW p \in Nodes, NEW phases,
           Receives(n, p, phases)
    PROVE  LET item == Head(net[p][n])
           IN /\ net[p][n] # <<>>
              /\ item \in Range(net[p][n])
              /\ item.phase \in phases
              /\ item.tx \in TxIds /\ item.tx[1] \in Nodes
              /\ RightDirection(p, n, item)
              /\ Counted(item.tx)
              /\ Tm(n, p) = currentTX[n][item.tx]
              /\ Tm(n, p) \in Managers
<1>1. TypeOK /\ ElementsTyped
  BY ElementTypes DEF Safe
<1>2. net[p][n] # <<>> /\ net[p][n] \in Seq(Items)
  BY <1>1 DEF Receives, TypeOK
<1>3. Head(net[p][n]) \in Range(net[p][n])
  BY <1>2, TailOfQueue
<1>4. Head(net[p][n]).tx \in TxIds
  BY <1>1, <1>3 DEF ElementsTyped
<1>5. RightDirection(p, n, Head(net[p][n])) /\ Counted(Head(net[p][n]).tx)
  BY <1>3 DEF Safe, ItemsGoTheRightWay, IdsAreCounted
<1> QED
  BY <1>1, <1>2, <1>3, <1>4, <1>5 DEF Receives, Tm, ElementsTyped

\* An answer: the only thing some harmless actions send.
LEMMA AnswerSent ==
    ASSUME Safe, NEW n \in Nodes, NEW p \in Nodes, net[p][n] # <<>>,
           NEW to \in Nodes, NEW phase \in {"VOTE_YES", "VOTE_NO", "COMMIT", "ABORT"},
           NEW id \in TxIds, RightDirection(n, to, Reply(phase, id)), Counted(id),
           ConsumeAndSend(n, p, to, Reply(phase, id))
    PROVE  /\ OnlyAnswersAdded /\ OneQuery'
           /\ \A f, t \in Nodes : \A item \in Range(net'[f][t]) :
                 \/ item \in Range(net[f][t])
                 \/ item.phase \notin {"QUERY", "ACK_COMMIT"}
<1>1. TypeOK /\ OneQuery
  BY DEF Safe
<1>2. PICK item \in Items :
          item = Reply(phase, id) /\ item.phase = phase /\ item.tx = id
  BY DEF Reply, Item, Items, TxPhases
<1>3. ConsumeAndSend(n, p, to, item)
  BY <1>2
<1>4. OnlyAdds(n, to, item) /\ OneQuery'
  BY <1>1, <1>2, <1>3, ConsumeAndSendEffect
<1>5. RightDirection(n, to, item)
  BY <1>2
<1> QED
  BY <1>2, <1>4, <1>5 DEF OnlyAdds, OnlyAnswersAdded

\* When the queues lose items only.
LEMMA NothingSent ==
    ASSUME \A f, t \in Nodes : Range(net'[f][t]) \subseteq Range(net[f][t])
    PROVE  OnlyAnswersAdded
  BY DEF OnlyAnswersAdded

\* A transaction that is forgotten changes nothing else.
LEMMA ForgetForgets ==
    ASSUME TypeOK, NEW n \in Nodes, NEW id \in TxIds, Forget(n, id)
    PROVE  OnlyForgets
  BY DEF Forget, OnlyForgets, TypeOK

\* The end of a process keeps the invariant, even if the last it did was to
\* acknowledge a payment that it does not book.
LEMMA EndsSafe ==
    ASSUME Safe, TypeOK', NEW n \in Nodes, NEW sent, Ends(n, sent),
           UNCHANGED txlog, torn \subseteq torn',
           \A t \in Nodes :
              \/ sent[t] = net[n][t]
              \/ \E ack \in Items :
                    /\ sent[t] = Append(net[n][t], ack)
                    /\ ack.phase = "ACK_COMMIT" /\ RightDirection(n, t, ack)
                    /\ Counted(ack.tx) /\ TornAck(n, t, ack.tx)
    PROVE  Safe'
<1>1. TypeOK /\ ElementsTyped
  BY ElementTypes DEF Safe
<1>2. PICK kept \in [Nodes -> UNION {Prefixes(sent[t]) : t \in Nodes}] :
          /\ \A t \in Nodes : kept[t] \in Prefixes(sent[t])
          /\ net' = [f \in Nodes |-> [t \in Nodes |->
                        IF t = n THEN <<>>
                        ELSE IF f = n THEN kept[t] ELSE net[f][t]]]
  BY DEF Ends
<1>3. ASSUME NEW t \in Nodes, NEW i \in DOMAIN kept[t]
      PROVE  \/ i \in DOMAIN net[n][t] /\ kept[t][i] = net[n][t][i]
             \/ /\ kept[t][i].phase = "ACK_COMMIT" /\ RightDirection(n, t, kept[t][i])
                /\ Counted(kept[t][i].tx) /\ TornAck(n, t, kept[t][i].tx)
  <2>1. net[n][t] \in Seq(Items) /\ kept[t] \in Prefixes(sent[t])
    BY <1>1, <1>2 DEF TypeOK
  <2>2. CASE sent[t] = net[n][t]
    BY <2>1, <2>2, PrefixOfQueue
  <2>3. CASE sent[t] # net[n][t]
    <3>1. PICK ack \in Items :
              /\ sent[t] = Append(net[n][t], ack)
              /\ ack.phase = "ACK_COMMIT" /\ RightDirection(n, t, ack)
              /\ Counted(ack.tx) /\ TornAck(n, t, ack.tx)
      BY <2>3
    <3>2. /\ sent[t] \in Seq(Items)
          /\ DOMAIN sent[t] = 1..(Len(net[n][t]) + 1)
          /\ \A k \in 1..Len(net[n][t]) : sent[t][k] = net[n][t][k]
          /\ sent[t][Len(net[n][t]) + 1] = ack
          /\ DOMAIN net[n][t] = 1..Len(net[n][t])
          /\ Len(net[n][t]) \in Nat
      BY <2>1, <3>1, AppendToQueue
    <3>3. i \in DOMAIN sent[t] /\ kept[t][i] = sent[t][i]
      BY <2>1, <3>2, PrefixOfQueue
    <3>4. i \in 1..Len(net[n][t]) \/ i = Len(net[n][t]) + 1
      BY <3>2, <3>3
    <3>5. CASE i \in 1..Len(net[n][t])
      BY <3>2, <3>3, <3>5
    <3>6. CASE i = Len(net[n][t]) + 1
      BY <3>1, <3>2, <3>3, <3>6
    <3> QED
      BY <3>4, <3>5, <3>6
  <2> QED
    BY <2>2, <2>3
<1>4. ASSUME NEW f \in Nodes, NEW t \in Nodes, NEW i \in DOMAIN net'[f][t]
      PROVE  \/ i \in DOMAIN net[f][t] /\ net'[f][t][i] = net[f][t][i]
             \/ /\ net'[f][t][i].phase = "ACK_COMMIT"
                /\ RightDirection(f, t, net'[f][t][i])
                /\ Counted(net'[f][t][i].tx) /\ TornAck(f, t, net'[f][t][i].tx)
  <2>1. CASE t = n
    BY <1>2, <2>1
  <2>2. CASE t # n /\ f = n
    <3>1. net'[f][t] = kept[t]
      BY <1>2, <2>2
    <3> QED
      BY <1>3, <2>2, <3>1
  <2>3. CASE t # n /\ f # n
    BY <1>2, <2>3
  <2> QED
    BY <2>1, <2>2, <2>3
<1>5. OnlyAnswersAdded
  <2> SUFFICES ASSUME NEW f \in Nodes, NEW t \in Nodes,
                      NEW item \in Range(net'[f][t])
               PROVE  \/ item \in Range(net[f][t])
                      \/ /\ RightDirection(f, t, item)
                         /\ Counted(item.tx)
                         /\ item.phase # "QUERY"
                         /\ item.phase = "ACK_COMMIT" => TornAck(f, t, item.tx)
    BY DEF OnlyAnswersAdded
  <2>1. PICK i \in DOMAIN net'[f][t] : item = net'[f][t][i]
    BY DEF Range
  <2>2. CASE i \in DOMAIN net[f][t] /\ net'[f][t][i] = net[f][t][i]
    BY <2>1, <2>2 DEF Range
  <2>3. CASE ~(i \in DOMAIN net[f][t] /\ net'[f][t][i] = net[f][t][i])
    BY <1>4, <2>1, <2>3
  <2> QED
    BY <2>2, <2>3
<1>6. OneQuery'
  <2>1. OneQuery
    BY DEF Safe
  <2>2. ASSUME NEW f \in Nodes, NEW t \in Nodes, NEW i \in DOMAIN net'[f][t],
               net'[f][t][i].phase = "QUERY"
        PROVE  i \in DOMAIN net[f][t] /\ net'[f][t][i] = net[f][t][i]
    BY <1>4, <2>2
  <2> SUFFICES ASSUME NEW f \in Nodes, NEW t \in Nodes,
                      NEW i \in DOMAIN net'[f][t], NEW j \in DOMAIN net'[f][t],
                      net'[f][t][i].phase = "QUERY", net'[f][t][j].phase = "QUERY",
                      net'[f][t][i].tx = net'[f][t][j].tx
               PROVE  i = j
    BY DEF OneQuery
  <2>3. /\ i \in DOMAIN net[f][t] /\ net'[f][t][i] = net[f][t][i]
        /\ j \in DOMAIN net[f][t] /\ net'[f][t][j] = net[f][t][j]
    BY <2>2
  <2> QED
    BY <2>1, <2>3 DEF OneQuery
<1>7. OnlyForgets
  <2>1. currentTX' = [currentTX EXCEPT ![n] = [id \in TxIds |-> NoTM]]
    BY DEF Ends
  <2> QED
    BY <1>1, <2>1 DEF OnlyForgets, TypeOK
<1>8. KeepsCounted
  <2>1. up' = [up EXCEPT ![n] = FALSE] /\ sequence' = [sequence EXCEPT ![n] = 1]
    BY DEF Ends, FirstSequence
  <2> QED
    BY <1>1, <2>1 DEF KeepsCounted, Counted, TypeOK, ElementsTyped
<1> QED
  BY <1>5, <1>6, <1>7, <1>8, HarmlessStep

\* A process that ends takes its managers along and adds no item.
LEMMA DieSafe ==
    ASSUME Safe, TypeOK', NEW n \in Nodes, Die(n)
    PROVE  Safe'
  BY EndsSafe DEF Die

\* Identifiers stay counted while no sequence number moves.
LEMMA KeepsIds == UNCHANGED <<sequence, up>> => KeepsCounted
  BY DEF KeepsCounted, Counted

-----------------------------------------------------------------------------
(* The harmless steps, action by action.                                   *)

\* What the role of a manager says of its peer and its id.
LEMMA RoleOf ==
    ASSUME Safe, NEW n \in Nodes, NEW id \in TxIds
    PROVE  /\ currentTX[n][id].role = "coordinator"
                 => id[1] = n /\ currentTX[n][id].peer # n
           /\ currentTX[n][id].role = "cohorte"
                 => id[1] = currentTX[n][id].peer /\ currentTX[n][id].peer # n
<1>1. RolesFollowIds
  BY DEF Safe
<1> QED
  BY <1>1 DEF RolesFollowIds

\* The payee votes on a payment.
LEMMA CohorteRequerySafe ==
    ASSUME Safe, TypeOK', NEW n \in Nodes, NEW p \in Nodes, CohorteRequery(n, p)
    PROVE  Safe'
<1> DEFINE item == Head(net[p][n])
<1> DEFINE tm == Tm(n, p)
<1>1. /\ Receives(n, p, {"QUERY"}) /\ tm.role = "cohorte"
      /\ ConsumeAndSend(n, p, tm.peer, Reply("ABORT", item.tx))
      /\ Forget(n, item.tx)
      /\ UNCHANGED <<txlog, sequence, up, torn>>
  BY DEF CohorteRequery
<1>2. /\ net[p][n] # <<>> /\ item.tx \in TxIds /\ Counted(item.tx)
      /\ tm = currentTX[n][item.tx] /\ tm \in Managers
  BY <1>1, ReceivedItem
<1>3. tm.peer \in Nodes
  BY <1>1, <1>2, ManagerTypes
<1>4. tm.peer # n
  <2>1. currentTX[n][item.tx].role = "cohorte"
    BY <1>1, <1>2
  <2>2. currentTX[n][item.tx].peer # n
    BY <1>2, <2>1, RoleOf
  <2> QED
    BY <1>2, <2>2
<1>5. RightDirection(n, tm.peer, Reply("ABORT", item.tx))
  BY <1>4 DEF RightDirection, Reply, Item
<1>6. OnlyAnswersAdded /\ OneQuery'
  BY <1>1, <1>2, <1>3, <1>5, AnswerSent
<1>7. OnlyForgets
  BY <1>1, <1>2, ForgetForgets DEF Safe
<1> QED
  BY <1>1, <1>6, <1>7, KeepsIds, HarmlessStep

\* The payer reads a YES, spends and sends the COMMIT.
LEMMA CoordinatorVoteYesSafe ==
    ASSUME Safe, TypeOK', NEW n \in Nodes, NEW p \in Nodes,
           CoordinatorVoteYes(n, p)
    PROVE  Safe'
<1> DEFINE item == Head(net[p][n])
<1> DEFINE tm == Tm(n, p)
<1>1. /\ Receives(n, p, {"VOTE_YES"}) /\ tm.role = "coordinator"
      /\ ConsumeAndSend(n, p, tm.peer, Reply("COMMIT", item.tx))
      /\ UNCHANGED <<currentTX, txlog, sequence, up, torn>>
  BY DEF CoordinatorVoteYes
<1>2. /\ net[p][n] # <<>> /\ item.tx \in TxIds /\ Counted(item.tx)
      /\ tm = currentTX[n][item.tx] /\ tm \in Managers
  BY <1>1, ReceivedItem
<1>3. tm.peer \in Nodes
  BY <1>1, <1>2, ManagerTypes
<1>4. tm.peer # n /\ item.tx[1] = n
  <2>1. currentTX[n][item.tx].role = "coordinator"
    BY <1>1, <1>2
  <2>2. item.tx[1] = n /\ currentTX[n][item.tx].peer # n
    BY <1>2, <2>1, RoleOf
  <2> QED
    BY <1>2, <2>2
<1>5. RightDirection(n, tm.peer, Reply("COMMIT", item.tx))
  BY <1>4 DEF RightDirection, Reply, Item
<1>6. OnlyAnswersAdded /\ OneQuery'
  BY <1>1, <1>2, <1>3, <1>5, AnswerSent
<1>7. OnlyForgets
  BY <1>1 DEF OnlyForgets
<1> QED
  BY <1>1, <1>6, <1>7, KeepsIds, HarmlessStep

\* A payment is aborted.
LEMMA AbortPaymentSafe ==
    ASSUME Safe, TypeOK', NEW n \in Nodes, NEW p \in Nodes, AbortPayment(n, p)
    PROVE  Safe'
<1> DEFINE item == Head(net[p][n])
<1>1. /\ Receives(n, p, EndsWithoutCommit(Tm(n, p).role))
      /\ Consume(n, p) /\ Forget(n, item.tx)
      /\ UNCHANGED <<txlog, sequence, up, torn>>
  BY DEF AbortPayment
<1>2. net[p][n] # <<>> /\ item.tx \in TxIds
  BY <1>1, ReceivedItem
<1>3. OnlyAnswersAdded /\ OneQuery'
  BY <1>1, <1>2, ConsumeEffect, NothingSent DEF Safe
<1>4. OnlyForgets
  BY <1>1, <1>2, ForgetForgets DEF Safe
<1> QED
  BY <1>1, <1>3, <1>4, KeepsIds, HarmlessStep

\* The payee reads an item of a transaction it does not know.
LEMMA CohorteUninitialisedSafe ==
    ASSUME Safe, TypeOK', NEW n \in Nodes, NEW p \in Nodes,
           CohorteUninitialised(n, p)
    PROVE  Safe'
<1> DEFINE item == Head(net[p][n])
<1>1. CASE Die(n)
  BY <1>1, DieSafe
<1>2. CASE ~Die(n)
  <2>1. /\ Receives(n, p, {"COMMIT", "ABORT"})
        /\ UNCHANGED <<txlog, currentTX, sequence, up, torn>>
        /\ \/ Consume(n, p)
           \/ \E t \in Nodes \ {n} :
                 ConsumeAndSend(n, p, t, Reply("ABORT", item.tx))
    BY <1>2 DEF CohorteUninitialised
  <2>2. net[p][n] # <<>> /\ item.tx \in TxIds /\ Counted(item.tx)
    BY <2>1, ReceivedItem
  <2>3. OnlyAnswersAdded /\ OneQuery'
    <3>1. CASE Consume(n, p)
      BY <2>2, <3>1, ConsumeEffect, NothingSent DEF Safe
    <3>2. ASSUME NEW t \in Nodes \ {n},
                 ConsumeAndSend(n, p, t, Reply("ABORT", item.tx))
          PROVE  OnlyAnswersAdded /\ OneQuery'
      <4>1. RightDirection(n, t, Reply("ABORT", item.tx))
        BY DEF RightDirection, Reply, Item
      <4> QED
        BY <2>2, <3>2, <4>1, AnswerSent
    <3> QED
      BY <2>1, <3>1, <3>2
  <2>4. OnlyForgets
    BY <2>1 DEF OnlyForgets
  <2> QED
    BY <2>1, <2>3, <2>4, KeepsIds, HarmlessStep
<1> QED
  BY <1>1, <1>2

\* A transaction times out.
LEMMA TimeoutSafe ==
    ASSUME Safe, TypeOK', NEW n \in Nodes, Timeout(n)
    PROVE  Safe'
<1>1. CASE Die(n)
  BY <1>1, DieSafe
<1>2. CASE ~Die(n)
  <2>1. PICK expired \in SUBSET TxIds :
            /\ currentTX' = [currentTX EXCEPT ![n] =
                  [id \in TxIds |-> IF id \in expired THEN NoTM ELSE @[id]]]
            /\ UNCHANGED <<txlog, sequence, net, up, torn>>
    BY <1>2 DEF Timeout, ManagersOf
  <2>2. OnlyForgets
    BY <2>1 DEF Safe, OnlyForgets, TypeOK
  <2>3. OnlyAnswersAdded /\ OneQuery'
    BY <2>1 DEF Safe, OnlyAnswersAdded, OneQuery
  <2> QED
    BY <2>1, <2>2, <2>3, KeepsIds, HarmlessStep
<1> QED
  BY <1>1, <1>2

\* Items get lost with a connection.
LEMMA DropLinkSafe ==
    ASSUME Safe, TypeOK', NEW n \in Nodes, NEW p \in Nodes, DropLink(n, p)
    PROVE  Safe'
<1>1. PICK there \in Prefixes(net[n][p]), back \in Prefixes(net[p][n]) :
          net' = [net EXCEPT ![n][p] = there, ![p][n] = back]
  BY DEF DropLink
<1>2. \A f, t \in Nodes : \/ net'[f][t] \in {<<>>, net[f][t]}
                          \/ net'[f][t] \in Prefixes(net[f][t])
  BY <1>1, ZenonT(40) DEF Safe, TypeOK
<1>3. OnlyAnswersAdded /\ OneQuery'
  BY <1>2, LossEffect, NothingSent DEF Safe
<1>4. UNCHANGED <<txlog, currentTX, sequence, up, torn>>
  BY DEF DropLink
<1>5. OnlyForgets
  BY <1>4 DEF OnlyForgets
<1> QED
  BY <1>3, <1>4, <1>5, KeepsIds, HarmlessStep

-----------------------------------------------------------------------------
(* The steps that do something.                                            *)

\* The id of a new payment is used nowhere yet.
LEMMA PayToSafe ==
    ASSUME Safe, TypeOK', NEW n \in Nodes, NEW p \in Nodes,
           NEW amount \in Amounts, PayTo(n, p, amount)
    PROVE  Safe'
<1> DEFINE tm == Coordinator(p, amount, MyAvailable(peers[n][p]), FALSE)
<1>1. TypeOK /\ ElementsTyped
  BY ElementTypes DEF Safe
<1>3. sequence[n] \in 1..MaxSeq /\ MaxSeq \in Nat
  BY <1>1, ConstantsAssumption DEF TypeOK, ConstantsAssumption
<1>4. PICK new \in TxIds :
          new = <<n, sequence[n] + 1>> /\ new[1] = n /\ new[2] = sequence[n] + 1
  <2>1. sequence[n] < MaxSeq
    BY DEF PayTo
  <2>2. sequence[n] + 1 \in 2..MaxSeq
    BY <1>3, <2>1
  <2>3. <<n, sequence[n] + 1>> \in TxIds
    BY <2>2 DEF TxIds
  <2> QED
    BY <2>3
<1>2. /\ up[n] /\ n # p /\ sequence[n] < MaxSeq
      /\ sequence' = [sequence EXCEPT ![n] = @ + 1]
      /\ currentTX' = [currentTX EXCEPT ![n][new] = tm]
      /\ UNCHANGED <<txlog, net, up, torn>>
  BY <1>4 DEF PayTo, MkId
<1>5. ~Counted(new)
  BY <1>2, <1>3, <1>4 DEF Counted
<1>6. /\ tm.role = "coordinator" /\ tm.peer = p /\ tm.amount = amount
      /\ NoTM.role = "none"
  BY DEF Coordinator, NoTM
<1> HIDE DEF tm
<1>7. /\ \A m \in Nodes : currentTX[m][new] = NoTM
      /\ \A f, t \in Nodes : \A item \in Range(net[f][t]) : item.tx # new
      /\ \A m \in Nodes : \A row \in Rows(m) : row.tx # new
  BY <1>4, <1>5 DEF Safe, IdsAreCounted
<1>8. \A m \in Nodes, id \in TxIds :
         currentTX'[m][id] = IF m = n /\ id = new THEN tm ELSE currentTX[m][id]
  BY <1>1, <1>2, <1>4 DEF TypeOK
<1>9. \A m \in Nodes : Rows(m)' = Rows(m)
  BY <1>2 DEF Rows
<1>10. KeepsCounted /\ Counted(new)'
  <2>1. \A m \in Nodes : sequence[m] \in 1..MaxSeq
    BY <1>1 DEF TypeOK
  <2>2. \A m \in Nodes :
           sequence'[m] = IF m = n THEN sequence[n] + 1 ELSE sequence[m]
    BY <1>1, <1>2 DEF TypeOK
  <2>3. \A id \in TxIds : id[1] \in Nodes /\ id[2] \in Int
    BY DEF TxIds
  <2>4. ASSUME NEW id \in TxIds, Counted(id) PROVE Counted(id)'
    <3>1. sequence[id[1]] \in Int /\ sequence'[id[1]] \in Int
      BY <1>3, <2>1, <2>2, <2>3
    <3>2. sequence[id[1]] <= sequence'[id[1]]
      BY <1>3, <2>1, <2>2, <2>3
    <3>3. id[2] \in Int
      BY <2>3
    <3>4. up' = up
      BY <1>2
    <3> QED
      BY <2>4, <3>1, <3>2, <3>3, <3>4 DEF Counted
  <2>5. Counted(new)'
    BY <1>3, <1>4, <2>2 DEF Counted
  <2> QED
    BY <2>4, <2>5 DEF KeepsCounted
<1>11. \A id \in TxIds : id # new => PayerTm(id)' = PayerTm(id)
  BY <1>1, <1>8 DEF PayerTm, ElementsTyped
<1>12. IdsAreCounted'
  <2>1. ASSUME NEW m \in Nodes, NEW id \in TxIds, currentTX'[m][id] # NoTM
        PROVE  Counted(id)'
    <3>1. CASE id = new
      BY <1>10, <3>1
    <3>2. CASE id # new
      <4>1. Counted(id)
        BY <2>1, <3>2, <1>8 DEF Safe, IdsAreCounted
      <4> QED
        BY <4>1, <1>10 DEF KeepsCounted
    <3> QED
      BY <3>1, <3>2
  <2>2. \A f, t \in Nodes : \A item \in Range(net'[f][t]) : Counted(item.tx)'
    BY <1>1, <1>2, <1>10 DEF Safe, IdsAreCounted, KeepsCounted, ElementsTyped
  <2>3. \A m \in Nodes : \A row \in Rows(m)' : Counted(row.tx)'
    BY <1>1, <1>9, <1>10 DEF Safe, IdsAreCounted, KeepsCounted, ElementsTyped
  <2> QED
    BY <2>1, <2>2, <2>3 DEF IdsAreCounted
<1>13. RolesFollowIds'
  BY <1>2, <1>4, <1>6, <1>8 DEF Safe, RolesFollowIds
<1>14. ItemsGoTheRightWay' /\ OneQuery' /\ BookedOnce'
  BY <1>2 DEF Safe, ItemsGoTheRightWay, OneQuery, BookedOnce, RightDirection
<1>15. CoordinatorAgrees'
  <2>1. ASSUME NEW f \in Nodes, NEW t \in Nodes, NEW item \in Range(net[f][t]),
               item.phase = "QUERY"
        PROVE  Agrees(PayerTm(item.tx)', t, item.amount)
    BY <2>1, <1>1, <1>7, <1>11 DEF Safe, CoordinatorAgrees, ElementsTyped
  <2>2. ASSUME NEW m \in Nodes, NEW id \in TxIds,
               currentTX'[m][id].role = "cohorte"
        PROVE  Agrees(PayerTm(id)', m, currentTX'[m][id].amount)
    <3>1. id # new /\ currentTX'[m][id] = currentTX[m][id]
      BY <2>2, <1>6, <1>7, <1>8
    <3> QED
      BY <2>2, <3>1, <1>11 DEF Safe, CoordinatorAgrees
  <2> QED
    BY <1>2, <2>1, <2>2 DEF CoordinatorAgrees
<1>16. RowsAreTrue'
  <2> SUFFICES ASSUME NEW m \in Nodes, NEW row \in Rows(m)
               PROVE  CreditRow(m, row)' /\ DebitRow(m, row)'
    BY <1>9 DEF RowsAreTrue
  <2>1. CreditRow(m, row) /\ DebitRow(m, row)
    BY DEF Safe, RowsAreTrue
  <2>2. row.tx \in TxIds /\ row.tx # new /\ row.peer \in Nodes
    BY <1>1, <1>7 DEF ElementsTyped
  <2> QED
    BY <2>1, <2>2, <1>2, <1>8, <1>9, <1>11 DEF CreditRow, DebitRow
<1>17. AckMeansBooked'
  <2> SUFFICES ASSUME NEW f \in Nodes, NEW t \in Nodes,
                      NEW item \in Range(net[f][t]), item.phase = "ACK_COMMIT",
                      currentTX'[t][item.tx].role = "coordinator"
               PROVE  /\ currentTX'[t][item.tx].peer = f
                      /\ \/ LogRow(t, item.tx, currentTX'[t][item.tx].amount)
                               \in Rows(f)
                         \/ <<f, t>> \in torn
    BY <1>2, <1>9 DEF AckMeansBooked, LogRow
  <2>1. currentTX'[t][item.tx] = currentTX[t][item.tx]
    BY <1>1, <1>7, <1>8 DEF ElementsTyped
  <2> QED
    BY <2>1 DEF Safe, AckMeansBooked
<1>18. QueryIsFirst'
  <2> SUFFICES ASSUME NEW f \in Nodes, NEW t \in Nodes,
                      NEW item \in Range(net[f][t]), item.phase = "QUERY"
               PROVE  currentTX'[t][item.tx] = NoTM /\ Unbooked(t, item.tx)'
    BY <1>2 DEF QueryIsFirst
  <2> QED
    BY <1>1, <1>7, <1>8, <1>9 DEF Safe, QueryIsFirst, ElementsTyped, Unbooked
<1>19. CohorteBooksOnce'
  BY <1>6, <1>8, <1>9 DEF Safe, CohorteBooksOnce, Unbooked
<1> QED
  BY <1>12, <1>13, <1>14, <1>15, <1>16, <1>17, <1>18, <1>19 DEF Safe

\* A coordinator that did not query yet is the only trace of its payment.
LEMMA NotQueried ==
    ASSUME Safe, NEW n \in Nodes, NEW id \in TxIds,
           currentTX[n][id].role = "coordinator", ~currentTX[n][id].queried
    PROVE  /\ id[1] = n
           /\ \A f, t \in Nodes : \A item \in Range(net[f][t]) :
                 item.phase = "QUERY" => item.tx # id
           /\ \A m \in Nodes : currentTX[m][id].role # "cohorte"
           /\ \A m \in Nodes : \A row \in Rows(m) : row.tx # id
<1>1. id[1] = n
  BY DEF Safe, RolesFollowIds
<1>2. \A p \in Nodes : \A amount : ~Agrees(PayerTm(id), p, amount)
  BY <1>1 DEF Agrees, PayerTm
<1>3. \A f, t \in Nodes : \A item \in Range(net[f][t]) :
         item.phase = "QUERY" => item.tx # id
  BY <1>2 DEF Safe, CoordinatorAgrees
<1>4. \A m \in Nodes : currentTX[m][id].role # "cohorte"
  BY <1>2 DEF Safe, CoordinatorAgrees
<1>5. ASSUME NEW m \in Nodes, NEW row \in Rows(m), row.tx = id
      PROVE  FALSE
  <2>1. CreditRow(m, row) /\ DebitRow(m, row)
    BY DEF Safe, RowsAreTrue
  <2>2. CASE m = n
    BY <1>1, <1>5, <2>1, <2>2 DEF DebitRow
  <2>3. CASE m # n
    BY <1>1, <1>2, <1>5, <2>1, <2>3 DEF CreditRow
  <2> QED
    BY <2>2, <2>3
<1> QED
  BY <1>1, <1>3, <1>4, <1>5

\* Sending an item without taking one.
LEMMA SendEffect ==
    ASSUME TypeOK, NEW n \in Nodes, NEW to \in Nodes, NEW item \in Items,
           net' = [net EXCEPT ![n][to] = Post(to, @, item)]
    PROVE  /\ OnlyAdds(n, to, item)
           /\ OneQuery /\ (\A old \in Range(net[n][to]) :
                  old.phase = "QUERY" => old.tx # item.tx) => OneQuery'
<1>1. \A f, t \in Nodes : net[f][t] \in Seq(Items)
  BY DEF TypeOK
<1>2. \A f, t \in Nodes :
         net'[f][t] = IF f = n /\ t = to THEN Post(to, net[n][to], item)
                      ELSE net[f][t]
  BY DEF TypeOK
<1>3. /\ Range(Post(to, net[n][to], item)) \subseteq Range(net[n][to]) \cup {item}
      /\ \A i \in DOMAIN Post(to, net[n][to], item) :
            \/ /\ i \in DOMAIN net[n][to]
               /\ Post(to, net[n][to], item)[i] = net[n][to][i]
            \/ /\ Post(to, net[n][to], item)[i] = item
               /\ i = Len(net[n][to]) + 1
  BY <1>1, PostEffect
<1>4. OnlyAdds(n, to, item)
  <2> SUFFICES ASSUME NEW f \in Nodes, NEW t \in Nodes
               PROVE  Range(net'[f][t]) \subseteq Range(net[f][t]) \cup
                          (IF f = n /\ t = to THEN {item} ELSE {})
    BY DEF OnlyAdds
  <2>1. CASE f = n /\ t = to
    BY <1>2, <1>3, <2>1
  <2>2. CASE ~(f = n /\ t = to)
    BY <1>2, <2>2
  <2> QED
    BY <2>1, <2>2
<1>5. ASSUME OneQuery,
             \A old \in Range(net[n][to]) : old.phase = "QUERY" => old.tx # item.tx
      PROVE  OneQuery'
  <2> SUFFICES ASSUME NEW f \in Nodes, NEW t \in Nodes,
                      NEW i \in DOMAIN net'[f][t], NEW j \in DOMAIN net'[f][t],
                      net'[f][t][i].phase = "QUERY", net'[f][t][j].phase = "QUERY",
                      net'[f][t][i].tx = net'[f][t][j].tx
               PROVE  i = j
    BY DEF OneQuery
  <2>1. CASE f = n /\ t = to
    <3>1. \A k \in DOMAIN net'[f][t] :
             \/ k \in DOMAIN net[f][t] /\ net'[f][t][k] = net[f][t][k]
             \/ net'[f][t][k] = item /\ k = Len(net[f][t]) + 1
      BY <1>2, <1>3, <2>1
    <3>2. \A k \in DOMAIN net[f][t] : net[f][t][k] \in Range(net[f][t])
      BY DEF Range
    <3>3. \A k \in DOMAIN net[f][t] :
             net[f][t][k].phase = "QUERY" => net[f][t][k].tx # item.tx
      BY <1>5, <2>1, <3>2
    <3> QED
      BY <1>5, <3>1, <3>3 DEF OneQuery
  <2>2. CASE ~(f = n /\ t = to)
    <3>1. net'[f][t] = net[f][t]
      BY <1>2, <2>2
    <3> QED
      BY <1>5, <3>1 DEF OneQuery
  <2> QED
    BY <2>1, <2>2
<1> QED
  BY <1>4, <1>5

\* init() sends the QUERY, or gives the payment up.
LEMMA StartPaymentSafe ==
    ASSUME Safe, TypeOK', NEW n \in Nodes, NEW id \in TxIds,
           StartPayment(n, id)
    PROVE  Safe'
<1>1. TypeOK /\ ElementsTyped
  BY ElementTypes DEF Safe
<1>2. PICK tm \in Managers :
          tm = currentTX[n][id] /\ tm.role = "coordinator" /\ ~tm.queried
  BY <1>1 DEF StartPayment, ElementsTyped
<1>3. UNCHANGED <<txlog, sequence, up, torn>>
  BY DEF StartPayment
<1>4. KeepsCounted
  BY <1>3, KeepsIds
<1>5. CASE tm.avail < tm.amount
  <2>1. Forget(n, id) /\ UNCHANGED net
    BY <1>2, <1>5 DEF StartPayment
  <2>2. OnlyForgets
    BY <1>1, <2>1, ForgetForgets
  <2>3. OnlyAnswersAdded /\ OneQuery'
    BY <2>1 DEF Safe, OnlyAnswersAdded, OneQuery
  <2> QED
    BY <1>3, <1>4, <2>2, <2>3, HarmlessStep
<1>6. CASE ~(tm.avail < tm.amount)
  <2>1. /\ currentTX' = [currentTX EXCEPT ![n][id].queried = TRUE]
        /\ net' = [net EXCEPT ![n][tm.peer] =
                      Post(tm.peer, @, Item("QUERY", id, tm.amount))]
    BY <1>2, <1>6 DEF StartPayment
  <2>2. /\ tm.peer \in Nodes /\ tm.amount \in Int /\ id[1] = n
        /\ tm.peer # n /\ tm.amount \in Amounts
    BY <1>2, ManagerTypes DEF Safe, RolesFollowIds
  <2>3. PICK query \in Items :
            /\ query = Item("QUERY", id, tm.amount)
            /\ query.phase = "QUERY" /\ query.tx = id /\ query.amount = tm.amount
    <3>1. Item("QUERY", id, tm.amount) \in Items
      BY <2>2 DEF Item, Items, TxPhases
    <3>2. /\ Item("QUERY", id, tm.amount).phase = "QUERY"
          /\ Item("QUERY", id, tm.amount).tx = id
          /\ Item("QUERY", id, tm.amount).amount = tm.amount
      BY DEF Item
    <3> QED
      BY <3>1, <3>2
  <2>4. PICK to \in Nodes : to = tm.peer
    BY <2>2
  <2>5. /\ \A f, t \in Nodes : \A item \in Range(net[f][t]) :
              item.phase = "QUERY" => item.tx # id
        /\ \A m \in Nodes : currentTX[m][id].role # "cohorte"
        /\ \A m \in Nodes : \A row \in Rows(m) : row.tx # id
    BY <1>2, NotQueried
  <2>6. net' = [net EXCEPT ![n][to] = Post(to, @, query)]
    BY <2>1, <2>3, <2>4
  <2>7. OnlyAdds(n, to, query) /\ OneQuery'
    <3>1. OneQuery /\ \A old \in Range(net[n][to]) :
                         old.phase = "QUERY" => old.tx # query.tx
      BY <2>3, <2>5 DEF Safe
    <3> QED
      BY <1>1, <2>6, <3>1, SendEffect
  <2>8. \A f, t \in Nodes : \A item \in Range(net'[f][t]) :
           item \in Range(net[f][t]) \/ (f = n /\ t = to /\ item = query)
    BY <2>7 DEF OnlyAdds
  <2>9. /\ \A m \in Nodes, j \in TxIds :
              ~(m = n /\ j = id) => currentTX'[m][j] = currentTX[m][j]
        /\ currentTX'[n][id] = [tm EXCEPT !.queried = TRUE]
    BY <1>1, <1>2, <2>1 DEF TypeOK
  <2>10. /\ currentTX'[n][id].role = "coordinator"
         /\ currentTX'[n][id].peer = tm.peer
         /\ currentTX'[n][id].amount = tm.amount
         /\ currentTX'[n][id].queried
    BY <1>2, <2>9 DEF Managers, NoTM
  <2>11. \A m \in Nodes : Rows(m)' = Rows(m)
    BY <1>3 DEF Rows
  <2>12. \A j \in TxIds : j # id => PayerTm(j)' = PayerTm(j)
    BY <1>1, <2>9 DEF PayerTm, ElementsTyped
  <2>13. PayerTm(id)' = currentTX'[n][id]
    BY <2>2 DEF PayerTm
  <2>14. IdsAreCounted'
    <3>1. Counted(id)
      BY <1>2 DEF Safe, IdsAreCounted, NoTM
    <3>2. \A j \in TxIds : Counted(j) => Counted(j)'
      BY <1>4 DEF KeepsCounted
    <3>3. \A m \in Nodes, j \in TxIds : currentTX'[m][j] # NoTM => Counted(j)
      BY <2>9, <3>1 DEF Safe, IdsAreCounted
    <3>4. \A f, t \in Nodes : \A item \in Range(net'[f][t]) :
             item.tx \in TxIds /\ Counted(item.tx)
      BY <1>1, <2>3, <2>8, <3>1 DEF Safe, IdsAreCounted, ElementsTyped
    <3>5. \A m \in Nodes : \A row \in Rows(m)' : row.tx \in TxIds /\ Counted(row.tx)
      BY <1>1, <2>11 DEF Safe, IdsAreCounted, ElementsTyped
    <3> QED
      BY <3>2, <3>3, <3>4, <3>5 DEF IdsAreCounted
  <2>23. \A m \in Nodes, j \in TxIds :
            currentTX'[m][j].role = "cohorte" =>
                j # id /\ currentTX'[m][j] = currentTX[m][j]
    <3> TAKE m \in Nodes, j \in TxIds
    <3>1. CASE m = n /\ j = id
      BY <2>10, <3>1
    <3>2. CASE ~(m = n /\ j = id)
      BY <2>5, <2>9, <3>2
    <3> QED
      BY <3>1, <3>2
  <2>15. RolesFollowIds'
    <3> SUFFICES ASSUME NEW m \in Nodes, NEW j \in TxIds
                 PROVE  LET now == currentTX'[m][j]
                        IN /\ now.role = "coordinator" =>
                                 /\ j[1] = m /\ now.peer # m
                                 /\ now.amount \in Amounts
                           /\ now.role = "cohorte" =>
                                 /\ j[1] = now.peer /\ now.peer # m
                                 /\ now.amount \in Amounts
      BY DEF RolesFollowIds
    <3>1. CASE m = n /\ j = id
      BY <2>2, <2>10, <3>1
    <3>2. CASE ~(m = n /\ j = id)
      BY <2>9, <3>2 DEF Safe, RolesFollowIds
    <3> QED
      BY <3>1, <3>2
  <2>16. ItemsGoTheRightWay'
    <3>1. RightDirection(n, to, query)
      BY <2>2, <2>3, <2>4 DEF RightDirection
    <3> QED
      BY <2>8, <3>1 DEF Safe, ItemsGoTheRightWay, RightDirection
  <2>17. CoordinatorAgrees'
    <3>1. ASSUME NEW f \in Nodes, NEW t \in Nodes, NEW item \in Range(net'[f][t]),
                 item.phase = "QUERY"
          PROVE  Agrees(PayerTm(item.tx)', t, item.amount)
      <4>1. CASE item \in Range(net[f][t])
        BY <1>1, <2>5, <2>12, <3>1, <4>1
           DEF Safe, CoordinatorAgrees, ElementsTyped
      <4>2. CASE f = n /\ t = to /\ item = query
        BY <2>3, <2>4, <2>10, <2>13, <4>2 DEF Agrees
      <4> QED
        BY <2>8, <4>1, <4>2
    <3>2. ASSUME NEW m \in Nodes, NEW j \in TxIds,
                 currentTX'[m][j].role = "cohorte"
          PROVE  Agrees(PayerTm(j)', m, currentTX'[m][j].amount)
      <4>1. j # id /\ currentTX'[m][j] = currentTX[m][j]
        BY <2>23, <3>2
      <4> QED
        BY <2>12, <3>2, <4>1 DEF Safe, CoordinatorAgrees
    <3> QED
      BY <3>1, <3>2 DEF CoordinatorAgrees
  <2>18. RowsAreTrue'
    <3> SUFFICES ASSUME NEW m \in Nodes, NEW row \in Rows(m)
                 PROVE  CreditRow(m, row)' /\ DebitRow(m, row)'
      BY <2>11 DEF RowsAreTrue
    <3>1. CreditRow(m, row) /\ DebitRow(m, row)
      BY DEF Safe, RowsAreTrue
    <3>2. row.tx \in TxIds /\ row.tx # id /\ row.peer \in Nodes
      BY <1>1, <2>5 DEF ElementsTyped
    <3> QED
      BY <1>3, <2>9, <2>11, <2>12, <3>1, <3>2 DEF CreditRow, DebitRow
  <2>19. AckMeansBooked'
    <3> SUFFICES ASSUME NEW f \in Nodes, NEW t \in Nodes,
                        NEW item \in Range(net'[f][t]), item.phase = "ACK_COMMIT",
                        currentTX'[t][item.tx].role = "coordinator"
                 PROVE  /\ currentTX'[t][item.tx].peer = f
                        /\ \/ LogRow(t, item.tx, currentTX'[t][item.tx].amount)
                                 \in Rows(f)
                           \/ <<f, t>> \in torn
      BY <1>3, <2>11 DEF AckMeansBooked, LogRow
    <3>1. item \in Range(net[f][t]) /\ item.tx \in TxIds
      BY <1>1, <2>3, <2>8 DEF ElementsTyped
    <3>2. /\ currentTX[t][item.tx].role = "coordinator"
          /\ currentTX'[t][item.tx].peer = currentTX[t][item.tx].peer
          /\ currentTX'[t][item.tx].amount = currentTX[t][item.tx].amount
      BY <1>2, <2>9, <2>10, <3>1, ZenonT(40)
    <3> QED
      BY <3>1, <3>2 DEF Safe, AckMeansBooked
  <2>20. QueryIsFirst'
    <3> SUFFICES ASSUME NEW f \in Nodes, NEW t \in Nodes,
                        NEW item \in Range(net'[f][t]), item.phase = "QUERY"
                 PROVE  currentTX'[t][item.tx] = NoTM /\ Unbooked(t, item.tx)'
      BY DEF QueryIsFirst
    <3>1. CASE item \in Range(net[f][t])
      BY <1>1, <2>5, <2>9, <2>11, <3>1
         DEF Safe, QueryIsFirst, ElementsTyped, Unbooked
    <3>2. CASE f = n /\ t = to /\ item = query
      <4>1. currentTX[to][id].role \notin {"cohorte", "coordinator"}
        BY <2>2, <2>4, <2>5 DEF Safe, RolesFollowIds
      <4>2. currentTX[to][id] \in Managers
        BY <1>1 DEF ElementsTyped
      <4>3. currentTX[to][id] = NoTM
        BY <4>1, <4>2 DEF Managers
      <4>4. currentTX'[to][id] = NoTM
        BY <2>2, <2>4, <2>9, <4>3
      <4>5. Unbooked(to, id)'
        BY <2>5, <2>11 DEF Unbooked
      <4> QED
        BY <2>3, <3>2, <4>4, <4>5
    <3> QED
      BY <2>8, <3>1, <3>2
  <2>21. CohorteBooksOnce'
    BY <2>11, <2>23 DEF Safe, CohorteBooksOnce, Unbooked
  <2>22. BookedOnce'
    BY <1>3 DEF Safe, BookedOnce
  <2> QED
    BY <2>7, <2>14, <2>15, <2>16, <2>17, <2>18, <2>19, <2>20, <2>21, <2>22
       DEF Safe
<1> QED
  BY <1>5, <1>6

\* A commit that does not fail adds one row to one log.
LEMMA BookEffect ==
    ASSUME TypeOK, NEW n \in Nodes, NEW p \in Nodes,
           NEW record, NEW row \in LogRows, Book(2, n, p, record, row)
    PROVE  /\ peers' = [peers EXCEPT ![n][p] = record]
           /\ torn' = torn
           /\ Rows(n)' = Rows(n) \cup {row}
           /\ \A m \in Nodes : m # n => Rows(m)' = Rows(m)
           /\ BookedOnce /\ Unbooked(n, row.tx) => BookedOnce'
<1>2. /\ peers' = [peers EXCEPT ![n][p] = record]
      /\ txlog' = [txlog EXCEPT ![n] = Append(@, row)]
      /\ torn' = torn
  BY DEF Book
<1>3. txlog[n] \in Seq(LogRows)
  BY DEF TypeOK
<1>4. /\ txlog'[n] = Append(txlog[n], row)
      /\ \A m \in Nodes : m # n => txlog'[m] = txlog[m]
  BY <1>2 DEF TypeOK
<1>5. /\ Range(Append(txlog[n], row)) = Range(txlog[n]) \cup {row}
      /\ DOMAIN Append(txlog[n], row) = 1..(Len(txlog[n]) + 1)
      /\ \A i \in 1..Len(txlog[n]) : Append(txlog[n], row)[i] = txlog[n][i]
      /\ Append(txlog[n], row)[Len(txlog[n]) + 1] = row
      /\ DOMAIN txlog[n] = 1..Len(txlog[n])
      /\ Len(txlog[n]) \in Nat
  BY <1>3, AppendToQueue
<1>6. Rows(n)' = Rows(n) \cup {row} /\ \A m \in Nodes : m # n => Rows(m)' = Rows(m)
  BY <1>4, <1>5 DEF Rows
<1>7. ASSUME BookedOnce, Unbooked(n, row.tx) PROVE BookedOnce'
  <2> SUFFICES ASSUME NEW m \in Nodes,
                      NEW i \in DOMAIN txlog'[m], NEW j \in DOMAIN txlog'[m],
                      txlog'[m][i].tx = txlog'[m][j].tx
               PROVE  i = j
    BY DEF BookedOnce
  <2>1. CASE m # n
    <3>1. txlog'[m] = txlog[m]
      BY <1>4, <2>1
    <3> QED
      BY <1>7, <3>1 DEF BookedOnce
  <2>2. CASE m = n
    <3>1. \A k \in 1..Len(txlog[n]) : txlog[n][k].tx # row.tx
      BY <1>5, <1>7 DEF Unbooked, Rows, Range
    <3>2. i \in 1..(Len(txlog[n]) + 1) /\ j \in 1..(Len(txlog[n]) + 1)
      BY <1>4, <1>5, <2>2
    <3>3. PICK len \in Nat : len = Len(txlog[n])
      BY <1>5
    <3>4. txlog'[m] = Append(txlog[n], row)
      BY <1>4, <2>2
    <3>5. \A k \in 1..(len + 1) :
             \/ k \in 1..len /\ txlog'[m][k] = txlog[n][k]
             \/ k = len + 1 /\ txlog'[m][k] = row
      <4> TAKE k \in 1..(len + 1)
      <4>1. k \in 1..len \/ k = len + 1
        BY <3>3
      <4> QED
        BY <1>5, <3>3, <3>4, <4>1
    <3>6. \A k, l \in 1..len : txlog[n][k].tx = txlog[n][l].tx => k = l
      BY <1>5, <1>7, <3>3 DEF BookedOnce
    <3> QED
      BY <3>1, <3>2, <3>3, <3>5, <3>6
  <2> QED
    BY <2>1, <2>2
<1> QED
  BY <1>2, <1>6, <1>7

\* The queue of an order that was taken holds no other one like it.
LEMMA QueryTaken ==
    ASSUME Safe, NEW n \in Nodes, NEW p \in Nodes, Receives(n, p, {"QUERY"}),
           NEW item \in Range(Tail(net[p][n])), item.phase = "QUERY"
    PROVE  item.tx # Head(net[p][n]).tx
<1> DEFINE q == net[p][n]
<1>1. q \in Seq(Items) /\ q # <<>> /\ Head(q).phase = "QUERY"
  BY DEF Safe, TypeOK, Receives
<1>2. /\ Tail(q) \in Seq(Items)
      /\ Len(Tail(q)) = Len(q) - 1
      /\ \A i \in 1..Len(Tail(q)) : Tail(q)[i] = q[i + 1]
  BY <1>1, TailOfQueue
<1>3. /\ DOMAIN q = 1..Len(q) /\ Len(q) \in Nat
      /\ DOMAIN Tail(q) = 1..Len(Tail(q))
      /\ Head(q) = q[1]
  BY <1>1, <1>2, LenProperties
<1>4. PICK i \in 1..Len(Tail(q)) : item = Tail(q)[i]
  BY <1>3 DEF Range
<1>5. item = q[i + 1] /\ i + 1 \in DOMAIN q /\ 1 \in DOMAIN q /\ i + 1 # 1
  BY <1>2, <1>3, <1>4
<1>6. OneQuery
  BY DEF Safe
<1>7. \A j, k \in DOMAIN q :
         q[j].phase = "QUERY" /\ q[k].phase = "QUERY" /\ q[j].tx = q[k].tx => j = k
  BY <1>6 DEF OneQuery
<1> QED
  BY <1>1, <1>3, <1>5, <1>7

\* The vote: no, or yes with a manager that will book the amount.
LEMMA CohorteQuerySafe ==
    ASSUME Safe, TypeOK', NEW n \in Nodes, NEW p \in Nodes, CohorteQuery(n, p)
    PROVE  Safe'
<1>1. TypeOK /\ ElementsTyped
  BY ElementTypes DEF Safe
<1>2. /\ Receives(n, p, {"QUERY"}) /\ Tm(n, p) = NoTM
      /\ UNCHANGED <<txlog, sequence, up, torn>>
  BY DEF CohorteQuery
<1>3. /\ net[p][n] # <<>> /\ Head(net[p][n]) \in Range(net[p][n])
      /\ Head(net[p][n]).phase \in {"QUERY"}
      /\ Head(net[p][n]).tx \in TxIds
      /\ RightDirection(p, n, Head(net[p][n]))
      /\ Counted(Head(net[p][n]).tx)
      /\ Tm(n, p) = currentTX[n][Head(net[p][n]).tx]
  BY <1>2, ReceivedItem
<1>4. PICK item \in Items :
          /\ item = Head(net[p][n]) /\ item \in Range(net[p][n])
          /\ item.phase = "QUERY" /\ item.tx \in TxIds
          /\ RightDirection(p, n, item) /\ Counted(item.tx)
          /\ currentTX[n][item.tx] = NoTM
  BY <1>1, <1>2, <1>3 DEF ElementsTyped
<1>5. PICK id \in TxIds : id = item.tx
  BY <1>4
<1>6. n # p /\ id[1] = p /\ item.amount \in Amounts
  BY <1>4, <1>5 DEF RightDirection
<1>7. KeepsCounted
  BY <1>2, KeepsIds
<1>8. NoTM.role = "none"
  BY DEF NoTM
<1>9. \A phase \in {"VOTE_YES", "VOTE_NO"} :
         RightDirection(n, p, Reply(phase, id))
  BY <1>6 DEF RightDirection, Reply, Item
<1>10. CASE ~PayerHasFunds(n, p, item.amount)
  <2>1. ConsumeAndSend(n, p, p, Reply("VOTE_NO", id)) /\ UNCHANGED currentTX
    BY <1>4, <1>5, <1>10 DEF CohorteQuery
  <2>2. OnlyAnswersAdded /\ OneQuery'
    BY <1>3, <1>4, <1>5, <1>9, <2>1, AnswerSent
  <2>3. OnlyForgets
    BY <2>1 DEF OnlyForgets
  <2> QED
    BY <1>2, <1>7, <2>2, <2>3, HarmlessStep
<1>11. CASE PayerHasFunds(n, p, item.amount)
  <2>1. /\ ConsumeAndSend(n, p, p, Reply("VOTE_YES", id))
        /\ currentTX' = [currentTX EXCEPT ![n][id] = Cohorte(p, item.amount)]
    BY <1>4, <1>5, <1>11 DEF CohorteQuery
  <2>2. /\ OnlyAnswersAdded /\ OneQuery'
        /\ \A f, t \in Nodes : \A other \in Range(net'[f][t]) :
              \/ other \in Range(net[f][t])
              \/ other.phase \notin {"QUERY", "ACK_COMMIT"}
    BY <1>3, <1>4, <1>5, <1>9, <2>1, AnswerSent
  <2>3. net'[p][n] = Tail(net[p][n])
    <3>1. PICK yes \in Items : yes = Reply("VOTE_YES", id)
      BY <1>1, ReplyTypes DEF TxPhases
    <3>2. ConsumeAndSend(n, p, p, yes)
      BY <2>1, <3>1
    <3> QED
      BY <1>1, <1>3, <1>6, <3>2, ConsumeAndSendEffect
  <2>4. /\ currentTX'[n][id] = Cohorte(p, item.amount)
        /\ \A m \in Nodes, j \in TxIds :
              ~(m = n /\ j = id) => currentTX'[m][j] = currentTX[m][j]
    BY <1>1, <2>1 DEF TypeOK
  <2>5. /\ currentTX'[n][id].role = "cohorte"
        /\ currentTX'[n][id].peer = p
        /\ currentTX'[n][id].amount = item.amount
    BY <2>4 DEF Cohorte
  <2>6. \A m \in Nodes, j \in TxIds :
           currentTX'[m][j].role = "coordinator" =>
               currentTX'[m][j] = currentTX[m][j]
    <3> TAKE m \in Nodes, j \in TxIds
    <3>1. CASE m = n /\ j = id
      BY <2>5, <3>1
    <3>2. CASE ~(m = n /\ j = id)
      BY <2>4, <3>2
    <3> QED
      BY <3>1, <3>2
  <2>7. \A m \in Nodes : Rows(m)' = Rows(m)
    BY <1>2 DEF Rows
  <2>8. \A j \in TxIds : PayerTm(j)' = PayerTm(j)
    BY <1>1, <1>6, <2>4 DEF PayerTm, ElementsTyped
  <2>9. \A f, t \in Nodes : \A other \in Range(net'[f][t]) :
           other.phase \in {"QUERY", "ACK_COMMIT"} =>
               other \in Range(net[f][t]) /\ other.tx \in TxIds
    BY <1>1, <2>2 DEF ElementsTyped
  <2>10. IdsAreCounted'
    <3>1. \A j \in TxIds : Counted(j) => Counted(j)'
      BY <1>7 DEF KeepsCounted
    <3>2. Counted(id)
      BY <1>4, <1>5
    <3>3. \A m \in Nodes, j \in TxIds : currentTX'[m][j] # NoTM => Counted(j)
      BY <2>4, <3>2 DEF Safe, IdsAreCounted
    <3>4. \A f, t \in Nodes : \A other \in Range(net'[f][t]) : Counted(other.tx)
      BY <2>2 DEF Safe, IdsAreCounted, OnlyAnswersAdded
    <3>5. \A m \in Nodes : \A row \in Rows(m)' : row.tx \in TxIds /\ Counted(row.tx)
      BY <1>1, <2>7 DEF Safe, IdsAreCounted, ElementsTyped
    <3>6. ElementsTyped'
      BY ElementTypes, PTL
    <3>7. \A f, t \in Nodes : \A other \in Range(net'[f][t]) : other.tx \in TxIds
      BY <3>6 DEF ElementsTyped
    <3> QED
      BY <3>1, <3>3, <3>4, <3>5, <3>7 DEF IdsAreCounted
  <2>11. RolesFollowIds'
    <3> SUFFICES ASSUME NEW m \in Nodes, NEW j \in TxIds
                 PROVE  LET now == currentTX'[m][j]
                        IN /\ now.role = "coordinator" =>
                                 /\ j[1] = m /\ now.peer # m
                                 /\ now.amount \in Amounts
                           /\ now.role = "cohorte" =>
                                 /\ j[1] = now.peer /\ now.peer # m
                                 /\ now.amount \in Amounts
      BY DEF RolesFollowIds
    <3>1. CASE m = n /\ j = id
      BY <1>6, <2>5, <3>1
    <3>2. CASE ~(m = n /\ j = id)
      BY <2>4, <3>2 DEF Safe, RolesFollowIds
    <3> QED
      BY <3>1, <3>2
  <2>12. ItemsGoTheRightWay'
    BY <2>2 DEF Safe, ItemsGoTheRightWay, OnlyAnswersAdded, RightDirection
  <2>13. CoordinatorAgrees'
    <3>1. ASSUME NEW f \in Nodes, NEW t \in Nodes, NEW other \in Range(net'[f][t]),
                 other.phase = "QUERY"
          PROVE  Agrees(PayerTm(other.tx)', t, other.amount)
      BY <2>8, <2>9, <3>1 DEF Safe, CoordinatorAgrees
    <3>2. ASSUME NEW m \in Nodes, NEW j \in TxIds,
                 currentTX'[m][j].role = "cohorte"
          PROVE  Agrees(PayerTm(j)', m, currentTX'[m][j].amount)
      <4>1. CASE m = n /\ j = id
        <5>1. Agrees(PayerTm(item.tx), n, item.amount)
          BY <1>4 DEF Safe, CoordinatorAgrees
        <5> QED
          BY <1>5, <2>5, <2>8, <4>1, <5>1
      <4>2. CASE ~(m = n /\ j = id)
        BY <2>4, <2>8, <3>2, <4>2 DEF Safe, CoordinatorAgrees
      <4> QED
        BY <4>1, <4>2
    <3> QED
      BY <3>1, <3>2 DEF CoordinatorAgrees
  <2>14. RowsAreTrue'
    <3> SUFFICES ASSUME NEW m \in Nodes, NEW row \in Rows(m)
                 PROVE  CreditRow(m, row)' /\ DebitRow(m, row)'
      BY <2>7 DEF RowsAreTrue
    <3>1. CreditRow(m, row) /\ DebitRow(m, row)
      BY DEF Safe, RowsAreTrue
    <3>2. row.tx \in TxIds /\ row.peer \in Nodes
      BY <1>1 DEF ElementsTyped
    <3>3. CreditRow(m, row)'
      BY <2>8, <3>1, <3>2 DEF CreditRow
    <3>4. DebitRow(m, row)'
      BY <1>2, <2>6, <2>7, <3>1, <3>2 DEF DebitRow
    <3> QED
      BY <3>3, <3>4
  <2>15. AckMeansBooked'
    <3> SUFFICES ASSUME NEW f \in Nodes, NEW t \in Nodes,
                        NEW other \in Range(net'[f][t]), other.phase = "ACK_COMMIT",
                        currentTX'[t][other.tx].role = "coordinator"
                 PROVE  /\ currentTX'[t][other.tx].peer = f
                        /\ \/ LogRow(t, other.tx, currentTX'[t][other.tx].amount)
                                 \in Rows(f)
                           \/ <<f, t>> \in torn
      BY <1>2, <2>7 DEF AckMeansBooked, LogRow
    <3>1. other \in Range(net[f][t]) /\ other.tx \in TxIds
      BY <2>9
    <3> QED
      BY <2>6, <3>1 DEF Safe, AckMeansBooked
  <2>16. QueryIsFirst'
    <3> SUFFICES ASSUME NEW f \in Nodes, NEW t \in Nodes,
                        NEW other \in Range(net'[f][t]), other.phase = "QUERY"
                 PROVE  currentTX'[t][other.tx] = NoTM /\ Unbooked(t, other.tx)'
      BY DEF QueryIsFirst
    <3>1. other \in Range(net[f][t]) /\ other.tx \in TxIds
      BY <2>9
    <3>2. currentTX[t][other.tx] = NoTM /\ Unbooked(t, other.tx)
      BY <3>1 DEF Safe, QueryIsFirst
    <3>3. ~(t = n /\ other.tx = id)
      <4> SUFFICES ASSUME t = n, other.tx = id PROVE FALSE
        OBVIOUS
      <4>1. f = p
        BY <1>6, <3>1 DEF Safe, ItemsGoTheRightWay, RightDirection
      <4>2. other \in Range(Tail(net[p][n]))
        BY <2>3, <4>1
      <4> QED
        BY <1>2, <1>4, <1>5, <4>2, QueryTaken
    <3> QED
      BY <2>4, <2>7, <3>1, <3>2, <3>3 DEF Unbooked
  <2>17. CohorteBooksOnce'
    <3> SUFFICES ASSUME NEW m \in Nodes, NEW j \in TxIds,
                        currentTX'[m][j].role = "cohorte"
                 PROVE  Unbooked(m, j)'
      BY DEF CohorteBooksOnce
    <3>1. CASE m = n /\ j = id
      BY <1>4, <1>5, <2>7, <3>1 DEF Safe, QueryIsFirst, Unbooked
    <3>2. CASE ~(m = n /\ j = id)
      BY <2>4, <2>7, <3>2 DEF Safe, CohorteBooksOnce, Unbooked
    <3> QED
      BY <3>1, <3>2
  <2>18. BookedOnce'
    BY <1>2 DEF Safe, BookedOnce
  <2> QED
    BY <2>2, <2>10, <2>11, <2>12, <2>13, <2>14, <2>15, <2>16, <2>17, <2>18
       DEF Safe
<1> QED
  BY <1>10, <1>11

\* What a payee knows when it books.
CommitFacts(done, n, p, id, to, amount) ==
    /\ currentTX[n][id].role = "cohorte"
    /\ id[1] = to /\ to # n
    /\ Counted(id) /\ Unbooked(n, id)
    /\ Agrees(PayerTm(id), n, amount)
    /\ net[p][n] # <<>>
    /\ ConsumeAndSend(n, p, to, Reply("ACK_COMMIT", id))
    /\ Forget(n, id)
    /\ Book(done, n, to, Received(peers[n][to], amount), LogRow(to, id, amount))

\* The payee books what the payer committed to.
LEMMA CohorteCommitFacts ==
    ASSUME Safe, NEW n \in Nodes, NEW p \in Nodes, CohorteCommit(n, p)
    PROVE  \E done \in WritesDone, id \in TxIds, to \in Nodes, amount \in Amounts :
               CommitFacts(done, n, p, id, to, amount)
<1>1. PICK done \in WritesDone :
      /\ Receives(n, p, {"COMMIT"}) /\ Tm(n, p).role = "cohorte"
      /\ ConsumeAndSend(n, p, Tm(n, p).peer,
                        Reply("ACK_COMMIT", Head(net[p][n]).tx))
      /\ CommitReceiver(done, n, Tm(n, p).peer, Head(net[p][n]).tx, Tm(n, p).amount)
      /\ Forget(n, Head(net[p][n]).tx)
  BY DEF CohorteCommit
<1>2. /\ net[p][n] # <<>> /\ Head(net[p][n]).tx \in TxIds
      /\ Counted(Head(net[p][n]).tx)
      /\ Tm(n, p) = currentTX[n][Head(net[p][n]).tx]
      /\ Tm(n, p) \in Managers
  BY <1>1, ReceivedItem
<1>3. PICK id \in TxIds : id = Head(net[p][n]).tx
  BY <1>2
<1>4. currentTX[n][id] = Tm(n, p) /\ Counted(id)
  BY <1>2, <1>3
<1>5. PICK to \in Nodes : to = Tm(n, p).peer
  BY <1>1, <1>2, ManagerTypes
<1>6. /\ Tm(n, p).amount \in Amounts
      /\ id[1] = to /\ to # n
  BY <1>1, <1>4, <1>5 DEF Safe, RolesFollowIds
<1>7. PICK amount \in Amounts : amount = Tm(n, p).amount
  BY <1>6
<1>8. Unbooked(n, id)
  BY <1>1, <1>4 DEF Safe, CohorteBooksOnce
<1>9. Agrees(PayerTm(id), n, amount)
  BY <1>1, <1>4, <1>7 DEF Safe, CoordinatorAgrees
<1>10. Book(done, n, to, Received(peers[n][to], amount), LogRow(to, id, amount))
  BY <1>1, <1>3, <1>5, <1>7 DEF CommitReceiver
<1>11. CommitFacts(done, n, p, id, to, amount)
  BY <1>1, <1>2, <1>3, <1>4, <1>5, <1>6, <1>8, <1>9, <1>10 DEF CommitFacts
<1> QED
  BY <1>11

\* The commit of the payee: its row is what the acknowledgement stands for.
LEMMA CohorteCommitSafe ==
    ASSUME Safe, TypeOK', NEW n \in Nodes, NEW p \in Nodes, CohorteCommit(n, p)
    PROVE  Safe'
<1>1. TypeOK /\ ElementsTyped /\ NoTM.role = "none"
  BY ElementTypes DEF Safe, NoTM
<1>2. PICK done \in WritesDone, id \in TxIds, to \in Nodes, amount \in Amounts :
          CommitFacts(done, n, p, id, to, amount)
  BY CohorteCommitFacts
<1>3. /\ currentTX[n][id].role = "cohorte" /\ id[1] = to /\ to # n
      /\ Counted(id) /\ Unbooked(n, id) /\ Agrees(PayerTm(id), n, amount)
      /\ net[p][n] # <<>>
      /\ ConsumeAndSend(n, p, to, Reply("ACK_COMMIT", id))
      /\ Forget(n, id)
      /\ Book(done, n, to, Received(peers[n][to], amount), LogRow(to, id, amount))
  BY <1>2 DEF CommitFacts
<1>4. amount \in Int
  BY ConstantsAssumption DEF ConstantsAssumption
<1>5. PICK row \in LogRows :
          /\ row = LogRow(to, id, amount)
          /\ row.peer = to /\ row.tx = id /\ row.amount = amount
  <2>1. LogRow(to, id, amount) \in LogRows
    BY <1>4, ReplyTypes
  <2> QED
    BY <2>1 DEF LogRow
<1>6. PICK ack \in Items :
          ack = Reply("ACK_COMMIT", id) /\ ack.phase = "ACK_COMMIT" /\ ack.tx = id
  <2>1. Reply("ACK_COMMIT", id) \in Items
    BY ReplyTypes DEF TxPhases
  <2> QED
    BY <2>1 DEF Reply, Item
<1>7. PICK record : record = Received(peers[n][to], amount)
  OBVIOUS
<1>9. OnlyAdds(n, to, ack) /\ OneQuery'
  <2>1. ConsumeAndSend(n, p, to, ack) /\ OneQuery
    BY <1>3, <1>6 DEF Safe
  <2> QED
    BY <1>1, <1>3, <1>6, <2>1, ConsumeAndSendEffect
<1>10. \A f, t \in Nodes : \A item \in Range(net'[f][t]) :
          item \in Range(net[f][t]) \/ (f = n /\ t = to /\ item = ack)
  BY <1>9 DEF OnlyAdds
<1>11. OnlyForgets
  BY <1>1, <1>3, ForgetForgets
<1>12. KeepsCounted
  BY KeepsIds DEF CohorteCommit
<1>13. OnlyRepliesAdded
  <2>1. RightDirection(n, to, ack) /\ Counted(ack.tx) /\ ack.phase # "QUERY"
    BY <1>3, <1>6 DEF RightDirection
  <2> QED
    BY <1>10, <2>1 DEF OnlyRepliesAdded
<1>14. CASE done = 2
  <2>8. /\ Rows(n)' = Rows(n) \cup {row}
        /\ \A m \in Nodes : m # n => Rows(m)' = Rows(m)
        /\ BookedOnce' /\ torn' = torn
    <3>1. Book(2, n, to, record, row) /\ BookedOnce /\ Unbooked(n, row.tx)
      BY <1>3, <1>5, <1>7, <1>14 DEF Safe
    <3> QED
      BY <1>1, <3>1, BookEffect
  <2>14. /\ \A m \in Nodes, j \in TxIds :
               currentTX'[m][j] # NoTM => Counted(j)'
         /\ \A f, t \in Nodes : \A item \in Range(net'[f][t]) : Counted(item.tx)'
         /\ RolesFollowIds' /\ ItemsGoTheRightWay' /\ CoordinatorAgrees'
         /\ \A m \in Nodes : \A old \in Rows(m) :
               Counted(old.tx)' /\ CreditRow(m, old)' /\ DebitRow(m, old)'
    <3>1. \A m \in Nodes : Rows(m) \subseteq Rows(m)'
      BY <2>8
    <3> QED
      BY <3>1, <1>11, <1>12, <1>13, <2>8, ForgettingStep
  <2>15. \A m \in Nodes : \A any \in Rows(m)' :
            any \in Rows(m) \/ (m = n /\ any = row)
    BY <2>8
  <2>16. PayerTm(id)' \in {PayerTm(id), NoTM}
    BY <1>3, <1>11 DEF PayerTm, OnlyForgets
  <2>17. IdsAreCounted'
    <3>1. Counted(row.tx)'
      BY <1>3, <1>5, <1>12 DEF KeepsCounted
    <3> QED
      BY <2>14, <2>15, <3>1 DEF IdsAreCounted
  <2>18. RowsAreTrue'
    <3>1. CreditRow(n, row)'
      BY <1>1, <1>3, <1>5, <2>16 DEF CreditRow, Agrees
    <3>2. DebitRow(n, row)'
      BY <1>3, <1>5 DEF DebitRow
    <3> QED
      BY <2>14, <2>15, <3>1, <3>2 DEF RowsAreTrue
  <2>19. AckMeansBooked'
    <3> SUFFICES ASSUME NEW f \in Nodes, NEW t \in Nodes,
                        NEW item \in Range(net'[f][t]), item.phase = "ACK_COMMIT",
                        currentTX'[t][item.tx].role = "coordinator"
                 PROVE  /\ currentTX'[t][item.tx].peer = f
                        /\ \/ LogRow(t, item.tx, currentTX'[t][item.tx].amount)
                                 \in Rows(f)'
                           \/ <<f, t>> \in torn
      BY <2>8 DEF AckMeansBooked, LogRow
    <3>1. CASE item \in Range(net[f][t])
      <4>1. currentTX'[t][item.tx] = currentTX[t][item.tx]
        BY <1>1, <1>11, <3>1 DEF OnlyForgets, ElementsTyped
      <4> QED
        BY <2>8, <3>1, <4>1 DEF Safe, AckMeansBooked
    <3>2. CASE f = n /\ t = to /\ item = ack
      <4>1. currentTX'[to][id] = PayerTm(id)
        BY <1>1, <1>3, <1>6, <1>11, <3>2 DEF OnlyForgets, PayerTm
      <4>2. currentTX'[to][id].amount = amount /\ currentTX'[to][id].peer = n
        BY <1>3, <1>6, <3>2, <4>1 DEF Agrees
      <4>3. LogRow(to, id, amount) \in Rows(n)'
        BY <1>5, <2>8
      <4> QED
        BY <1>6, <3>2, <4>2, <4>3
    <3> QED
      BY <1>10, <3>1, <3>2
  <2>20. QueryIsFirst'
    <3> SUFFICES ASSUME NEW f \in Nodes, NEW t \in Nodes,
                        NEW item \in Range(net'[f][t]), item.phase = "QUERY"
                 PROVE  currentTX'[t][item.tx] = NoTM /\ Unbooked(t, item.tx)'
      BY DEF QueryIsFirst
    <3>1. item \in Range(net[f][t]) /\ item.tx \in TxIds
      BY <1>1, <1>6, <1>10 DEF ElementsTyped
    <3>2. currentTX[t][item.tx] = NoTM /\ Unbooked(t, item.tx)
      BY <3>1 DEF Safe, QueryIsFirst
    <3>3. ~(t = n /\ item.tx = id)
      BY <1>1, <1>3, <3>2
    <3> QED
      BY <1>5, <1>11, <2>15, <3>1, <3>2, <3>3 DEF OnlyForgets, Unbooked
  <2>21. CohorteBooksOnce'
    <3> SUFFICES ASSUME NEW m \in Nodes, NEW j \in TxIds,
                        currentTX'[m][j].role = "cohorte"
                 PROVE  Unbooked(m, j)'
      BY DEF CohorteBooksOnce
    <3>1. currentTX'[m][j] = currentTX[m][j]
      BY <1>1, <1>11 DEF OnlyForgets
    <3>2. ~(m = n /\ j = id)
      <4>1. currentTX'[n][id] = NoTM
        BY <1>1, <1>3 DEF Forget, TypeOK
      <4> QED
        BY <1>1, <4>1
    <3> QED
      BY <1>5, <2>15, <3>1, <3>2 DEF Safe, CohorteBooksOnce, Unbooked
  <2> QED
    BY <2>8, <1>9, <2>14, <2>17, <2>18, <2>19, <2>20, <2>21 DEF Safe
<1>15. CASE done # 2
  <2>1. done < 2
    BY <1>2, <1>15 DEF WritesDone
  <2>2. txlog' = txlog /\ torn \subseteq torn' /\ <<n, to>> \in torn'
    BY <1>3, <2>1 DEF Book
  <2>3. TornAck(n, to, id)
    <3>1. PayerTm(id)' \in {PayerTm(id), NoTM}
      BY <1>3, <1>11 DEF PayerTm, OnlyForgets
    <3>2. currentTX'[to][id] = PayerTm(id)'
      BY <1>3 DEF PayerTm
    <3> QED
      BY <1>1, <1>3, <2>2, <3>1, <3>2 DEF TornAck, Agrees
  <2>4. OnlyAnswersAdded
    <3>1. RightDirection(n, to, ack) /\ Counted(ack.tx)
      BY <1>3, <1>6 DEF RightDirection
    <3> QED
      BY <1>6, <1>10, <2>3, <3>1 DEF OnlyAnswersAdded
  <2> QED
    BY <1>9, <1>11, <1>12, <2>2, <2>4, HarmlessStep
<1> QED
  BY <1>14, <1>15

\* The process of a payee ends in its commit: its acknowledgement may be on
\* its way.
LEMMA CohorteTornSafe ==
    ASSUME Safe, TypeOK', NEW n \in Nodes, NEW p \in Nodes, CohorteTorn(n, p)
    PROVE  Safe'
<1> DEFINE tm == Tm(n, p)
<1> DEFINE sent == [net[n] EXCEPT ![tm.peer] =
                       Post(tm.peer, @, Reply("ACK_COMMIT", Head(net[p][n]).tx))]
<1>1. TypeOK /\ ElementsTyped /\ NoTM.role = "none"
  BY ElementTypes DEF Safe, NoTM
<1>2. PICK done \in 0..1 :
      /\ Receives(n, p, {"COMMIT"}) /\ tm.role = "cohorte"
      /\ Ends(n, sent)
      /\ CommitReceiver(done, n, tm.peer, Head(net[p][n]).tx, tm.amount)
  BY DEF CohorteTorn
<1>3. /\ Head(net[p][n]).tx \in TxIds /\ Counted(Head(net[p][n]).tx)
      /\ tm = currentTX[n][Head(net[p][n]).tx] /\ tm \in Managers
  BY <1>2, ReceivedItem
<1>4. PICK id \in TxIds :
          /\ id = Head(net[p][n]).tx /\ Counted(id)
          /\ currentTX[n][id] = tm
  BY <1>3
<1>5. PICK to \in Nodes : to = tm.peer
  BY <1>2, <1>3, ManagerTypes
<1>6. id[1] = to /\ to # n
  BY <1>2, <1>4, <1>5 DEF Safe, RolesFollowIds
<1>7. Agrees(PayerTm(id), n, tm.amount)
  BY <1>2, <1>4 DEF Safe, CoordinatorAgrees
<1>8. PICK ack \in Items :
          ack = Reply("ACK_COMMIT", id) /\ ack.phase = "ACK_COMMIT" /\ ack.tx = id
  <2>1. Reply("ACK_COMMIT", id) \in Items
    BY ReplyTypes DEF TxPhases
  <2> QED
    BY <2>1 DEF Reply, Item
<1>9. txlog' = txlog /\ torn \subseteq torn' /\ <<n, to>> \in torn'
  <2>1. done < 2
    BY <1>2
  <2>2. /\ txlog' = IF done < 2 THEN txlog ELSE [txlog EXCEPT ![n] =
                        Append(@, LogRow(to, id, tm.amount))]
        /\ torn' = IF done < 2 THEN torn \cup {<<n, to>>} ELSE torn
    BY <1>2, <1>4, <1>5 DEF CommitReceiver, Book
  <2> QED
    BY <2>1, <2>2
<1>10. currentTX' = [currentTX EXCEPT ![n] = [other \in TxIds |-> NoTM]]
  BY <1>2 DEF Ends
<1>11. TornAck(n, to, id)
  <2>1. currentTX'[to][id] = PayerTm(id)
    BY <1>1, <1>6, <1>10 DEF PayerTm, TypeOK
  <2> QED
    BY <1>7, <1>9, <2>1 DEF TornAck, Agrees
<1>12. RightDirection(n, to, ack) /\ Counted(ack.tx)
  BY <1>4, <1>6, <1>8 DEF RightDirection
<1>13. ASSUME NEW t \in Nodes
       PROVE  \/ sent[t] = net[n][t]
              \/ sent[t] = Append(net[n][t], ack) /\ t = to
  <2>1. DOMAIN net[n] = Nodes
    BY <1>1 DEF TypeOK
  <2>2. CASE t # to
    BY <1>5, <2>1, <2>2
  <2>3. CASE t = to
    <3>1. sent[t] = Post(to, net[n][to], ack)
      BY <1>4, <1>5, <1>8, <2>1, <2>3
    <3> QED
      BY <2>3, <3>1 DEF Post
  <2> QED
    BY <2>2, <2>3
<1> HIDE DEF sent
<1>14. \A t \in Nodes :
          \/ sent[t] = net[n][t]
          \/ \E any \in Items :
                /\ sent[t] = Append(net[n][t], any)
                /\ any.phase = "ACK_COMMIT" /\ RightDirection(n, t, any)
                /\ Counted(any.tx) /\ TornAck(n, t, any.tx)
  BY <1>8, <1>11, <1>12, <1>13
<1> QED
  BY <1>2, <1>9, <1>14, EndsSafe

\* What a payer knows when it books: the payee has booked this amount, unless
\* its commit was torn.
AckFacts(done, n, p, id, to, amount) ==
    /\ currentTX[n][id].role = "coordinator"
    /\ id[1] = n /\ to # n
    /\ Counted(id) /\ Unbooked(n, id)
    /\ LogRow(n, id, amount) \in Rows(to) \/ <<to, n>> \in torn
    /\ net[p][n] # <<>>
    /\ Consume(n, p)
    /\ Forget(n, id)
    /\ Book(done, n, to, Spent(peers[n][to], amount), LogRow(to, id, -amount))

\* The payer reads the acknowledgement of what it spent.
LEMMA CoordinatorAckFacts ==
    ASSUME Safe, NEW n \in Nodes, NEW p \in Nodes, CoordinatorAck(n, p)
    PROVE  \E done \in WritesDone, id \in TxIds, to \in Nodes, amount \in Amounts :
               AckFacts(done, n, p, id, to, amount)
<1>1. PICK done \in WritesDone :
      /\ Receives(n, p, {"ACK_COMMIT"}) /\ Tm(n, p).role = "coordinator"
      /\ Consume(n, p)
      /\ CommitSpender(done, n, Tm(n, p).peer, Head(net[p][n]).tx, Tm(n, p).amount)
      /\ Forget(n, Head(net[p][n]).tx)
  BY DEF CoordinatorAck
<1>2. /\ net[p][n] # <<>> /\ Head(net[p][n]).tx \in TxIds
      /\ Head(net[p][n]) \in Range(net[p][n])
      /\ Head(net[p][n]).phase \in {"ACK_COMMIT"}
      /\ RightDirection(p, n, Head(net[p][n]))
      /\ Counted(Head(net[p][n]).tx)
      /\ Tm(n, p) = currentTX[n][Head(net[p][n]).tx]
      /\ Tm(n, p) \in Managers
  BY <1>1, ReceivedItem
<1>3. PICK id \in TxIds : id = Head(net[p][n]).tx
  BY <1>2
<1>4. currentTX[n][id] = Tm(n, p) /\ Counted(id)
  BY <1>2, <1>3
<1>5. PICK to \in Nodes : to = Tm(n, p).peer
  BY <1>1, <1>2, ManagerTypes
<1>6. Tm(n, p).amount \in Amounts /\ id[1] = n /\ to # n
  BY <1>1, <1>4, <1>5 DEF Safe, RolesFollowIds
<1>7. PICK amount \in Amounts : amount = Tm(n, p).amount
  BY <1>6
<1>8. /\ to = p
      /\ LogRow(n, id, amount) \in Rows(p) \/ <<p, n>> \in torn
  <2>1. PICK item \in Range(net[p][n]) : item = Head(net[p][n])
    BY <1>2
  <2>2. item.phase = "ACK_COMMIT" /\ item.tx = id
    BY <1>2, <1>3, <2>1
  <2>3. currentTX[n][id].role = "coordinator"
    BY <1>1, <1>4
  <2>4. /\ currentTX[n][id].peer = p
        /\ \/ LogRow(n, id, currentTX[n][id].amount) \in Rows(p)
           \/ <<p, n>> \in torn
    BY <2>2, <2>3 DEF Safe, AckMeansBooked
  <2> QED
    BY <1>4, <1>5, <1>7, <2>4
<1>10. Unbooked(n, id)
  <2> SUFFICES ASSUME NEW row \in Rows(n), row.tx = id PROVE FALSE
    BY DEF Unbooked
  <2>1. DebitRow(n, row)
    BY DEF Safe, RowsAreTrue
  <2> QED
    BY <1>1, <1>4, <1>6, <2>1 DEF DebitRow
<1>11. Book(done, n, to, Spent(peers[n][to], amount), LogRow(to, id, -amount))
  BY <1>1, <1>3, <1>5, <1>7 DEF CommitSpender
<1>12. AckFacts(done, n, p, id, to, amount)
  BY <1>1, <1>2, <1>3, <1>4, <1>6, <1>8, <1>10, <1>11 DEF AckFacts
<1> QED
  BY <1>12

\* The commit of the payer.
LEMMA CoordinatorAckSafe ==
    ASSUME Safe, TypeOK', NEW n \in Nodes, NEW p \in Nodes, CoordinatorAck(n, p)
    PROVE  Safe'
<1>1. TypeOK /\ ElementsTyped /\ NoTM.role = "none"
  BY ElementTypes DEF Safe, NoTM
<1>2. PICK done \in WritesDone, id \in TxIds, to \in Nodes, amount \in Amounts :
          AckFacts(done, n, p, id, to, amount)
  BY CoordinatorAckFacts
<1>3. /\ currentTX[n][id].role = "coordinator" /\ id[1] = n /\ to # n
      /\ Counted(id) /\ Unbooked(n, id)
      /\ LogRow(n, id, amount) \in Rows(to) \/ <<to, n>> \in torn
      /\ net[p][n] # <<>> /\ Consume(n, p) /\ Forget(n, id)
      /\ Book(done, n, to, Spent(peers[n][to], amount), LogRow(to, id, -amount))
  BY <1>2 DEF AckFacts
<1>4. amount \in Int /\ -amount \in Int /\ -(-amount) = amount
  BY ConstantsAssumption DEF ConstantsAssumption
<1>5. PICK row \in LogRows :
          /\ row = LogRow(to, id, -amount)
          /\ row.peer = to /\ row.tx = id /\ row.amount = -amount
  <2>1. LogRow(to, id, -amount) \in LogRows
    BY <1>4, ReplyTypes
  <2> QED
    BY <2>1 DEF LogRow
<1>6. PICK record : record = Spent(peers[n][to], amount)
  OBVIOUS
<1>8. /\ \A f, t \in Nodes : Range(net'[f][t]) \subseteq Range(net[f][t])
      /\ OneQuery'
  BY <1>1, <1>3, ConsumeEffect DEF Safe
<1>9. OnlyForgets
  BY <1>1, <1>3, ForgetForgets
<1>10. KeepsCounted
  BY KeepsIds DEF CoordinatorAck
<1>11. CASE done = 2
  <2>1. /\ Rows(n)' = Rows(n) \cup {row}
        /\ \A m \in Nodes : m # n => Rows(m)' = Rows(m)
        /\ BookedOnce' /\ torn' = torn
    <3>1. Book(2, n, to, record, row) /\ BookedOnce /\ Unbooked(n, row.tx)
      BY <1>3, <1>5, <1>6, <1>11 DEF Safe
    <3> QED
      BY <1>1, <3>1, BookEffect
  <2>2. OnlyRepliesAdded
    BY <1>8 DEF OnlyRepliesAdded
  <2>3. /\ \A m \in Nodes, j \in TxIds :
               currentTX'[m][j] # NoTM => Counted(j)'
        /\ \A f, t \in Nodes : \A item \in Range(net'[f][t]) : Counted(item.tx)'
        /\ RolesFollowIds' /\ ItemsGoTheRightWay' /\ CoordinatorAgrees'
        /\ \A m \in Nodes : \A old \in Rows(m) :
               Counted(old.tx)' /\ CreditRow(m, old)' /\ DebitRow(m, old)'
    <3>1. \A m \in Nodes : Rows(m) \subseteq Rows(m)'
      BY <2>1
    <3> QED
      BY <3>1, <1>9, <1>10, <2>1, <2>2, ForgettingStep
  <2>4. \A m \in Nodes : \A any \in Rows(m)' :
            any \in Rows(m) \/ (m = n /\ any = row)
    BY <2>1
  <2>5. currentTX'[n][id] = NoTM
    BY <1>1, <1>3 DEF Forget, TypeOK
  <2>6. IdsAreCounted'
    <3>1. Counted(row.tx)'
      BY <1>3, <1>5, <1>10 DEF KeepsCounted
    <3> QED
      BY <2>3, <2>4, <3>1 DEF IdsAreCounted
  <2>7. RowsAreTrue'
    <3>1. CreditRow(n, row)'
      BY <1>3, <1>5 DEF CreditRow
    <3>2. \/ LogRow(n, row.tx, -row.amount) \in Rows(row.peer)'
          \/ <<row.peer, n>> \in torn'
      BY <1>3, <1>4, <1>5, <2>1
    <3>3. DebitRow(n, row)'
      BY <1>1, <1>3, <1>4, <1>5, <2>5, <3>2 DEF DebitRow, LogRow
    <3> QED
      BY <2>3, <2>4, <3>1, <3>3 DEF RowsAreTrue
  <2>8. AckMeansBooked'
    <3> SUFFICES ASSUME NEW f \in Nodes, NEW t \in Nodes,
                        NEW item \in Range(net[f][t]), item.phase = "ACK_COMMIT",
                        currentTX'[t][item.tx].role = "coordinator"
                 PROVE  /\ currentTX'[t][item.tx].peer = f
                        /\ \/ LogRow(t, item.tx, currentTX'[t][item.tx].amount)
                                 \in Rows(f)'
                           \/ <<f, t>> \in torn
      BY <1>8, <2>1 DEF AckMeansBooked, LogRow
    <3>1. currentTX'[t][item.tx] = currentTX[t][item.tx]
      BY <1>1, <1>9 DEF OnlyForgets, ElementsTyped
    <3> QED
      BY <2>1, <3>1 DEF Safe, AckMeansBooked
  <2>9. QueryIsFirst'
    <3> SUFFICES ASSUME NEW f \in Nodes, NEW t \in Nodes,
                        NEW item \in Range(net[f][t]), item.phase = "QUERY"
                 PROVE  currentTX'[t][item.tx] = NoTM /\ Unbooked(t, item.tx)'
      BY <1>8 DEF QueryIsFirst
    <3>1. item.tx \in TxIds
      BY <1>1 DEF ElementsTyped
    <3>2. currentTX[t][item.tx] = NoTM /\ Unbooked(t, item.tx)
      BY DEF Safe, QueryIsFirst
    <3>3. ~(t = n /\ item.tx = id)
      BY <1>1, <1>3, <3>2
    <3> QED
      BY <1>5, <1>9, <2>4, <3>1, <3>2, <3>3 DEF OnlyForgets, Unbooked
  <2>10. CohorteBooksOnce'
    <3> SUFFICES ASSUME NEW m \in Nodes, NEW j \in TxIds,
                        currentTX'[m][j].role = "cohorte"
                 PROVE  Unbooked(m, j)'
      BY DEF CohorteBooksOnce
    <3>1. currentTX'[m][j] = currentTX[m][j]
      BY <1>1, <1>9 DEF OnlyForgets
    <3>2. ~(m = n /\ j = id)
      BY <1>1, <2>5
    <3> QED
      BY <1>5, <2>4, <3>1, <3>2 DEF Safe, CohorteBooksOnce, Unbooked
  <2> QED
    BY <1>8, <2>1, <2>3, <2>6, <2>7, <2>8, <2>9, <2>10 DEF Safe
<1>12. CASE done # 2
  <2>1. txlog' = txlog /\ torn \subseteq torn'
    BY <1>2, <1>3, <1>12 DEF Book, WritesDone
  <2>2. OnlyAnswersAdded
    BY <1>8, NothingSent
  <2> QED
    BY <1>8, <1>9, <1>10, <2>1, <2>2, HarmlessStep
<1> QED
  BY <1>11, <1>12

\* The process of a payer ends in its commit.
LEMMA CoordinatorTornSafe ==
    ASSUME Safe, TypeOK', NEW n \in Nodes, NEW p \in Nodes, CoordinatorTorn(n, p)
    PROVE  Safe'
<1>1. Ends(n, net[n])
  BY DEF CoordinatorTorn
<1>2. txlog' = txlog /\ torn \subseteq torn'
  BY DEF CoordinatorTorn, CommitSpender, Book
<1> QED
  BY <1>1, <1>2, EndsSafe

-----------------------------------------------------------------------------
(* The theorems.                                                           *)

\* Without restarts every step keeps Safe.
LEMMA SafeStep ==
    ASSUME MaxRestarts = 0
    PROVE  Safe /\ [Next]_vars => Safe'
<1> SUFFICES ASSUME Safe, [Next]_vars PROVE Safe'
  OBVIOUS
<1>1. TypeOK'
  BY NextTypeOK DEF Safe
<1>2. ASSUME NEW n \in Nodes, NEW p \in Nodes, NEW amount \in Amounts,
             PayTo(n, p, amount)
      PROVE  Safe'
  BY <1>1, <1>2, PayToSafe
<1>3. ASSUME NEW n \in Nodes, NEW id \in TxIds, StartPayment(n, id)
      PROVE  Safe'
  BY <1>1, <1>3, StartPaymentSafe
<1>4. ASSUME NEW n \in Nodes, NEW p \in Nodes, HandleTxItem(n, p)
      PROVE  Safe'
  <2>1. CASE CohorteQuery(n, p)
    BY <1>1, <2>1, CohorteQuerySafe
  <2>2. CASE CohorteRequery(n, p)
    BY <1>1, <2>2, CohorteRequerySafe
  <2>3. CASE CohorteCommit(n, p)
    BY <1>1, <2>3, CohorteCommitSafe
  <2>4. CASE CohorteUninitialised(n, p)
    BY <1>1, <2>4, CohorteUninitialisedSafe
  <2>5. CASE CoordinatorVoteYes(n, p)
    BY <1>1, <2>5, CoordinatorVoteYesSafe
  <2>6. CASE AbortPayment(n, p)
    BY <1>1, <2>6, AbortPaymentSafe
  <2>7. CASE CoordinatorAck(n, p)
    BY <1>1, <2>7, CoordinatorAckSafe
  <2>8. CASE UnknownPhase(n, p)
    BY <1>1, <2>8, DieSafe DEF UnknownPhase
  <2> QED
    BY <1>4, <2>1, <2>2, <2>3, <2>4, <2>5, <2>6, <2>7, <2>8 DEF HandleTxItem
<1>5. ASSUME NEW n \in Nodes, Timeout(n) PROVE Safe'
  BY <1>1, <1>5, TimeoutSafe
<1>6. ASSUME NEW n \in Nodes, NEW p \in Nodes, DropLink(n, p) PROVE Safe'
  BY <1>1, <1>6, DropLinkSafe
<1>7. ASSUME NEW n \in Nodes, Crash(n) PROVE Safe'
  BY <1>1, <1>7, DieSafe DEF Crash
<1>8. ASSUME NEW n \in Nodes, Restart(n) PROVE Safe'
  <2>1. restarts \in 0..MaxRestarts /\ restarts < MaxRestarts
    BY <1>8 DEF Safe, TypeOK, Restart
  <2> QED
    BY <2>1
<1>9. CASE UNCHANGED vars
  <2>1. UNCHANGED <<peers, txlog, currentTX, sequence, net, up, torn>>
    BY <1>9 DEF vars
  <2>2. OnlyForgets /\ OnlyAnswersAdded /\ OneQuery'
    BY <2>1 DEF Safe, OnlyForgets, OnlyAnswersAdded, OneQuery
  <2> QED
    BY <1>1, <2>1, <2>2, KeepsIds, HarmlessStep
<1>10. ASSUME NEW n \in Nodes, NEW p \in Nodes,
              CohorteTorn(n, p) \/ CoordinatorTorn(n, p)
       PROVE  Safe'
  BY <1>1, <1>10, CohorteTornSafe, CoordinatorTornSafe
<1> QED
  BY <1>2, <1>3, <1>4, <1>5, <1>6, <1>7, <1>8, <1>9, <1>10 DEF Next

\* The invariant holds for any number of friends and payments, with late,
\* lost and cut off items, timeouts, writes that fail and processes that end
\* anywhere, as long as a node that died stays down.
THEOREM AlwaysSafe ==
    ASSUME MaxRestarts = 0
    PROVE  Spec => []Safe
<1>1. Init => Safe
  BY InitSafe
<1>2. Safe /\ [Next]_vars => Safe'
  BY SafeStep
<1> QED
  BY <1>1, <1>2, PTL DEF Spec

\* Nobody books that it paid a friend who has not booked this payment, unless
\* the friend's own commit was torn.
THEOREM DebitsAlwaysMatched ==
    ASSUME MaxRestarts = 0
    PROVE  Spec => []DebitsAreMatched
<1>1. Safe => DebitsAreMatched
  <2> SUFFICES ASSUME Safe, NEW n \in Nodes, NEW row \in Rows(n), row.tx[1] = n
               PROVE  \/ LogRow(n, row.tx, -row.amount) \in Rows(row.peer)
                      \/ <<row.peer, n>> \in torn
    BY DEF DebitsAreMatched
  <2>1. DebitRow(n, row)
    BY DEF Safe, RowsAreTrue
  <2> QED
    BY <2>1 DEF DebitRow
<1>2. Spec => []Safe
  BY AlwaysSafe
<1> QED
  BY <1>1, <1>2, PTL

\* No node books a payment twice.
THEOREM AlwaysBookedOnce ==
    ASSUME MaxRestarts = 0
    PROVE  Spec => []BookedOnce
<1>1. Safe => BookedOnce
  BY DEF Safe
<1>2. Spec => []Safe
  BY AlwaysSafe
<1> QED
  BY <1>1, <1>2, PTL

-----------------------------------------------------------------------------
(* The two phase commit implements the ledger: the payee's commit is       *)
(* Receive, the payer's is Spend, every other step changes no book.        *)

\* The ledger starts with the program.
LEMMA LedgerInit == Init => Ledger!Init
  BY DEF Init, Ledger!Init, Balances, Books, Rows, Range, OpenLine

\* Booking one row, as the ledger sees it.
LEMMA BookInLedger ==
    ASSUME TypeOK, NEW n \in Nodes, NEW to \in Nodes,
           NEW amount \in Int, NEW record, NEW row \in LogRows,
           record = [peers[n][to] EXCEPT !.balance = @ + amount],
           Book(2, n, to, record, row)
    PROVE  /\ Balances' = [Balances EXCEPT ![n][to] = @ + amount]
           /\ Books' = [Books EXCEPT ![n] = @ \cup {row}]
<1>1. /\ peers' = [peers EXCEPT ![n][to] = record]
      /\ Rows(n)' = Rows(n) \cup {row}
      /\ \A m \in Nodes : m # n => Rows(m)' = Rows(m)
  BY BookEffect
<1>2. peers \in [Nodes -> [Nodes -> CreditRecord]]
  BY DEF TypeOK
<1>3. peers[n][to] \in CreditRecord
  BY <1>2
<1>4. record.balance = peers[n][to].balance + amount
  BY <1>3 DEF CreditRecord
<1>5. \A m, q \in Nodes :
         peers'[m][q].balance = IF m = n /\ q = to THEN peers[n][to].balance + amount
                                ELSE peers[m][q].balance
  BY <1>1, <1>2, <1>4
<1>6. Balances' = [Balances EXCEPT ![n][to] = @ + amount]
  <2> DEFINE new == [m \in Nodes |-> [q \in Nodes |->
                        IF m = n /\ q = to THEN peers[n][to].balance + amount
                        ELSE peers[m][q].balance]]
  <2>1. Balances' = new
    BY <1>5 DEF Balances
  <2>2. [Balances EXCEPT ![n][to] = @ + amount] = new
    BY DEF Balances
  <2> QED
    BY <2>1, <2>2
<1>7. Books' = [Books EXCEPT ![n] = @ \cup {row}]
  BY <1>1 DEF Books
<1> QED
  BY <1>6, <1>7

\* Without errors and deaths inside a commit, each one writes both.
NothingTorn == torn = {}
LEMMA NothingIsTorn ==
    ASSUME {"dberror", "tear"} \cap Faults = {}
    PROVE  Spec => []NothingTorn
<1>1. Init => NothingTorn
  BY DEF Init, NothingTorn
<1>2. ASSUME NothingTorn, [Next]_vars PROVE NothingTorn'
  <2> USE <1>2 DEF NothingTorn
  <2>1. WritesDone = {2}
    BY DEF WritesDone
  <2>2. ASSUME NEW n \in Nodes, NEW p \in Nodes, HandleTxItem(n, p)
        PROVE  torn' = {}
    <3>1. CASE CohorteCommit(n, p) \/ CoordinatorAck(n, p)
      BY <2>1, <3>1 DEF CohorteCommit, CoordinatorAck, CommitReceiver,
                        CommitSpender, Book
    <3>2. CASE ~(CohorteCommit(n, p) \/ CoordinatorAck(n, p))
      BY <2>2, <3>2 DEF HandleTxItem, CohorteQuery, CohorteRequery,
         CohorteUninitialised, CoordinatorVoteYes, AbortPayment, UnknownPhase, Die
    <3> QED
      BY <3>1, <3>2
  <2>3. ASSUME NEW n \in Nodes,
               \/ \E p \in Nodes, amount \in Amounts : PayTo(n, p, amount)
               \/ \E id \in TxIds : StartPayment(n, id)
               \/ \E p \in Nodes : CohorteTorn(n, p) \/ CoordinatorTorn(n, p)
               \/ Timeout(n)
               \/ \E p \in Nodes : DropLink(n, p)
               \/ Crash(n)
               \/ Restart(n)
        PROVE  torn' = {}
    BY <2>3 DEF PayTo, StartPayment, CohorteTorn, CoordinatorTorn, Timeout,
                DropLink, Crash, Restart, Die
  <2>4. CASE UNCHANGED vars
    BY <2>4 DEF vars
  <2> QED
    BY <1>2, <2>2, <2>3, <2>4 DEF Next
<1> QED
  BY <1>1, <1>2, PTL DEF Spec

\* A step is a step of the ledger, or none.
LEMMA LedgerStep ==
    ASSUME Safe, NothingTorn, {"dberror", "tear"} \cap Faults = {}, [Next]_vars
    PROVE  [Ledger!Next]_(Ledger!vars)
<1>1. TypeOK
  BY DEF Safe
<1>a. WritesDone = {2}
  BY DEF WritesDone
<1>2. ASSUME NEW n \in Nodes, NEW p \in Nodes, CohorteCommit(n, p)
      PROVE  Ledger!Next
  <2>1. PICK id \in TxIds, to \in Nodes, amount \in Amounts :
            CommitFacts(2, n, p, id, to, amount)
    BY <1>2, <1>a, CohorteCommitFacts
  <2>2. /\ to # n /\ Unbooked(n, id)
        /\ Book(2, n, to, Received(peers[n][to], amount), LogRow(to, id, amount))
    BY <2>1 DEF CommitFacts
  <2>3. amount \in Int
    BY ConstantsAssumption DEF ConstantsAssumption
  <2>4. PICK row \in LogRows : row = LogRow(to, id, amount)
    BY <2>3, ReplyTypes
  <2>5. PICK record : record = [peers[n][to] EXCEPT !.balance = @ + amount]
    OBVIOUS
  <2>6. Book(2, n, to, record, row)
    BY <2>2, <2>4, <2>5 DEF Received
  <2>7. /\ Balances' = [Balances EXCEPT ![n][to] = @ + amount]
        /\ Books' = [Books EXCEPT ![n] = @ \cup {row}]
    BY <1>1, <2>3, <2>5, <2>6, BookInLedger
  <2>8. row = Ledger!Row(to, id, amount)
    BY <2>4 DEF LogRow, Ledger!Row
  <2>9. ~Ledger!Knows(n, id)
    BY <2>2 DEF Unbooked, Ledger!Knows, Books
  <2>10. Ledger!Receive(n, to, id, amount)
    BY <2>7, <2>8, <2>9 DEF Ledger!Receive
  <2> QED
    BY <2>2, <2>10 DEF Ledger!Next
<1>3. ASSUME NEW n \in Nodes, NEW p \in Nodes, CoordinatorAck(n, p)
      PROVE  Ledger!Next
  <2>1. PICK id \in TxIds, to \in Nodes, amount \in Amounts :
            AckFacts(2, n, p, id, to, amount)
    BY <1>3, <1>a, CoordinatorAckFacts
  <2>2. /\ to # n /\ Unbooked(n, id)
        /\ LogRow(n, id, amount) \in Rows(to)
        /\ Book(2, n, to, Spent(peers[n][to], amount), LogRow(to, id, -amount))
    BY <2>1 DEF AckFacts, NothingTorn
  <2>3. amount \in Int /\ -amount \in Int
    BY ConstantsAssumption DEF ConstantsAssumption
  <2>4. PICK row \in LogRows : row = LogRow(to, id, -amount)
    BY <2>3, ReplyTypes
  <2>5. PICK record : record = [peers[n][to] EXCEPT !.balance = @ + (-amount)]
    OBVIOUS
  <2>6. record = Spent(peers[n][to], amount)
    <3>1. peers[n][to] \in CreditRecord
      BY <1>1 DEF TypeOK
    <3>2. peers[n][to].balance \in Int
      BY <3>1 DEF CreditRecord
    <3>3. peers[n][to].balance + (-amount) = peers[n][to].balance - amount
      BY <2>3, <3>2
    <3> QED
      BY <2>5, <3>3 DEF Spent
  <2>7. /\ Balances' = [Balances EXCEPT ![n][to] = @ + (-amount)]
        /\ Books' = [Books EXCEPT ![n] = @ \cup {row}]
    <3>1. Book(2, n, to, record, row)
      BY <2>2, <2>4, <2>6
    <3>2. PICK change \in Int : change = -amount
      BY <2>3
    <3> QED
      BY <1>1, <2>5, <3>1, <3>2, BookInLedger
  <2>8. row = Ledger!Row(to, id, -amount)
    BY <2>4 DEF LogRow, Ledger!Row
  <2>9. ~Ledger!Knows(n, id)
    BY <2>2 DEF Unbooked, Ledger!Knows, Books
  <2>10. Ledger!Row(n, id, amount) \in Books[to]
    BY <2>2 DEF LogRow, Ledger!Row, Books
  <2>11. Balances' = [Balances EXCEPT ![n][to] = @ - amount]
    <3>1. peers \in [Nodes -> [Nodes -> CreditRecord]]
      BY <1>1 DEF TypeOK
    <3>2. Balances \in [Nodes -> [Nodes -> Int]]
      BY <3>1 DEF CreditRecord, Balances
    <3>3. Balances[n][to] + (-amount) = Balances[n][to] - amount
      BY <2>3, <3>2
    <3> QED
      BY <2>7, <3>2, <3>3
  <2>12. Ledger!Spend(n, to, id, amount)
    BY <2>7, <2>8, <2>9, <2>10, <2>11 DEF Ledger!Spend
  <2> QED
    BY <2>2, <2>12 DEF Ledger!Next
<1>4. ASSUME UNCHANGED <<peers, txlog>>
      PROVE  UNCHANGED Ledger!vars
  BY <1>4 DEF Ledger!vars, Balances, Books, Rows
<1>5. ASSUME NEW n \in Nodes, NEW p \in Nodes, HandleTxItem(n, p)
      PROVE  \/ CohorteCommit(n, p) \/ CoordinatorAck(n, p)
             \/ UNCHANGED <<peers, txlog>>
  BY <1>5 DEF HandleTxItem, CohorteQuery, CohorteRequery, CohorteUninitialised,
              CoordinatorVoteYes, AbortPayment, UnknownPhase, Die
<1>6. ASSUME NEW n \in Nodes,
             \/ \E p \in Nodes, amount \in Amounts : PayTo(n, p, amount)
             \/ \E id \in TxIds : StartPayment(n, id)
             \/ \E p \in Nodes : CohorteTorn(n, p) \/ CoordinatorTorn(n, p)
             \/ Timeout(n)
             \/ \E p \in Nodes : DropLink(n, p)
             \/ Crash(n)
             \/ Restart(n)
      PROVE  UNCHANGED <<peers, txlog>>
  BY <1>6 DEF PayTo, StartPayment, CohorteTorn, CoordinatorTorn, Timeout,
              DropLink, Crash, Restart, Die
<1>7. CASE UNCHANGED vars
  BY <1>4, <1>7 DEF vars
<1> QED
  BY <1>2, <1>3, <1>4, <1>5, <1>6, <1>7 DEF Next

\* The two phase commit of payments implements PaymentLedger: whatever is
\* lost, late or cut off, the payer books what the payee booked before, each
\* of them once and with the same amount, and balances follow the books: as
\* long as a commit does both of its writes.
THEOREM PaymentsImplementLedger ==
    ASSUME MaxRestarts = 0, {"dberror", "tear"} \cap Faults = {}
    PROVE  Spec => ImplementsLedger
<1>1. Init => Ledger!Init
  BY LedgerInit
<1>2. Safe /\ NothingTorn /\ [Next]_vars => [Ledger!Next]_(Ledger!vars)
  BY LedgerStep
<1>3. Spec => []Safe
  BY AlwaysSafe
<1>4. Spec => []NothingTorn
  BY NothingIsTorn
<1> QED
  BY <1>1, <1>2, <1>3, <1>4, PTL DEF Spec, ImplementsLedger, Ledger!Spec

Orders == {"QUERY", "COMMIT"}

-----------------------------------------------------------------------------
(* The order of the queues.                                                *)

\* What is lost from either end of a queue leaves the rest in order.
LEMMA OrderOfRest ==
    ASSUME NEW q \in Seq(Items), InOrder(q)
    PROVE  /\ q # <<>> => InOrder(Tail(q))
           /\ \A r \in Prefixes(q) : InOrder(r)
           /\ InOrder(<<>>)
<1>1. ASSUME q # <<>> PROVE InOrder(Tail(q))
  <2>1. /\ Tail(q) \in Seq(Items)
        /\ Len(Tail(q)) = Len(q) - 1
        /\ \A i \in 1..Len(Tail(q)) : Tail(q)[i] = q[i + 1]
    BY <1>1, TailOfQueue
  <2>2. /\ DOMAIN q = 1..Len(q) /\ Len(q) \in Nat
        /\ DOMAIN Tail(q) = 1..Len(Tail(q))
    BY <2>1, LenProperties
  <2> SUFFICES ASSUME NEW i \in DOMAIN Tail(q), NEW j \in DOMAIN Tail(q), i < j,
                      Tail(q)[i].phase \in Orders, Tail(q)[j].phase \in Orders
               PROVE  Tail(q)[i].tx[2] <= Tail(q)[j].tx[2]
    BY DEF InOrder, Orders
  <2>3. /\ i + 1 \in DOMAIN q /\ j + 1 \in DOMAIN q /\ i + 1 < j + 1
        /\ Tail(q)[i] = q[i + 1] /\ Tail(q)[j] = q[j + 1]
    BY <2>1, <2>2
  <2> QED
    BY <2>3 DEF InOrder, Orders
<1>2. ASSUME NEW r \in Prefixes(q) PROVE InOrder(r)
  <2>1. DOMAIN r \subseteq DOMAIN q /\ \A i \in DOMAIN r : r[i] = q[i]
    BY PrefixOfQueue
  <2> QED
    BY <2>1 DEF InOrder
<1>3. InOrder(<<>>)
  BY DEF InOrder
<1> QED
  BY <1>1, <1>2, <1>3

\* An order may follow the orders that are not newer.
Follows(queue, item) ==
    item.phase \in Orders =>
        \A old \in Range(queue) : old.phase \in Orders => old.tx[2] <= item.tx[2]

\* Sending keeps the order.
LEMMA OrderOfSent ==
    ASSUME NEW q \in Seq(Items), InOrder(q), NEW t \in Nodes, NEW item \in Items,
           Follows(q, item)
    PROVE  InOrder(Post(t, q, item))
<1>1. /\ \A i \in DOMAIN Post(t, q, item) :
            \/ i \in DOMAIN q /\ Post(t, q, item)[i] = q[i]
            \/ Post(t, q, item)[i] = item /\ i = Len(q) + 1
      /\ DOMAIN q = 1..Len(q) /\ Len(q) \in Nat
  BY PostEffect, LenProperties
<1>2. \A i \in DOMAIN q : q[i] \in Range(q)
  BY DEF Range
<1> DEFINE r == Post(t, q, item)
<1> HIDE DEF r
<1> SUFFICES ASSUME NEW i \in DOMAIN r, NEW j \in DOMAIN r, i < j,
                    r[i].phase \in Orders, r[j].phase \in Orders
             PROVE  r[i].tx[2] <= r[j].tx[2]
  BY DEF InOrder, Orders, r
<1>3. /\ \/ i \in DOMAIN q /\ r[i] = q[i]
         \/ r[i] = item /\ i = Len(q) + 1
      /\ \/ j \in DOMAIN q /\ r[j] = q[j]
         \/ r[j] = item /\ j = Len(q) + 1
  BY <1>1 DEF r
<1>4. i \in DOMAIN q /\ r[i] = q[i]
  BY <1>1, <1>3
<1>5. CASE j \in DOMAIN q /\ r[j] = q[j]
  BY <1>4, <1>5 DEF InOrder, Orders
<1>6. CASE r[j] = item
  BY <1>2, <1>4, <1>6 DEF Follows
<1> QED
  BY <1>3, <1>5, <1>6

\* Taking an item, with or without an answer, sending one, and losing some
\* keep all queues in order.
LEMMA OrdersKept ==
    ASSUME TypeOK, OrdersInOrder
    PROVE  /\ \A n, p \in Nodes :
                 net[p][n] # <<>> /\ Consume(n, p) => OrdersInOrder'
           /\ \A n, p, to \in Nodes, item \in Items :
                 /\ net[p][n] # <<>>
                 /\ Follows(net[n][to], item)
                 /\ ConsumeAndSend(n, p, to, item)
                 => OrdersInOrder'
           /\ \A n, to \in Nodes, item \in Items :
                 /\ Follows(net[n][to], item)
                 /\ net' = [net EXCEPT ![n][to] = Post(to, @, item)]
                 => OrdersInOrder'
           /\ (\A f, t \in Nodes : \/ net'[f][t] \in {<<>>, net[f][t]}
                                   \/ net'[f][t] \in Prefixes(net[f][t]))
              => OrdersInOrder'
<1>1. \A f, t \in Nodes : net[f][t] \in Seq(Items) /\ InOrder(net[f][t])
  BY DEF TypeOK, OrdersInOrder
<1>2. ASSUME NEW n \in Nodes, NEW p \in Nodes, net[p][n] # <<>>
      PROVE  InOrder(Tail(net[p][n])) /\ Tail(net[p][n]) \in Seq(Items)
             /\ Range(Tail(net[p][n])) \subseteq Range(net[p][n])
  BY <1>1, <1>2, OrderOfRest, TailOfQueue
<1>3. ASSUME NEW n \in Nodes, NEW p \in Nodes, net[p][n] # <<>>, Consume(n, p)
      PROVE  OrdersInOrder'
  <2>1. \A f, t \in Nodes :
           net'[f][t] = IF f = p /\ t = n THEN Tail(net[p][n]) ELSE net[f][t]
    BY <1>3 DEF Consume, TypeOK
  <2> QED
    BY <1>1, <1>2, <1>3, <2>1 DEF OrdersInOrder
<1>4. ASSUME NEW n \in Nodes, NEW p \in Nodes, NEW to \in Nodes, NEW item \in Items,
             net[p][n] # <<>>, Follows(net[n][to], item),
             ConsumeAndSend(n, p, to, item)
      PROVE  OrdersInOrder'
  <2> DEFINE taken == [net EXCEPT ![p][n] = Tail(@)]
  <2>1. \A f, t \in Nodes :
           taken[f][t] = IF f = p /\ t = n THEN Tail(net[p][n]) ELSE net[f][t]
    BY DEF TypeOK
  <2>2. taken \in [Nodes -> [Nodes -> Seq(Items)]]
    BY <1>2, <1>4 DEF TypeOK
  <2>3. net' = [taken EXCEPT ![n][to] = Post(to, @, item)]
    BY <1>4 DEF ConsumeAndSend
  <2> HIDE DEF taken
  <2>4. \A f, t \in Nodes :
           /\ InOrder(taken[f][t])
           /\ Range(taken[f][t]) \subseteq Range(net[f][t])
    BY <1>1, <1>2, <1>4, <2>1
  <2>5. Follows(taken[n][to], item)
    BY <1>4, <2>4 DEF Follows
  <2>6. InOrder(Post(to, taken[n][to], item))
    BY <2>2, <2>4, <2>5, OrderOfSent
  <2>7. \A f, t \in Nodes :
           net'[f][t] = IF f = n /\ t = to THEN Post(to, taken[n][to], item)
                        ELSE taken[f][t]
    BY <2>2, <2>3
  <2> QED
    BY <2>4, <2>6, <2>7 DEF OrdersInOrder
<1>5. ASSUME NEW n \in Nodes, NEW to \in Nodes, NEW item \in Items,
             Follows(net[n][to], item),
             net' = [net EXCEPT ![n][to] = Post(to, @, item)]
      PROVE  OrdersInOrder'
  <2>1. InOrder(Post(to, net[n][to], item))
    BY <1>1, <1>5, OrderOfSent
  <2>2. \A f, t \in Nodes :
           net'[f][t] = IF f = n /\ t = to THEN Post(to, net[n][to], item)
                        ELSE net[f][t]
    BY <1>5 DEF TypeOK
  <2> QED
    BY <1>1, <2>1, <2>2 DEF OrdersInOrder
<1>6. ASSUME \A f, t \in Nodes : \/ net'[f][t] \in {<<>>, net[f][t]}
                                 \/ net'[f][t] \in Prefixes(net[f][t])
      PROVE  OrdersInOrder'
  <2> SUFFICES ASSUME NEW f \in Nodes, NEW t \in Nodes
               PROVE  InOrder(net'[f][t])
    BY DEF OrdersInOrder
  <2>1. \A r \in Prefixes(net[f][t]) : InOrder(r)
    BY <1>1, OrderOfRest
  <2>2. InOrder(<<>>) /\ InOrder(net[f][t])
    BY <1>1, OrderOfRest
  <2> QED
    BY <1>6, <2>1, <2>2
<1> QED
  BY <1>3, <1>4, <1>5, <1>6

-----------------------------------------------------------------------------
(* Steps that begin nothing.                                               *)

\* What ids and amounts are, and the funds of a row.
LEMMA Kinds ==
    /\ \A id \in TxIds : /\ id[1] \in Nodes /\ id[2] \in Int
                         /\ id = <<id[1], id[2]>>
    /\ Amounts \subseteq Int
    /\ TypeOK => \A n, p \in Nodes :
                    /\ peers[n][p] \in CreditRecord
                    /\ MyAvailable(peers[n][p]) \in Int
                    /\ PeerAvailable(peers[n][p]) \in Int
    /\ TypeOK => \A n \in Nodes : sequence[n] \in Int
    /\ NoTM.role = "none"
<1>1. \A c \in CreditRecord : MyAvailable(c) \in Int /\ PeerAvailable(c) \in Int
  BY DEF MyAvailable, PeerAvailable, CreditRecord
<1>2. \A id \in TxIds : /\ id[1] \in Nodes /\ id[2] \in Int
                        /\ id = <<id[1], id[2]>>
  BY DEF TxIds
<1>3. Amounts \subseteq Int
  BY ConstantsAssumption DEF ConstantsAssumption
<1>4. TypeOK => \A n, p \in Nodes : peers[n][p] \in CreditRecord
  BY DEF TypeOK
<1>5. TypeOK => \A n \in Nodes : sequence[n] \in Int
  BY DEF TypeOK
<1> QED
  BY <1>1, <1>2, <1>3, <1>4, <1>5 DEF NoTM

\* The queues hold what they held, and answers about ids they held.
NothingNew ==
    \A f, t \in Nodes : \A item \in Range(net'[f][t]) :
        \/ item \in Range(net[f][t])
        \/ /\ item.phase \notin Orders
           /\ \E g, h \in Nodes : \E old \in Range(net[g][h]) : old.tx = item.tx

\* A process goes on, or is gone with all it knew.
Lifetimes ==
    \A n \in Nodes :
        \/ up'[n] = up[n] /\ sequence'[n] = sequence[n]
        \/ ~up'[n] /\ \A id \in TxIds : currentTX'[n][id] = NoTM

\* Ids stay counted.
LEMMA LifetimesCount ==
    ASSUME Lifetimes, NEW id \in TxIds, Counted(id)
    PROVE  Counted(id)'
  BY Kinds DEF Lifetimes, Counted

\* The items stay counted when nothing new is sent.
LEMMA QuietItems ==
    ASSUME TypeOK, ItemsAreCounted, NothingNew, Lifetimes
    PROVE  ItemsAreCounted'
<1>1. ElementsTyped
  BY ElementTypes
<1> SUFFICES ASSUME NEW f \in Nodes, NEW t \in Nodes,
                    NEW item \in Range(net'[f][t])
             PROVE  /\ Counted(item.tx)'
                    /\ item.phase \in {"QUERY", "COMMIT"} => item.tx[1] = f
                    /\ item.phase = "QUERY" => f # t /\ item.amount \in Amounts
  BY DEF ItemsAreCounted
<1>2. Counted(item.tx) /\ item.tx \in TxIds
  <2>1. PICK g \in Nodes, h \in Nodes : \E old \in Range(net[g][h]) : old.tx = item.tx
    BY DEF NothingNew
  <2> QED
    BY <1>1, <2>1 DEF ItemsAreCounted, ElementsTyped
<1>3. /\ item.phase \in {"QUERY", "COMMIT"} => item.tx[1] = f
      /\ item.phase = "QUERY" => f # t /\ item.amount \in Amounts
  BY DEF ItemsAreCounted, NothingNew, Orders
<1> QED
  BY <1>2, <1>3, LifetimesCount

\* What a step that begins nothing leaves alone: all but the funds.
LEMMA QuietStep ==
    ASSUME Funded, TypeOK', OnlyForgets, NothingNew, Lifetimes
    PROVE  /\ ManagersAreCounted' /\ ItemsAreCounted'
           /\ UnqueriedIsUnheard' /\ CohortesAreNewest'
           /\ \A n \in Nodes, id \in TxIds :
                 currentTX'[n][id].role = "coordinator" =>
                     /\ currentTX'[n][id] = currentTX[n][id]
                     /\ sequence'[n] = sequence[n]
           /\ \A n \in Nodes, id \in TxIds :
                 currentTX'[n][id].role = "cohorte" =>
                     /\ currentTX'[n][id] = currentTX[n][id]
                     /\ MayCommit(n, id)' => MayCommit(n, id)
<1>1. TypeOK /\ ElementsTyped /\ NoTM.role = "none"
  BY ElementTypes, Kinds DEF Funded
<1>a. ElementsTyped'
  BY ElementTypes, PTL
<1>2. \A n \in Nodes, id \in TxIds :
         currentTX'[n][id].role # "none" =>
             /\ currentTX'[n][id] = currentTX[n][id] /\ currentTX[n][id] # NoTM
             /\ up'[n] = up[n] /\ sequence'[n] = sequence[n]
  BY <1>1 DEF OnlyForgets, Lifetimes
<1>3. ManagersAreCounted'
  <2> SUFFICES ASSUME NEW n \in Nodes, NEW id \in TxIds, currentTX'[n][id] # NoTM
               PROVE  up'[n] /\ Counted(id)'
    BY DEF ManagersAreCounted
  <2>1. currentTX'[n][id] = currentTX[n][id] /\ up'[n] = up[n]
    BY DEF OnlyForgets, Lifetimes
  <2>2. up[n] /\ Counted(id)
    BY <2>1 DEF Funded, ManagersAreCounted
  <2> QED
    BY <2>1, <2>2, LifetimesCount
<1>4. ItemsAreCounted'
  BY QuietItems DEF Funded
<1>5. UnqueriedIsUnheard'
  <2> SUFFICES ASSUME NEW n \in Nodes, NEW id \in TxIds,
                      currentTX'[n][id].role = "coordinator",
                      ~currentTX'[n][id].queried
               PROVE  /\ \A f, t \in Nodes : \A item \in Range(net'[f][t]) :
                            item.tx # id
                      /\ \A m \in Nodes : currentTX'[m][id].role # "cohorte"
    BY DEF UnqueriedIsUnheard
  <2>1. currentTX'[n][id] = currentTX[n][id]
    BY <1>2
  <2>2. /\ \A f, t \in Nodes : \A item \in Range(net[f][t]) : item.tx # id
        /\ \A m \in Nodes : currentTX[m][id].role # "cohorte"
    BY <2>1 DEF Funded, UnqueriedIsUnheard
  <2> QED
    BY <1>2, <2>2 DEF NothingNew
<1>6. CohortesAreNewest'
  <2> SUFFICES ASSUME NEW n \in Nodes, NEW id \in TxIds,
                      currentTX'[n][id].role = "cohorte"
               PROVE  LET tm == currentTX'[n][id]
                      IN /\ id[1] = tm.peer /\ tm.peer # n /\ tm.amount \in Amounts
                         /\ \A item \in Range(net'[tm.peer][n]) :
                               item.phase \in {"QUERY", "COMMIT"} =>
                                   id[2] <= item.tx[2]
    BY DEF CohortesAreNewest
  <2>1. currentTX'[n][id] = currentTX[n][id]
    BY <1>2
  <2>2. /\ id[1] = currentTX[n][id].peer /\ currentTX[n][id].peer # n
        /\ currentTX[n][id].amount \in Amounts
        /\ \A item \in Range(net[currentTX[n][id].peer][n]) :
              item.phase \in {"QUERY", "COMMIT"} => id[2] <= item.tx[2]
    BY <2>1 DEF Funded, CohortesAreNewest
  <2>3. currentTX[n][id].peer \in Nodes
    BY <1>1, <2>2, Kinds
  <2> QED
    BY <2>1, <2>2, <2>3 DEF NothingNew, Orders
<1>7. ASSUME NEW n \in Nodes, NEW id \in TxIds, MayCommit(n, id)'
      PROVE  MayCommit(n, id)
  <2>1. id[1] \in Nodes
    BY Kinds
  <2>2. CASE currentTX'[id[1]][id].role = "coordinator"
    BY <1>2, <2>1, <2>2 DEF MayCommit
  <2>3. CASE \E item \in Range(net'[id[1]][n]) : item.phase = "COMMIT" /\ item.tx = id
    BY <2>1, <2>3 DEF MayCommit, NothingNew, Orders
  <2> QED
    BY <1>7, <2>2, <2>3 DEF MayCommit
<1> QED
  BY <1>2, <1>3, <1>4, <1>5, <1>6, <1>7

\* If the rows do not change either, the invariant is kept.
LEMMA HarmlessFunds ==
    ASSUME Funded, TypeOK', OnlyForgets, NothingNew, Lifetimes, OrdersInOrder',
           UNCHANGED peers
    PROVE  Funded'
<1>1. /\ ManagersAreCounted' /\ ItemsAreCounted'
      /\ UnqueriedIsUnheard' /\ CohortesAreNewest'
      /\ \A n \in Nodes, id \in TxIds :
            currentTX'[n][id].role = "coordinator" =>
                /\ currentTX'[n][id] = currentTX[n][id]
                /\ sequence'[n] = sequence[n]
      /\ \A n \in Nodes, id \in TxIds :
            currentTX'[n][id].role = "cohorte" =>
                /\ currentTX'[n][id] = currentTX[n][id]
                /\ MayCommit(n, id)' => MayCommit(n, id)
  BY QuietStep
<1>2. NewestIsFunded'
  BY <1>1 DEF Funded, NewestIsFunded
<1>3. VotesAreCovered'
  <2> SUFFICES ASSUME NEW n \in Nodes, NEW id \in TxIds,
                      currentTX'[n][id].role = "cohorte", MayCommit(n, id)'
               PROVE  currentTX'[n][id].amount
                          <= PeerAvailable(peers'[n][currentTX'[n][id].peer])
    BY DEF VotesAreCovered
  <2> QED
    BY <1>1 DEF Funded, VotesAreCovered
<1>4. WithinCreditLines'
  BY DEF Funded, WithinCreditLines
<1> QED
  BY <1>1, <1>2, <1>3, <1>4 DEF Funded

\* What is known of an item that is handled, and of its manager.
LEMMA TakenItem ==
    ASSUME Funded, NEW n \in Nodes, NEW p \in Nodes, NEW phases,
           Receives(n, p, phases)
    PROVE  LET item == Head(net[p][n])
           IN /\ net[p][n] # <<>> /\ up[n]
              /\ item \in Range(net[p][n]) /\ item \in Items
              /\ item.phase \in phases
              /\ item.tx \in TxIds
              /\ Counted(item.tx)
              /\ item.phase \in Orders => item.tx[1] = p
              /\ Tm(n, p) = currentTX[n][item.tx]
              /\ Tm(n, p) \in Managers
<1>1. TypeOK /\ ElementsTyped
  BY ElementTypes DEF Funded
<1>2. net[p][n] # <<>> /\ net[p][n] \in Seq(Items)
  BY <1>1 DEF Receives, TypeOK
<1>3. Head(net[p][n]) \in Range(net[p][n]) /\ Head(net[p][n]) \in Items
  BY <1>2, TailOfQueue
<1>4. Head(net[p][n]).tx \in TxIds
  BY <1>1, <1>3 DEF ElementsTyped
<1>5. /\ Counted(Head(net[p][n]).tx)
      /\ Head(net[p][n]).phase \in Orders => Head(net[p][n]).tx[1] = p
  BY <1>3 DEF Funded, ItemsAreCounted, Orders
<1> QED
  BY <1>1, <1>2, <1>3, <1>4, <1>5 DEF Receives, Tm, ElementsTyped

\* Taking an item, without or with an answer that orders nothing.
LEMMA TakenQuietly ==
    ASSUME Funded, NEW n \in Nodes, NEW p \in Nodes, net[p][n] # <<>>
    PROVE  /\ Consume(n, p) => NothingNew /\ OrdersInOrder'
           /\ \A to \in Nodes, phase \in {"VOTE_YES", "VOTE_NO", "ACK_COMMIT", "ABORT"} :
                 ConsumeAndSend(n, p, to, Reply(phase, Head(net[p][n]).tx))
                     => NothingNew /\ OrdersInOrder'
<1>1. TypeOK /\ OrdersInOrder /\ ElementsTyped
  BY ElementTypes DEF Funded
<1>2. Head(net[p][n]) \in Range(net[p][n])
  BY <1>1, TailOfQueue DEF TypeOK
<1>3. Head(net[p][n]).tx \in TxIds
  BY <1>1, <1>2 DEF ElementsTyped
<1>4. ASSUME Consume(n, p) PROVE NothingNew /\ OrdersInOrder'
  <2>1. OrdersInOrder'
    BY <1>1, <1>4, OrdersKept
  <2>2. \A f, t \in Nodes : Range(net'[f][t]) \subseteq Range(net[f][t])
    BY <1>1, <1>4, ConsumeEffect
  <2> QED
    BY <2>1, <2>2 DEF NothingNew
<1>5. ASSUME NEW to \in Nodes,
             NEW phase \in {"VOTE_YES", "VOTE_NO", "ACK_COMMIT", "ABORT"},
             ConsumeAndSend(n, p, to, Reply(phase, Head(net[p][n]).tx))
      PROVE  NothingNew /\ OrdersInOrder'
  <2>1. PICK item \in Items :
            /\ item = Reply(phase, Head(net[p][n]).tx)
            /\ item.phase = phase /\ item.tx = Head(net[p][n]).tx
    <3>1. phase \in TxPhases
      BY DEF TxPhases
    <3>2. Reply(phase, Head(net[p][n]).tx) \in Items
      BY <1>3, <3>1, ReplyTypes
    <3>3. /\ Reply(phase, Head(net[p][n]).tx).phase = phase
          /\ Reply(phase, Head(net[p][n]).tx).tx = Head(net[p][n]).tx
      BY DEF Reply, Item
    <3> QED
      BY <3>2, <3>3
  <2>2. ConsumeAndSend(n, p, to, item) /\ item.phase \notin Orders
    BY <1>5, <2>1 DEF Orders
  <2>3. OrdersInOrder'
    BY <1>1, <2>2, OrdersKept DEF Follows
  <2>4. OnlyAdds(n, to, item)
    BY <1>1, <2>2, ConsumeAndSendEffect
  <2>5. NothingNew
    <3> SUFFICES ASSUME NEW f \in Nodes, NEW t \in Nodes,
                        NEW new \in Range(net'[f][t]), new \notin Range(net[f][t])
                 PROVE  /\ new.phase \notin Orders
                        /\ \E g, h \in Nodes : \E old \in Range(net[g][h]) :
                              old.tx = new.tx
      BY DEF NothingNew
    <3>1. new = item
      BY <2>4 DEF OnlyAdds
    <3> QED
      BY <1>2, <2>1, <2>2, <3>1
  <2> QED
    BY <2>3, <2>5
<1> QED
  BY <1>4, <1>5

\* What goes on when no process ends.
LEMMA GoesOn == UNCHANGED <<sequence, up>> => Lifetimes
  BY DEF Lifetimes

\* The end of a process, even if it answered before.
LEMMA EndsQuietly ==
    ASSUME TypeOK, OrdersInOrder, NEW n \in Nodes, NEW sent, Ends(n, sent),
           \A t \in Nodes :
              \/ sent[t] = net[n][t]
              \/ \E any \in Items :
                    /\ sent[t] = Post(t, net[n][t], any)
                    /\ any.phase \notin Orders
                    /\ \E g, h \in Nodes : \E old \in Range(net[g][h]) :
                          old.tx = any.tx
    PROVE  /\ NothingNew /\ OrdersInOrder' /\ OnlyForgets /\ Lifetimes
           /\ \A id \in TxIds : currentTX'[n][id] = NoTM
<1>1. \A f, t \in Nodes : net[f][t] \in Seq(Items) /\ InOrder(net[f][t])
  BY DEF TypeOK, OrdersInOrder
<1>2. PICK kept \in [Nodes -> UNION {Prefixes(sent[t]) : t \in Nodes}] :
          /\ \A t \in Nodes : kept[t] \in Prefixes(sent[t])
          /\ net' = [f \in Nodes |-> [t \in Nodes |->
                        IF t = n THEN <<>>
                        ELSE IF f = n THEN kept[t] ELSE net[f][t]]]
  BY DEF Ends
<1>3. ASSUME NEW t \in Nodes
      PROVE  /\ InOrder(kept[t])
             /\ \A item \in Range(kept[t]) :
                   \/ item \in Range(net[n][t])
                   \/ /\ item.phase \notin Orders
                      /\ \E g, h \in Nodes : \E old \in Range(net[g][h]) :
                            old.tx = item.tx
  <2>1. kept[t] \in Prefixes(sent[t])
    BY <1>2
  <2>2. CASE sent[t] = net[n][t]
    <3>1. Range(kept[t]) \subseteq Range(net[n][t])
      BY <1>1, <2>1, <2>2, PrefixOfQueue
    <3>2. InOrder(kept[t])
      BY <1>1, <2>1, <2>2, OrderOfRest
    <3> QED
      BY <3>1, <3>2
  <2>3. CASE sent[t] # net[n][t]
    <3>1. PICK any \in Items :
              /\ sent[t] = Post(t, net[n][t], any)
              /\ any.phase \notin Orders
              /\ \E g, h \in Nodes : \E old \in Range(net[g][h]) :
                    old.tx = any.tx
      BY <2>3
    <3>2. sent[t] \in Seq(Items)
      BY <1>1, <3>1, AppendToQueue DEF Post
    <3>3. Range(sent[t]) \subseteq Range(net[n][t]) \cup {any}
      BY <1>1, <3>1, PostEffect
    <3>4. InOrder(sent[t])
      BY <1>1, <3>1, OrderOfSent DEF Follows
    <3>5. Range(kept[t]) \subseteq Range(sent[t])
      BY <2>1, <3>2, PrefixOfQueue
    <3>6. InOrder(kept[t])
      BY <2>1, <3>2, <3>4, OrderOfRest
    <3> QED
      BY <3>1, <3>3, <3>5, <3>6
  <2> QED
    BY <2>2, <2>3
<1>4. \A f, t \in Nodes : net'[f][t] = IF t = n THEN <<>>
                                       ELSE IF f = n THEN kept[t] ELSE net[f][t]
  BY <1>2
<1>5. OrdersInOrder'
  <2>1. InOrder(<<>>)
    BY DEF InOrder
  <2> QED
    BY <1>1, <1>3, <1>4, <2>1 DEF OrdersInOrder
<1>6. NothingNew
  <2>1. Range(<<>>) = {}
    BY DEF Range
  <2> QED
    BY <1>3, <1>4, <2>1 DEF NothingNew
<1>7. OnlyForgets /\ Lifetimes /\ \A id \in TxIds : currentTX'[n][id] = NoTM
  <2>1. /\ currentTX' = [currentTX EXCEPT ![n] = [id \in TxIds |-> NoTM]]
        /\ up' = [up EXCEPT ![n] = FALSE]
        /\ sequence' = [sequence EXCEPT ![n] = FirstSequence]
    BY DEF Ends
  <2>2. /\ ~up'[n] /\ \A id \in TxIds : currentTX'[n][id] = NoTM
        /\ \A m \in Nodes : m # n => /\ up'[m] = up[m]
                                     /\ sequence'[m] = sequence[m]
                                     /\ currentTX'[m] = currentTX[m]
    BY <2>1 DEF TypeOK
  <2> QED
    BY <2>2 DEF OnlyForgets, Lifetimes
<1> QED
  BY <1>5, <1>6, <1>7

\* A process that ends leaves nothing that is not covered.
LEMMA DieFunds ==
    ASSUME Funded, TypeOK', NEW n \in Nodes, Die(n)
    PROVE  Funded'
<1>1. TypeOK /\ OrdersInOrder /\ Ends(n, net[n]) /\ UNCHANGED peers
  BY DEF Funded, Die
<1>2. NothingNew /\ OrdersInOrder' /\ OnlyForgets /\ Lifetimes
  BY <1>1, EndsQuietly
<1> QED
  BY <1>1, <1>2, HarmlessFunds

\* A second QUERY, an ABORT, an item for a payment that is gone.
LEMMA RefusalFunds ==
    ASSUME Funded, TypeOK', NEW n \in Nodes, NEW p \in Nodes,
           \/ CohorteRequery(n, p)
           \/ CohorteUninitialised(n, p)
           \/ AbortPayment(n, p)
           \/ UnknownPhase(n, p)
    PROVE  Funded'
<1>1. TypeOK
  BY DEF Funded
<1>2. CASE CohorteRequery(n, p)
  <2>1. /\ Receives(n, p, {"QUERY"}) /\ Tm(n, p).role = "cohorte"
        /\ ConsumeAndSend(n, p, Tm(n, p).peer, Reply("ABORT", Head(net[p][n]).tx))
        /\ Forget(n, Head(net[p][n]).tx)
        /\ UNCHANGED <<peers, sequence, up>>
    BY <1>2 DEF CohorteRequery
  <2>2. /\ net[p][n] # <<>> /\ Head(net[p][n]).tx \in TxIds
        /\ Tm(n, p) \in Managers
    BY <2>1, TakenItem
  <2>3. Tm(n, p).peer \in Nodes
    BY <2>1, <2>2, ManagerTypes
  <2>4. NothingNew /\ OrdersInOrder'
    BY <2>1, <2>2, <2>3, TakenQuietly
  <2>5. OnlyForgets
    BY <1>1, <2>1, <2>2, ForgetForgets
  <2> QED
    BY <2>1, <2>4, <2>5, GoesOn, HarmlessFunds
<1>3. CASE CohorteUninitialised(n, p) /\ ~Die(n)
  <2>1. /\ Receives(n, p, {"COMMIT", "ABORT"})
        /\ UNCHANGED <<peers, currentTX, sequence, up>>
        /\ \/ Consume(n, p)
           \/ \E t \in Nodes \ {n} :
                 ConsumeAndSend(n, p, t, Reply("ABORT", Head(net[p][n]).tx))
    BY <1>3 DEF CohorteUninitialised
  <2>2. net[p][n] # <<>>
    BY <2>1 DEF Receives
  <2>3. NothingNew /\ OrdersInOrder'
    BY <2>1, <2>2, TakenQuietly
  <2>4. OnlyForgets
    BY <2>1 DEF OnlyForgets
  <2> QED
    BY <2>1, <2>3, <2>4, GoesOn, HarmlessFunds
<1>4. CASE AbortPayment(n, p)
  <2>1. /\ Receives(n, p, EndsWithoutCommit(Tm(n, p).role))
        /\ Consume(n, p) /\ Forget(n, Head(net[p][n]).tx)
        /\ UNCHANGED <<peers, sequence, up>>
    BY <1>4 DEF AbortPayment
  <2>2. net[p][n] # <<>> /\ Head(net[p][n]).tx \in TxIds
    BY <2>1, TakenItem
  <2>3. NothingNew /\ OrdersInOrder'
    BY <2>1, <2>2, TakenQuietly
  <2>4. OnlyForgets
    BY <1>1, <2>1, <2>2, ForgetForgets
  <2> QED
    BY <2>1, <2>3, <2>4, GoesOn, HarmlessFunds
<1>5. CASE Die(n)
  BY <1>5, DieFunds
<1> QED
  BY <1>2, <1>3, <1>4, <1>5 DEF UnknownPhase

\* The janitor and the link.
LEMMA LossFunds ==
    ASSUME Funded, TypeOK', NEW n \in Nodes, NEW p \in Nodes,
           Timeout(n) \/ DropLink(n, p) \/ Crash(n)
    PROVE  Funded'
<1>1. TypeOK /\ OrdersInOrder
  BY DEF Funded
<1>2. CASE Timeout(n) /\ ~Die(n)
  <2>1. PICK expired \in SUBSET TxIds :
            /\ currentTX' = [currentTX EXCEPT ![n] =
                  [id \in TxIds |-> IF id \in expired THEN NoTM ELSE @[id]]]
            /\ UNCHANGED <<peers, sequence, net, up>>
    BY <1>2 DEF Timeout, ManagersOf
  <2>2. OnlyForgets
    BY <1>1, <2>1 DEF OnlyForgets, TypeOK
  <2>3. NothingNew /\ OrdersInOrder'
    BY <1>1, <2>1 DEF NothingNew, OrdersInOrder
  <2> QED
    BY <2>1, <2>2, <2>3, GoesOn, HarmlessFunds
<1>3. CASE DropLink(n, p)
  <2>1. PICK there \in Prefixes(net[n][p]), back \in Prefixes(net[p][n]) :
            net' = [net EXCEPT ![n][p] = there, ![p][n] = back]
    BY <1>3 DEF DropLink
  <2>4. \A f, t \in Nodes : \/ net'[f][t] \in {<<>>, net[f][t]}
                            \/ net'[f][t] \in Prefixes(net[f][t])
    BY <1>1, <2>1, ZenonT(40) DEF TypeOK
  <2>5. OrdersInOrder'
    BY <1>1, <2>4, OrdersKept
  <2>6. \A f, t \in Nodes : Range(net'[f][t]) \subseteq Range(net[f][t])
    BY <1>1, <2>4, LossEffect
  <2>7. UNCHANGED <<peers, currentTX, sequence, up>>
    BY <1>3 DEF DropLink
  <2>8. NothingNew /\ OnlyForgets
    BY <2>6, <2>7 DEF NothingNew, OnlyForgets
  <2> QED
    BY <2>5, <2>7, <2>8, GoesOn, HarmlessFunds
<1>4. CASE Die(n)
  BY <1>4, DieFunds
<1> QED
  BY <1>2, <1>3, <1>4 DEF Crash

-----------------------------------------------------------------------------
(* Steps that do something.                                                *)

\* The first order of a queue is not newer than those behind it.
LEMMA HeadIsOldest ==
    ASSUME NEW q \in Seq(Items), q # <<>>, InOrder(q), Head(q).phase \in Orders,
           NEW item \in Range(q), item.phase \in Orders
    PROVE  Head(q).tx[2] <= item.tx[2]
<1>1. DOMAIN q = 1..Len(q) /\ Len(q) \in Nat \ {0} /\ Head(q) = q[1]
  BY LenProperties, EmptySeq
<1>2. PICK j \in 1..Len(q) : item = q[j]
  BY <1>1 DEF Range
<1>3. CASE j = 1
  <2>1. q[1] \in Items
    BY <1>1
  <2>2. q[1].tx[2] \in Int
    BY <2>1, Kinds DEF Items
  <2> QED
    BY <1>1, <1>2, <1>3, <2>2
<1>4. CASE j # 1
  <2>1. 1 < j /\ 1 \in DOMAIN q /\ j \in DOMAIN q
    BY <1>1, <1>4
  <2> QED
    BY <1>1, <1>2, <2>1 DEF InOrder, Orders
<1> QED
  BY <1>3, <1>4

\* The vote: no, or yes with a manager for an amount that is covered.
LEMMA CohorteQueryFunds ==
    ASSUME Funded, TypeOK', NEW n \in Nodes, NEW p \in Nodes, CohorteQuery(n, p)
    PROVE  Funded'
<1> DEFINE item == Head(net[p][n])
<1> DEFINE id == item.tx
<1>1. TypeOK /\ OrdersInOrder /\ ElementsTyped
  BY ElementTypes DEF Funded
<1>2. /\ Receives(n, p, {"QUERY"}) /\ Tm(n, p) = NoTM
      /\ UNCHANGED <<peers, sequence, up>>
  BY DEF CohorteQuery
<1>3. /\ net[p][n] # <<>> /\ up[n] /\ item \in Range(net[p][n])
      /\ item.phase \in {"QUERY"} /\ id \in TxIds /\ Counted(id)
      /\ item.phase \in Orders => id[1] = p
      /\ item \in Items
      /\ Tm(n, p) = currentTX[n][id]
  BY <1>2, TakenItem
<1>4. id[1] = p /\ p # n /\ item.amount \in Amounts /\ item.phase = "QUERY"
  BY <1>3 DEF Orders, Funded, ItemsAreCounted
<1>5. Lifetimes /\ NoTM.role = "none"
  BY <1>2, GoesOn, Kinds
<1>6. CASE ~PayerHasFunds(n, p, item.amount)
  <2>1. ConsumeAndSend(n, p, p, Reply("VOTE_NO", id)) /\ UNCHANGED currentTX
    BY <1>6 DEF CohorteQuery
  <2>2. NothingNew /\ OrdersInOrder' /\ OnlyForgets
    BY <1>3, <2>1, TakenQuietly DEF OnlyForgets
  <2> QED
    BY <1>2, <1>5, <2>2, HarmlessFunds
<1>7. CASE PayerHasFunds(n, p, item.amount)
  <2>1. /\ ConsumeAndSend(n, p, p, Reply("VOTE_YES", id))
        /\ currentTX' = [currentTX EXCEPT ![n][id] = Cohorte(p, item.amount)]
    BY <1>7 DEF CohorteQuery
  <2>2. NothingNew /\ OrdersInOrder'
    BY <1>3, <2>1, TakenQuietly
  <2>3. /\ currentTX'[n][id] = Cohorte(p, item.amount)
        /\ \A m \in Nodes, j \in TxIds :
              ~(m = n /\ j = id) => currentTX'[m][j] = currentTX[m][j]
    BY <1>1, <1>3, <2>1 DEF TypeOK
  <2>4. /\ currentTX'[n][id].role = "cohorte"
        /\ currentTX'[n][id].peer = p
        /\ currentTX'[n][id].amount = item.amount
    BY <2>3 DEF Cohorte
  <2> HIDE DEF id, item
  <2>5. \A m \in Nodes, j \in TxIds :
           currentTX'[m][j].role = "coordinator" =>
               currentTX'[m][j] = currentTX[m][j]
    BY <2>3, <2>4
  <2>6. /\ \A m \in Nodes, j \in TxIds : Counted(j)' <=> Counted(j)
        /\ UNCHANGED <<sequence, peers, up>>
    BY <1>2 DEF Counted
  <2>7. ManagersAreCounted'
    BY <1>3, <2>3, <2>6 DEF Funded, ManagersAreCounted
  <2>8. ItemsAreCounted'
    BY <1>1, <1>5, <2>2, QuietItems DEF Funded
  <2>9. NewestIsFunded'
    BY <2>5, <2>6 DEF Funded, NewestIsFunded
  <2>10. UnqueriedIsUnheard'
    <3> SUFFICES ASSUME NEW m \in Nodes, NEW j \in TxIds,
                        currentTX'[m][j].role = "coordinator",
                        ~currentTX'[m][j].queried
                 PROVE  /\ \A f, t \in Nodes : \A x \in Range(net'[f][t]) : x.tx # j
                        /\ \A o \in Nodes : currentTX'[o][j].role # "cohorte"
      BY DEF UnqueriedIsUnheard
    <3>1. /\ \A f, t \in Nodes : \A x \in Range(net[f][t]) : x.tx # j
          /\ \A o \in Nodes : currentTX[o][j].role # "cohorte"
      BY <2>5 DEF Funded, UnqueriedIsUnheard
    <3>2. j # id
      BY <1>3, <3>1 DEF id
    <3> QED
      BY <2>2, <2>3, <3>1, <3>2 DEF NothingNew
  <2>11. CohortesAreNewest'
    <3> SUFFICES ASSUME NEW m \in Nodes, NEW j \in TxIds,
                        currentTX'[m][j].role = "cohorte"
                 PROVE  LET tm == currentTX'[m][j]
                        IN /\ j[1] = tm.peer /\ tm.peer # m /\ tm.amount \in Amounts
                           /\ \A x \in Range(net'[tm.peer][m]) :
                                 x.phase \in {"QUERY", "COMMIT"} => j[2] <= x.tx[2]
      BY DEF CohortesAreNewest
    <3>1. CASE m = n /\ j = id
      <4>1. net[p][n] \in Seq(Items) /\ InOrder(net[p][n])
        BY <1>1 DEF TypeOK, OrdersInOrder
      <4>2. \A x \in Range(net[p][n]) : x.phase \in Orders => id[2] <= x.tx[2]
        BY <1>3, <1>4, <4>1, HeadIsOldest DEF Orders, id, item
      <4>3. \A x \in Range(net'[p][n]) : x.phase \in Orders => x \in Range(net[p][n])
        BY <2>2 DEF NothingNew
      <4> QED
        BY <1>4, <2>4, <3>1, <4>2, <4>3 DEF Orders
    <3>2. CASE ~(m = n /\ j = id)
      <4>1. currentTX'[m][j] = currentTX[m][j]
        BY <2>3, <3>2
      <4>2. /\ j[1] = currentTX[m][j].peer /\ currentTX[m][j].peer # m
            /\ currentTX[m][j].amount \in Amounts
            /\ \A x \in Range(net[currentTX[m][j].peer][m]) :
                  x.phase \in {"QUERY", "COMMIT"} => j[2] <= x.tx[2]
        BY <4>1 DEF Funded, CohortesAreNewest
      <4>3. currentTX[m][j].peer \in Nodes
        BY <4>2, Kinds
      <4> QED
        BY <2>2, <4>1, <4>2, <4>3 DEF NothingNew, Orders
    <3> QED
      BY <3>1, <3>2
  <2>12. VotesAreCovered'
    <3> SUFFICES ASSUME NEW m \in Nodes, NEW j \in TxIds,
                        currentTX'[m][j].role = "cohorte", MayCommit(m, j)'
                 PROVE  currentTX'[m][j].amount
                            <= PeerAvailable(peers[m][currentTX'[m][j].peer])
      BY <2>6 DEF VotesAreCovered
    <3>1. CASE m = n /\ j = id
      BY <1>7, <2>4, <3>1 DEF PayerHasFunds
    <3>2. CASE ~(m = n /\ j = id)
      <4>1. currentTX'[m][j] = currentTX[m][j] /\ j[1] \in Nodes
        BY <2>3, <3>2, Kinds
      <4>2. MayCommit(m, j)
        BY <2>2, <2>5, <4>1 DEF MayCommit, NothingNew, Orders
      <4> QED
        BY <4>1, <4>2 DEF Funded, VotesAreCovered
    <3> QED
      BY <3>1, <3>2
  <2>13. WithinCreditLines'
    BY <2>6 DEF Funded, WithinCreditLines
  <2> QED
    BY <2>2, <2>7, <2>8, <2>9, <2>10, <2>11, <2>12, <2>13 DEF Funded
<1> QED
  BY <1>6, <1>7

\* A commit writes one row at most.
LEMMA OneRowBooked ==
    ASSUME TypeOK, NEW n \in Nodes, NEW p \in Nodes, NEW record, NEW row,
           NEW done, Book(done, n, p, record, row)
    PROVE  \A m, q \in Nodes :
               \/ peers'[m][q] = peers[m][q]
               \/ m = n /\ q = p /\ peers'[m][q] = record
  BY DEF Book, TypeOK

\* What a payment does to the funds of either side.
LEMMA FundsMove ==
    ASSUME NEW c \in CreditRecord, NEW amount \in Int
    PROVE  /\ MyAvailable(Received(c, amount)) = MyAvailable(c) + amount
           /\ PeerAvailable(Received(c, amount)) = PeerAvailable(c) - amount
           /\ MyAvailable(Spent(c, amount)) = MyAvailable(c) - amount
           /\ PeerAvailable(Spent(c, amount)) = PeerAvailable(c) + amount
  BY DEF MyAvailable, PeerAvailable, Received, Spent, CreditRecord

\* Two ids with the same node and number are one.
LEMMA SameId ==
    ASSUME NEW i \in TxIds, NEW j \in TxIds, i[1] = j[1],
           i[2] <= j[2], j[2] <= i[2]
    PROVE  i = j
<1>1. i[2] = j[2]
  BY Kinds
<1> QED
  BY <1>1, Kinds

\* What the invariant says of one cohorte and of one coordinator.
LEMMA CohorteFacts ==
    ASSUME Funded, NEW n \in Nodes, NEW id \in TxIds,
           NEW tm, tm = currentTX[n][id], tm.role = "cohorte"
    PROVE  /\ id[1] = tm.peer /\ tm.peer \in Nodes /\ tm.peer # n
           /\ tm.amount \in Amounts /\ tm.amount \in Int
           /\ \A x \in Range(net[tm.peer][n]) : x.phase \in Orders => id[2] <= x.tx[2]
           /\ MayCommit(n, id) => tm.amount <= PeerAvailable(peers[n][tm.peer])
<1>1. CohortesAreNewest /\ VotesAreCovered
  BY DEF Funded
<1>2. /\ id[1] = tm.peer /\ tm.peer # n /\ tm.amount \in Amounts
      /\ \A x \in Range(net[tm.peer][n]) : x.phase \in Orders => id[2] <= x.tx[2]
  BY <1>1 DEF CohortesAreNewest, Orders
<1>3. MayCommit(n, id) => tm.amount <= PeerAvailable(peers[n][tm.peer])
  BY <1>1 DEF VotesAreCovered
<1> QED
  BY <1>2, <1>3, Kinds

\* What the invariant says of one coordinator.
LEMMA CoordinatorFacts ==
    ASSUME Funded, NEW n \in Nodes, NEW id \in TxIds,
           NEW tm, tm = currentTX[n][id], tm.role = "coordinator"
    PROVE  /\ id = <<n, sequence[n]>> /\ up[n]
           /\ tm.peer \in Nodes /\ tm.peer # n
           /\ tm.amount \in Amounts /\ tm.amount \in Int /\ tm.avail \in Int
           /\ tm.queried => tm.amount <= MyAvailable(peers[n][tm.peer])
           /\ ~tm.queried => tm.avail <= MyAvailable(peers[n][tm.peer])
<1>1. NewestIsFunded /\ ManagersAreCounted /\ TypeOK
  BY DEF Funded
<1>2. /\ id = <<n, sequence[n]>> /\ tm.peer # n /\ tm.amount \in Amounts
      /\ tm.queried => tm.amount <= MyAvailable(peers[n][tm.peer])
      /\ ~tm.queried => tm.avail <= MyAvailable(peers[n][tm.peer])
  BY <1>1 DEF NewestIsFunded
<1>3. up[n]
  BY <1>1, Kinds DEF ManagersAreCounted
<1>4. tm \in Managers
  BY <1>1 DEF TypeOK
<1> QED
  BY <1>2, <1>3, <1>4, ManagerTypes, Kinds

\* The payee books what its vote was covered for, and no other vote that may
\* still be committed leans on the same funds.
LEMMA ReceiverFunds ==
    ASSUME Funded, TypeOK', Amounts \subseteq Nat,
           NEW n \in Nodes, NEW p \in Nodes, NEW done,
           Receives(n, p, {"COMMIT"}), Tm(n, p).role = "cohorte",
           CommitReceiver(done, n, Tm(n, p).peer, Head(net[p][n]).tx,
                          Tm(n, p).amount),
           NothingNew, OrdersInOrder', OnlyForgets, Lifetimes,
           currentTX'[n][Head(net[p][n]).tx] = NoTM
    PROVE  Funded'
<1> DEFINE item == Head(net[p][n])
<1> DEFINE id == item.tx
<1> DEFINE tm == Tm(n, p)
<1>1. TypeOK /\ NoTM.role = "none"
  BY Kinds DEF Funded
<1>2. /\ Receives(n, p, {"COMMIT"}) /\ tm.role = "cohorte"
      /\ Book(done, n, tm.peer, Received(peers[n][tm.peer], tm.amount),
              LogRow(tm.peer, id, tm.amount))
  BY DEF CommitReceiver
<1>3. /\ net[p][n] # <<>> /\ item \in Range(net[p][n])
      /\ item.phase = "COMMIT" /\ id \in TxIds /\ Counted(id)
      /\ id[1] = p
      /\ tm = currentTX[n][id]
  BY <1>2, TakenItem DEF Orders
<1>4. /\ tm.peer = p /\ p # n /\ tm.amount \in Amounts
      /\ \A x \in Range(net[p][n]) : x.phase \in Orders => id[2] <= x.tx[2]
      /\ MayCommit(n, id) => tm.amount <= PeerAvailable(peers[n][p])
  <2> HIDE DEF tm, id, item
  <2>1. /\ id[1] = tm.peer /\ tm.peer # n /\ tm.amount \in Amounts
        /\ \A x \in Range(net[tm.peer][n]) : x.phase \in Orders => id[2] <= x.tx[2]
        /\ MayCommit(n, id) => tm.amount <= PeerAvailable(peers[n][tm.peer])
    BY <1>2, <1>3, CohorteFacts
  <2> QED
    BY <1>3, <2>1
<1>5. tm.amount <= PeerAvailable(peers[n][p])
  BY <1>3, <1>4 DEF MayCommit
<1>8. currentTX'[n][id] = NoTM
  OBVIOUS
<1> HIDE DEF tm, id, item
<1>9. PICK amount \in Amounts : amount = tm.amount
  BY <1>4
<1>10. \A m, q \in Nodes :
          \/ peers'[m][q] = peers[m][q]
          \/ m = n /\ q = p /\ peers'[m][q] = Received(peers[m][q], amount)
  <2>1. Book(done, n, p, Received(peers[n][p], amount), LogRow(p, id, amount))
    BY <1>2, <1>4, <1>9
  <2> QED
    BY <1>1, <2>1, OneRowBooked
<1>11. \A m, q \in Nodes :
          /\ MyAvailable(peers[m][q]) <= MyAvailable(peers'[m][q])
          /\ MyAvailable(peers'[m][q]) \in Int
          /\ PeerAvailable(peers'[m][q]) >= 0
          /\ ~(m = n /\ q = p) => peers'[m][q] = peers[m][q]
  <2> TAKE m, q \in Nodes
  <2>1. peers[m][q] \in CreditRecord /\ amount \in Nat
        /\ MyAvailable(peers[m][q]) \in Int /\ PeerAvailable(peers[m][q]) \in Int
    BY <1>1, Kinds
  <2>2. CASE peers'[m][q] = peers[m][q]
    BY <2>1, <2>2 DEF Funded, WithinCreditLines
  <2>3. CASE m = n /\ q = p /\ peers'[m][q] = Received(peers[m][q], amount)
    <3>1. /\ MyAvailable(peers'[m][q]) = MyAvailable(peers[m][q]) + amount
          /\ PeerAvailable(peers'[m][q]) = PeerAvailable(peers[m][q]) - amount
      BY <2>1, <2>3, FundsMove
    <3> QED
      BY <1>5, <1>9, <2>1, <2>3, <3>1
  <2> QED
    BY <1>10, <2>2, <2>3
<1>12. /\ ManagersAreCounted' /\ ItemsAreCounted'
       /\ UnqueriedIsUnheard' /\ CohortesAreNewest'
       /\ \A m \in Nodes, j \in TxIds :
             currentTX'[m][j].role = "coordinator" =>
                 /\ currentTX'[m][j] = currentTX[m][j]
                 /\ sequence'[m] = sequence[m]
       /\ \A m \in Nodes, j \in TxIds :
             currentTX'[m][j].role = "cohorte" =>
                 /\ currentTX'[m][j] = currentTX[m][j]
                 /\ MayCommit(m, j)' => MayCommit(m, j)
  BY QuietStep
<1>13. NewestIsFunded'
  <2> SUFFICES ASSUME NEW m \in Nodes, NEW j \in TxIds,
                      currentTX'[m][j].role = "coordinator"
               PROVE  LET now == currentTX'[m][j]
                      IN /\ j = <<m, sequence'[m]>>
                         /\ now.peer # m /\ now.amount \in Amounts
                         /\ now.queried =>
                               now.amount <= MyAvailable(peers'[m][now.peer])
                         /\ ~now.queried =>
                               now.avail <= MyAvailable(peers'[m][now.peer])
    BY DEF NewestIsFunded
  <2>1. PICK old \in Managers : old = currentTX'[m][j] /\ old = currentTX[m][j]
    BY <1>1, <1>12 DEF TypeOK
  <2>2. /\ j = <<m, sequence'[m]>> /\ old.peer # m /\ old.amount \in Amounts
        /\ old.queried => old.amount <= MyAvailable(peers[m][old.peer])
        /\ ~old.queried => old.avail <= MyAvailable(peers[m][old.peer])
        /\ old.peer \in Nodes /\ old.amount \in Int /\ old.avail \in Int
    <3>1. old.role = "coordinator" /\ sequence'[m] = sequence[m]
      BY <1>12, <2>1
    <3> QED
      BY <2>1, <3>1, CoordinatorFacts
  <2>3. MyAvailable(peers[m][old.peer]) \in Int
    BY <1>1, <2>2, Kinds
  <2>4. /\ MyAvailable(peers[m][old.peer]) <= MyAvailable(peers'[m][old.peer])
        /\ MyAvailable(peers'[m][old.peer]) \in Int
    BY <1>11, <2>2
  <2> QED
    BY <2>1, <2>2, <2>3, <2>4
<1>14. VotesAreCovered'
  <2> SUFFICES ASSUME NEW m \in Nodes, NEW j \in TxIds,
                      currentTX'[m][j].role = "cohorte", MayCommit(m, j)'
               PROVE  currentTX'[m][j].amount
                          <= PeerAvailable(peers'[m][currentTX'[m][j].peer])
    BY DEF VotesAreCovered
  <2>1. /\ currentTX'[m][j] = currentTX[m][j] /\ MayCommit(m, j)
        /\ currentTX[m][j].role = "cohorte"
    BY <1>12
  <2>2. /\ currentTX[m][j].amount <= PeerAvailable(peers[m][currentTX[m][j].peer])
        /\ j[1] = currentTX[m][j].peer /\ j[1] \in Nodes
        /\ \A x \in Range(net[j[1]][m]) : x.phase \in Orders => j[2] <= x.tx[2]
    BY <2>1, CohorteFacts
  <2>3. ~(m = n /\ j[1] = p)
    <3> SUFFICES ASSUME m = n, j[1] = p PROVE FALSE
      OBVIOUS
    <3>1. j[2] <= id[2]
      BY <1>3, <2>2 DEF Orders, id
    <3>2. CASE \E x \in Range(net[p][n]) : x.phase = "COMMIT" /\ x.tx = j
      <4>1. id[2] <= j[2]
        BY <1>4, <3>2 DEF Orders
      <4>2. j = id
        BY <1>3, <3>1, <4>1, SameId
      <4> QED
        BY <1>1, <1>8, <4>2
    <3>3. CASE currentTX[p][j].role = "coordinator"
      <4>1. j = <<p, sequence[p]>> /\ up[p]
        BY <1>1, <3>3 DEF Funded, NewestIsFunded, ManagersAreCounted
      <4>2. id[2] <= j[2]
        BY <1>3, <4>1 DEF Counted
      <4>3. j = id
        BY <1>3, <3>1, <4>2, SameId
      <4> QED
        BY <1>1, <1>8, <4>3
    <3> QED
      BY <2>1, <3>2, <3>3 DEF MayCommit
  <2> QED
    BY <1>11, <2>1, <2>2, <2>3
<1>15. WithinCreditLines'
  <2> SUFFICES ASSUME NEW m \in Nodes, NEW q \in Nodes
               PROVE  /\ PeerAvailable(peers'[m][q]) >= 0
                      /\ MyAvailable(peers'[m][q]) >= 0
    BY DEF WithinCreditLines
  <2>1. MyAvailable(peers[m][q]) >= 0 /\ MyAvailable(peers[m][q]) \in Int
    BY <1>1, Kinds DEF Funded, WithinCreditLines
  <2> QED
    BY <1>11, <2>1
<1> QED
  BY <1>12, <1>13, <1>14, <1>15 DEF Funded

\* A commit of the payee whose process goes on.
LEMMA CohorteCommitFunds ==
    ASSUME Funded, TypeOK', Amounts \subseteq Nat,
           NEW n \in Nodes, NEW p \in Nodes, CohorteCommit(n, p)
    PROVE  Funded'
<1> DEFINE id == Head(net[p][n]).tx
<1> DEFINE tm == Tm(n, p)
<1>1. TypeOK
  BY DEF Funded
<1>2. PICK done \in WritesDone :
      /\ Receives(n, p, {"COMMIT"}) /\ tm.role = "cohorte"
      /\ ConsumeAndSend(n, p, tm.peer, Reply("ACK_COMMIT", id))
      /\ CommitReceiver(done, n, tm.peer, id, tm.amount)
      /\ Forget(n, id)
      /\ UNCHANGED <<sequence, up>>
  BY DEF CohorteCommit
<1>3. net[p][n] # <<>> /\ id \in TxIds /\ tm = currentTX[n][id]
  BY <1>2, TakenItem
<1>4. tm.peer \in Nodes
  <2> HIDE DEF tm, id
  <2> QED
    BY <1>2, <1>3, CohorteFacts
<1>5. NothingNew /\ OrdersInOrder'
  BY <1>2, <1>3, <1>4, TakenQuietly
<1>6. OnlyForgets /\ Lifetimes
  BY <1>1, <1>2, <1>3, ForgetForgets, GoesOn
<1>7. currentTX'[n][id] = NoTM
  BY <1>1, <1>2, <1>3 DEF Forget, TypeOK
<1> QED
  BY <1>2, <1>5, <1>6, <1>7, ReceiverFunds

\* The same when its process ends: whatever was written, no manager is left.
LEMMA CohorteTornFunds ==
    ASSUME Funded, TypeOK', Amounts \subseteq Nat,
           NEW n \in Nodes, NEW p \in Nodes, CohorteTorn(n, p)
    PROVE  Funded'
<1> DEFINE id == Head(net[p][n]).tx
<1> DEFINE tm == Tm(n, p)
<1> DEFINE sent == [net[n] EXCEPT ![tm.peer] =
                       Post(tm.peer, @, Reply("ACK_COMMIT", id))]
<1>1. TypeOK /\ OrdersInOrder
  BY DEF Funded
<1>2. PICK done \in 0..1 :
      /\ Receives(n, p, {"COMMIT"}) /\ tm.role = "cohorte"
      /\ Ends(n, sent)
      /\ CommitReceiver(done, n, tm.peer, id, tm.amount)
  BY DEF CohorteTorn
<1>3. Head(net[p][n]) \in Range(net[p][n]) /\ id \in TxIds /\ tm = currentTX[n][id]
  BY <1>2, TakenItem
<1>4. PICK ack \in Items :
          /\ ack = Reply("ACK_COMMIT", id) /\ ack.phase \notin Orders /\ ack.tx = id
  <2>1. Reply("ACK_COMMIT", id) \in Items
    BY <1>3, ReplyTypes DEF TxPhases
  <2> QED
    BY <2>1 DEF Reply, Item, Orders
<1>5. \A t \in Nodes : \/ sent[t] = net[n][t]
                        \/ sent[t] = Post(t, net[n][t], ack)
  <2>1. DOMAIN net[n] = Nodes
    BY <1>1 DEF TypeOK
  <2> QED
    BY <1>4, <2>1
<1> HIDE DEF tm, sent
<1>6. \A t \in Nodes :
         \/ sent[t] = net[n][t]
         \/ \E any \in Items :
               /\ sent[t] = Post(t, net[n][t], any)
               /\ any.phase \notin Orders
               /\ \E g, h \in Nodes : \E old \in Range(net[g][h]) : old.tx = any.tx
  BY <1>3, <1>4, <1>5
<1>7. /\ NothingNew /\ OrdersInOrder' /\ OnlyForgets /\ Lifetimes
      /\ currentTX'[n][id] = NoTM
  <2>1. PICK left : left = sent
    OBVIOUS
  <2>2. Ends(n, left)
    BY <1>2, <2>1
  <2>3. \A t \in Nodes :
           \/ left[t] = net[n][t]
           \/ \E any \in Items :
                 /\ left[t] = Post(t, net[n][t], any)
                 /\ any.phase \notin Orders
                 /\ \E g, h \in Nodes : \E old \in Range(net[g][h]) : old.tx = any.tx
    BY <1>6, <2>1
  <2> HIDE DEF id
  <2> QED
    BY <1>1, <1>3, <2>2, <2>3, EndsQuietly
<1> QED
  BY <1>2, <1>7, ReceiverFunds DEF tm

\* The payer books what it had when it began, and it began nothing else.
LEMMA SpenderFunds ==
    ASSUME Funded, TypeOK', Amounts \subseteq Nat,
           NEW n \in Nodes, NEW p \in Nodes, NEW done,
           Receives(n, p, {"ACK_COMMIT"}), Tm(n, p).role = "coordinator",
           CommitSpender(done, n, Tm(n, p).peer, Head(net[p][n]).tx,
                         Tm(n, p).amount),
           NothingNew, OrdersInOrder', OnlyForgets, Lifetimes,
           currentTX'[n][Head(net[p][n]).tx] = NoTM
    PROVE  Funded'
<1> DEFINE item == Head(net[p][n])
<1> DEFINE id == item.tx
<1> DEFINE tm == Tm(n, p)
<1>1. TypeOK /\ NoTM.role = "none"
  BY Kinds DEF Funded
<1>2. /\ Receives(n, p, {"ACK_COMMIT"}) /\ tm.role = "coordinator"
      /\ Book(done, n, tm.peer, Spent(peers[n][tm.peer], tm.amount),
              LogRow(tm.peer, id, -tm.amount))
  BY DEF CommitSpender
<1>3. /\ net[p][n] # <<>> /\ item \in Range(net[p][n])
      /\ id \in TxIds /\ tm = currentTX[n][id] /\ tm \in Managers
  BY <1>2, TakenItem
<1>4. tm.queried
  BY <1>2, <1>3 DEF Funded, UnqueriedIsUnheard
<1>5. /\ id = <<n, sequence[n]>> /\ tm.amount \in Amounts
      /\ tm.amount <= MyAvailable(peers[n][tm.peer])
  <2> HIDE DEF tm, id, item
  <2> QED
    BY <1>2, <1>3, <1>4, CoordinatorFacts
<1>8. currentTX'[n][id] = NoTM
  OBVIOUS
<1>9. PICK to \in Nodes : to = tm.peer
  BY <1>2, <1>3, ManagerTypes
<1> HIDE DEF tm, id, item
<1>10. PICK amount \in Amounts : amount = tm.amount
  BY <1>5
<1>11. \A m, q \in Nodes :
          \/ peers'[m][q] = peers[m][q]
          \/ m = n /\ q = to /\ peers'[m][q] = Spent(peers[m][q], amount)
  <2>1. Book(done, n, to, Spent(peers[n][to], amount), LogRow(to, id, -amount))
    BY <1>2, <1>9, <1>10
  <2> QED
    BY <1>1, <2>1, OneRowBooked
<1>12. \A m, q \in Nodes :
          /\ PeerAvailable(peers[m][q]) <= PeerAvailable(peers'[m][q])
          /\ PeerAvailable(peers'[m][q]) \in Int
          /\ MyAvailable(peers'[m][q]) >= 0
          /\ m # n => peers'[m][q] = peers[m][q]
  <2> TAKE m, q \in Nodes
  <2>1. peers[m][q] \in CreditRecord /\ amount \in Nat
        /\ MyAvailable(peers[m][q]) \in Int /\ PeerAvailable(peers[m][q]) \in Int
    BY <1>1, Kinds
  <2>2. CASE peers'[m][q] = peers[m][q]
    BY <2>1, <2>2 DEF Funded, WithinCreditLines
  <2>3. CASE m = n /\ q = to /\ peers'[m][q] = Spent(peers[m][q], amount)
    <3>1. /\ MyAvailable(peers'[m][q]) = MyAvailable(peers[m][q]) - amount
          /\ PeerAvailable(peers'[m][q]) = PeerAvailable(peers[m][q]) + amount
      BY <2>1, <2>3, FundsMove
    <3> QED
      BY <1>5, <1>9, <1>10, <2>1, <2>3, <3>1
  <2> QED
    BY <1>11, <2>2, <2>3
<1>13. /\ ManagersAreCounted' /\ ItemsAreCounted'
       /\ UnqueriedIsUnheard' /\ CohortesAreNewest'
       /\ \A m \in Nodes, j \in TxIds :
             currentTX'[m][j].role = "coordinator" =>
                 /\ currentTX'[m][j] = currentTX[m][j]
                 /\ sequence'[m] = sequence[m]
       /\ \A m \in Nodes, j \in TxIds :
             currentTX'[m][j].role = "cohorte" =>
                 /\ currentTX'[m][j] = currentTX[m][j]
                 /\ MayCommit(m, j)' => MayCommit(m, j)
  BY QuietStep
<1>14. NewestIsFunded'
  <2>1. ASSUME NEW m \in Nodes, NEW j \in TxIds,
               currentTX'[m][j].role = "coordinator"
        PROVE  m # n
    <3> SUFFICES ASSUME m = n PROVE FALSE
      OBVIOUS
    <3>1. j = <<n, sequence[n]>>
      BY <1>13, <2>1, CoordinatorFacts
    <3> QED
      BY <1>1, <1>5, <1>8, <2>1, <3>1
  <2>2. \A m, q \in Nodes : m # n => peers'[m][q] = peers[m][q]
    BY <1>12
  <2> SUFFICES ASSUME NEW m \in Nodes, NEW j \in TxIds,
                      currentTX'[m][j].role = "coordinator"
               PROVE  LET now == currentTX'[m][j]
                      IN /\ j = <<m, sequence'[m]>>
                         /\ now.peer # m /\ now.amount \in Amounts
                         /\ now.queried =>
                               now.amount <= MyAvailable(peers'[m][now.peer])
                         /\ ~now.queried =>
                               now.avail <= MyAvailable(peers'[m][now.peer])
    BY DEF NewestIsFunded
  <2>3. PICK old \in Managers : old = currentTX'[m][j] /\ old = currentTX[m][j]
    BY <1>1, <1>13 DEF TypeOK
  <2>4. old.role = "coordinator" /\ sequence'[m] = sequence[m]
    BY <1>13, <2>3
  <2>5. /\ j = <<m, sequence[m]>> /\ old.peer # m /\ old.amount \in Amounts
        /\ old.peer \in Nodes
        /\ old.queried => old.amount <= MyAvailable(peers[m][old.peer])
        /\ ~old.queried => old.avail <= MyAvailable(peers[m][old.peer])
    BY <2>3, <2>4, CoordinatorFacts
  <2>6. peers'[m][old.peer] = peers[m][old.peer]
    BY <2>1, <2>2, <2>5
  <2> QED
    BY <2>3, <2>4, <2>5, <2>6
<1>15. VotesAreCovered'
  <2> SUFFICES ASSUME NEW m \in Nodes, NEW j \in TxIds,
                      currentTX'[m][j].role = "cohorte", MayCommit(m, j)'
               PROVE  currentTX'[m][j].amount
                          <= PeerAvailable(peers'[m][currentTX'[m][j].peer])
    BY DEF VotesAreCovered
  <2>1. PICK old \in Managers : old = currentTX'[m][j] /\ old = currentTX[m][j]
    BY <1>1, <1>13 DEF TypeOK
  <2>2. /\ old.amount <= PeerAvailable(peers[m][old.peer])
        /\ old.peer \in Nodes /\ old.amount \in Int
    <3>1. old.role = "cohorte" /\ MayCommit(m, j)
      BY <1>13, <2>1
    <3> QED
      BY <2>1, <3>1, CohorteFacts
  <2>3. PeerAvailable(peers[m][old.peer]) \in Int
    BY <1>1, <2>2, Kinds
  <2>4. /\ PeerAvailable(peers[m][old.peer]) <= PeerAvailable(peers'[m][old.peer])
        /\ PeerAvailable(peers'[m][old.peer]) \in Int
    BY <1>12, <2>2
  <2> QED
    BY <2>1, <2>2, <2>3, <2>4
<1>16. WithinCreditLines'
  <2> SUFFICES ASSUME NEW m \in Nodes, NEW q \in Nodes
               PROVE  /\ PeerAvailable(peers'[m][q]) >= 0
                      /\ MyAvailable(peers'[m][q]) >= 0
    BY DEF WithinCreditLines
  <2>1. PeerAvailable(peers[m][q]) >= 0 /\ PeerAvailable(peers[m][q]) \in Int
    BY <1>1, Kinds DEF Funded, WithinCreditLines
  <2> QED
    BY <1>12, <2>1
<1> QED
  BY <1>13, <1>14, <1>15, <1>16 DEF Funded

\* The acknowledgement reached a payer that goes on, or that ends.
LEMMA CoordinatorAckFunds ==
    ASSUME Funded, TypeOK', Amounts \subseteq Nat,
           NEW n \in Nodes, NEW p \in Nodes, CoordinatorAck(n, p)
    PROVE  Funded'
<1> DEFINE id == Head(net[p][n]).tx
<1>1. TypeOK
  BY DEF Funded
<1>2. PICK done \in WritesDone :
      /\ Receives(n, p, {"ACK_COMMIT"}) /\ Tm(n, p).role = "coordinator"
      /\ Consume(n, p)
      /\ CommitSpender(done, n, Tm(n, p).peer, id, Tm(n, p).amount)
      /\ Forget(n, id)
      /\ UNCHANGED <<sequence, up>>
  BY DEF CoordinatorAck
<1>3. net[p][n] # <<>> /\ id \in TxIds
  BY <1>2, TakenItem
<1>4. NothingNew /\ OrdersInOrder'
  BY <1>2, <1>3, TakenQuietly
<1>5. OnlyForgets /\ Lifetimes
  BY <1>1, <1>2, <1>3, ForgetForgets, GoesOn
<1>6. currentTX'[n][id] = NoTM
  <2> HIDE DEF id
  <2> QED
    BY <1>1, <1>2, <1>3 DEF Forget, TypeOK
<1> QED
  BY <1>2, <1>4, <1>5, <1>6, SpenderFunds

LEMMA CoordinatorTornFunds ==
    ASSUME Funded, TypeOK', Amounts \subseteq Nat,
           NEW n \in Nodes, NEW p \in Nodes, CoordinatorTorn(n, p)
    PROVE  Funded'
<1> DEFINE id == Head(net[p][n]).tx
<1>1. /\ Receives(n, p, {"ACK_COMMIT"}) /\ Tm(n, p).role = "coordinator"
      /\ Ends(n, net[n])
      /\ CommitSpender(1, n, Tm(n, p).peer, id, Tm(n, p).amount)
  BY DEF CoordinatorTorn
<1>2. TypeOK /\ OrdersInOrder /\ id \in TxIds
  BY <1>1, TakenItem DEF Funded
<1>3. /\ NothingNew /\ OrdersInOrder' /\ OnlyForgets /\ Lifetimes
      /\ currentTX'[n][id] = NoTM
  BY <1>1, <1>2, EndsQuietly
<1> QED
  BY <1>1, <1>3, SpenderFunds

\* The order of the newest payment may follow whatever its payer sent.
LEMMA NewestFollows ==
    ASSUME Funded, NEW n \in Nodes, NEW id \in TxIds, NEW to \in Nodes,
           currentTX[n][id].role = "coordinator", NEW item, item.tx = id
    PROVE  Follows(net[n][to], item)
<1>1. id = <<n, sequence[n]>> /\ up[n]
  BY CoordinatorFacts
<1>2. \A old \in Range(net[n][to]) : old.phase \in Orders =>
          old.tx[1] = n /\ Counted(old.tx)
  BY DEF Funded, ItemsAreCounted, Orders
<1> QED
  BY <1>1, <1>2 DEF Follows, Counted

\* The payer sends an order for its open payment, which is queried now.
LEMMA OrderSentFunds ==
    ASSUME Funded, TypeOK', OrdersInOrder', UNCHANGED <<peers, sequence, up>>,
           NEW n \in Nodes, NEW id \in TxIds, NEW to \in Nodes, NEW item \in Items,
           currentTX[n][id].role = "coordinator", currentTX[n][id].peer = to,
           item.tx = id, item.phase \in Orders,
           item.phase = "QUERY" => item.amount \in Amounts,
           OnlyAdds(n, to, item),
           currentTX'[n][id].role = "coordinator",
           currentTX'[n][id].queried, currentTX'[n][id].peer = to,
           currentTX'[n][id].amount = currentTX[n][id].amount,
           currentTX[n][id].amount <= MyAvailable(peers[n][to]),
           \A m \in Nodes, j \in TxIds :
               ~(m = n /\ j = id) => currentTX'[m][j] = currentTX[m][j]
    PROVE  Funded'
<1>1. TypeOK /\ ElementsTyped /\ NoTM.role = "none"
  BY ElementTypes, Kinds DEF Funded
<1>2. /\ id = <<n, sequence[n]>> /\ up[n] /\ to # n
      /\ currentTX[n][id].amount \in Amounts
  BY CoordinatorFacts
<1>3. id[1] = n /\ id[2] = sequence[n] /\ Counted(id)
  BY <1>2, Kinds DEF Counted
<1>4. \A j \in TxIds : Counted(j)' <=> Counted(j)
  BY DEF Counted
<1>5. ManagersAreCounted'
  BY <1>2, <1>3, <1>4 DEF Funded, ManagersAreCounted
<1>6. ItemsAreCounted'
  <2> SUFFICES ASSUME NEW f \in Nodes, NEW t \in Nodes, NEW x \in Range(net'[f][t])
               PROVE  /\ Counted(x.tx)'
                      /\ x.phase \in {"QUERY", "COMMIT"} => x.tx[1] = f
                      /\ x.phase = "QUERY" => f # t /\ x.amount \in Amounts
    BY DEF ItemsAreCounted
  <2>1. CASE x \in Range(net[f][t])
    <3>1. x.tx \in TxIds
      BY <1>1, <2>1 DEF ElementsTyped
    <3>2. /\ Counted(x.tx)
          /\ x.phase \in {"QUERY", "COMMIT"} => x.tx[1] = f
          /\ x.phase = "QUERY" => f # t /\ x.amount \in Amounts
      BY <2>1 DEF Funded, ItemsAreCounted
    <3> QED
      BY <1>4, <3>1, <3>2
  <2>2. CASE x \notin Range(net[f][t])
    <3>1. f = n /\ t = to /\ x = item
      BY <2>2 DEF OnlyAdds
    <3> QED
      BY <1>2, <1>3, <1>4, <3>1
  <2> QED
    BY <2>1, <2>2
<1>7. NewestIsFunded'
  <2> SUFFICES ASSUME NEW m \in Nodes, NEW j \in TxIds,
                      currentTX'[m][j].role = "coordinator"
               PROVE  LET now == currentTX'[m][j]
                      IN /\ j = <<m, sequence[m]>>
                         /\ now.peer # m /\ now.amount \in Amounts
                         /\ now.queried =>
                               now.amount <= MyAvailable(peers[m][now.peer])
                         /\ ~now.queried =>
                               now.avail <= MyAvailable(peers[m][now.peer])
    BY DEF NewestIsFunded
  <2>1. CASE m = n /\ j = id
    BY <1>2, <2>1
  <2>2. CASE ~(m = n /\ j = id)
    <3>1. currentTX'[m][j] = currentTX[m][j]
      BY <2>2
    <3> QED
      BY <3>1, CoordinatorFacts
  <2> QED
    BY <2>1, <2>2
<1>8. UnqueriedIsUnheard'
  <2> SUFFICES ASSUME NEW m \in Nodes, NEW j \in TxIds,
                      currentTX'[m][j].role = "coordinator",
                      ~currentTX'[m][j].queried
               PROVE  /\ \A f, t \in Nodes : \A x \in Range(net'[f][t]) : x.tx # j
                      /\ \A o \in Nodes : currentTX'[o][j].role # "cohorte"
    BY DEF UnqueriedIsUnheard
  <2>1. currentTX'[m][j] = currentTX[m][j]
    OBVIOUS
  <2>2. /\ \A f, t \in Nodes : \A x \in Range(net[f][t]) : x.tx # j
        /\ \A o \in Nodes : currentTX[o][j].role # "cohorte"
    BY <2>1 DEF Funded, UnqueriedIsUnheard
  <2>3. j # id
    <3>1. j = <<m, sequence[m]>>
      BY <2>1, CoordinatorFacts
    <3>2. j = id => m = n
      BY <1>3, <3>1
    <3> QED
      BY <3>2
  <2>4. \A f, t \in Nodes : \A x \in Range(net'[f][t]) :
           x \in Range(net[f][t]) \/ x = item
    BY DEF OnlyAdds
  <2>5. \A o \in Nodes : currentTX'[o][j] = currentTX[o][j]
    BY <2>3
  <2>6. \A o \in Nodes : currentTX'[o][j].role # "cohorte"
    BY <2>2, <2>5
  <2>7. ASSUME NEW f \in Nodes, NEW t \in Nodes, NEW x \in Range(net'[f][t])
        PROVE  x.tx # j
    <3>1. CASE x \in Range(net[f][t])
      BY <2>2, <3>1
    <3>2. CASE x = item
      BY <2>3, <3>2
    <3> QED
      BY <2>4, <3>1, <3>2
  <2> QED
    BY <2>6, <2>7
<1>9. \A m \in Nodes, j \in TxIds :
         currentTX'[m][j].role = "cohorte" =>
             /\ currentTX'[m][j] = currentTX[m][j]
             /\ currentTX[m][j].role = "cohorte"
  OBVIOUS
<1>12. \A f, t \in Nodes : \A x \in Range(net'[f][t]) :
          x \in Range(net[f][t]) \/ (f = n /\ t = to /\ x = item)
  BY DEF OnlyAdds
<1>10. CohortesAreNewest'
  <2> SUFFICES ASSUME NEW m \in Nodes, NEW j \in TxIds,
                      currentTX'[m][j].role = "cohorte"
               PROVE  LET tm == currentTX'[m][j]
                      IN /\ j[1] = tm.peer /\ tm.peer # m /\ tm.amount \in Amounts
                         /\ \A x \in Range(net'[tm.peer][m]) :
                               x.phase \in {"QUERY", "COMMIT"} => j[2] <= x.tx[2]
    BY DEF CohortesAreNewest
  <2>1. PICK tm : tm = currentTX[m][j] /\ tm = currentTX'[m][j] /\ tm.role = "cohorte"
    BY <1>9
  <2>2. /\ j[1] = tm.peer /\ tm.peer \in Nodes /\ tm.peer # m
        /\ tm.amount \in Amounts
        /\ \A x \in Range(net[tm.peer][m]) : x.phase \in Orders => j[2] <= x.tx[2]
    BY <2>1, CohorteFacts
  <2>3. ASSUME tm.peer = n PROVE j[2] <= id[2]
    <3>1. Counted(j)
      BY <1>1, <2>1 DEF Funded, ManagersAreCounted
    <3> QED
      BY <1>2, <1>3, <2>2, <2>3, <3>1 DEF Counted
  <2>4. ASSUME NEW x \in Range(net'[tm.peer][m]), x.phase \in Orders
        PROVE  j[2] <= x.tx[2]
    <3>1. CASE x \in Range(net[tm.peer][m])
      BY <2>2, <2>4, <3>1
    <3>2. CASE x \notin Range(net[tm.peer][m])
      <4>1. tm.peer = n /\ x = item
        BY <1>12, <2>2, <3>2
      <4> QED
        BY <2>3, <4>1
    <3> QED
      BY <3>1, <3>2
  <2> QED
    BY <2>1, <2>2, <2>4 DEF Orders
<1>11. VotesAreCovered'
  <2> SUFFICES ASSUME NEW m \in Nodes, NEW j \in TxIds,
                      currentTX'[m][j].role = "cohorte", MayCommit(m, j)'
               PROVE  currentTX'[m][j].amount
                          <= PeerAvailable(peers[m][currentTX'[m][j].peer])
    BY DEF VotesAreCovered
  <2>1. PICK tm : tm = currentTX[m][j] /\ tm = currentTX'[m][j] /\ tm.role = "cohorte"
    BY <1>9
  <2>2. j[1] \in Nodes
    BY Kinds
  <2>3. MayCommit(m, j)
    <3>1. CASE currentTX'[j[1]][j].role = "coordinator"
      BY <2>2, <3>1 DEF MayCommit
    <3>2. CASE \E x \in Range(net'[j[1]][m]) : x.phase = "COMMIT" /\ x.tx = j
      <4>1. PICK x \in Range(net'[j[1]][m]) : x.phase = "COMMIT" /\ x.tx = j
        BY <3>2
      <4>2. CASE x \in Range(net[j[1]][m])
        BY <4>1, <4>2 DEF MayCommit
      <4>3. CASE x \notin Range(net[j[1]][m])
        <5>1. x = item
          BY <1>12, <2>2, <4>3
        <5>2. j = id
          BY <4>1, <5>1
        <5> QED
          BY <1>3, <5>2 DEF MayCommit
      <4> QED
        BY <4>2, <4>3
    <3> QED
      BY <3>1, <3>2 DEF MayCommit
  <2> QED
    BY <2>1, <2>3, CohorteFacts
<1>13. WithinCreditLines'
  BY DEF Funded, WithinCreditLines
<1> QED
  BY <1>5, <1>6, <1>7, <1>8, <1>10, <1>11, <1>13 DEF Funded

\* VOTE_YES: the COMMIT is sent.
LEMMA CoordinatorVoteYesFunds ==
    ASSUME Funded, TypeOK', NEW n \in Nodes, NEW p \in Nodes,
           CoordinatorVoteYes(n, p)
    PROVE  Funded'
<1> DEFINE id == Head(net[p][n]).tx
<1> DEFINE tm == Tm(n, p)
<1>1. TypeOK /\ OrdersInOrder
  BY DEF Funded
<1>2. /\ Receives(n, p, {"VOTE_YES"}) /\ tm.role = "coordinator"
      /\ ConsumeAndSend(n, p, tm.peer, Reply("COMMIT", id))
      /\ UNCHANGED <<peers, currentTX, sequence, up>>
  BY DEF CoordinatorVoteYes
<1>3. /\ net[p][n] # <<>> /\ Head(net[p][n]) \in Range(net[p][n])
      /\ id \in TxIds /\ tm = currentTX[n][id]
  BY <1>2, TakenItem
<1>4. tm.queried
  BY <1>2, <1>3 DEF Funded, UnqueriedIsUnheard
<1> HIDE DEF tm, id
<1>5. /\ tm.peer \in Nodes
      /\ tm.amount <= MyAvailable(peers[n][tm.peer])
  BY <1>2, <1>3, <1>4, CoordinatorFacts
<1>6. PICK item \in Items :
          item = Reply("COMMIT", id) /\ item.phase = "COMMIT" /\ item.tx = id
  <2>1. Reply("COMMIT", id) \in Items
    BY <1>3, ReplyTypes DEF TxPhases
  <2> QED
    BY <2>1 DEF Reply, Item
<1>7. ConsumeAndSend(n, p, tm.peer, item)
  BY <1>2, <1>6
<1>8. OnlyAdds(n, tm.peer, item)
  BY <1>1, <1>3, <1>5, <1>7, ConsumeAndSendEffect
<1>9. Follows(net[n][tm.peer], item)
  BY <1>2, <1>3, <1>5, <1>6, NewestFollows
<1>10. OrdersInOrder'
  BY <1>1, <1>3, <1>5, <1>7, <1>9, OrdersKept
<1>11. item.phase \in Orders /\ item.phase # "QUERY"
  BY <1>6 DEF Orders
<1> QED
  BY <1>2, <1>3, <1>4, <1>5, <1>6, <1>8, <1>10, <1>11, OrderSentFunds

\* init(): the QUERY is sent if there were funds, and there still are.
LEMMA StartPaymentFunds ==
    ASSUME Funded, TypeOK', NEW n \in Nodes, NEW id \in TxIds, StartPayment(n, id)
    PROVE  Funded'
<1> DEFINE tm == currentTX[n][id]
<1>1. TypeOK /\ OrdersInOrder
  BY DEF Funded
<1>2. /\ tm.role = "coordinator" /\ ~tm.queried
      /\ UNCHANGED <<peers, sequence, up>>
  BY DEF StartPayment
<1>3. /\ tm.peer \in Nodes /\ tm.amount \in Amounts
      /\ tm.amount \in Int /\ tm.avail \in Int
      /\ tm.avail <= MyAvailable(peers[n][tm.peer])
  BY <1>2, CoordinatorFacts
<1>4. CASE tm.avail < tm.amount
  <2>1. Forget(n, id) /\ UNCHANGED net
    BY <1>4 DEF StartPayment
  <2>2. OnlyForgets /\ NothingNew /\ OrdersInOrder'
    BY <1>1, <2>1, ForgetForgets DEF NothingNew, OrdersInOrder
  <2> QED
    BY <1>2, <2>2, GoesOn, HarmlessFunds
<1>5. CASE ~(tm.avail < tm.amount)
  <2>1. /\ currentTX' = [currentTX EXCEPT ![n][id].queried = TRUE]
        /\ net' = [net EXCEPT ![n][tm.peer] =
                      Post(tm.peer, @, Item("QUERY", id, tm.amount))]
    BY <1>5 DEF StartPayment
  <2>2. PICK item \in Items :
            /\ item = Item("QUERY", id, tm.amount)
            /\ item.phase = "QUERY" /\ item.tx = id /\ item.amount = tm.amount
    <3>1. Item("QUERY", id, tm.amount) \in Items
      BY <1>3, ReplyTypes DEF TxPhases
    <3> QED
      BY <3>1 DEF Item
  <2>3. net' = [net EXCEPT ![n][tm.peer] = Post(tm.peer, @, item)]
    BY <2>1, <2>2
  <2>4. OnlyAdds(n, tm.peer, item)
    BY <1>1, <1>3, <2>3, SendEffect
  <2>5. Follows(net[n][tm.peer], item)
    BY <1>2, <1>3, <2>2, NewestFollows
  <2>6. OrdersInOrder'
    BY <1>1, <1>3, <2>3, <2>5, OrdersKept
  <2>7. tm.amount <= MyAvailable(peers[n][tm.peer])
    <3>1. MyAvailable(peers[n][tm.peer]) \in Int
      BY <1>1, <1>3, Kinds
    <3> QED
      BY <1>3, <1>5, <3>1
  <2>8. /\ currentTX'[n][id] = [tm EXCEPT !.queried = TRUE]
        /\ \A m \in Nodes, j \in TxIds :
              ~(m = n /\ j = id) => currentTX'[m][j] = currentTX[m][j]
    BY <1>1, <2>1 DEF TypeOK
  <2>9. /\ currentTX'[n][id].role = "coordinator"
        /\ currentTX'[n][id].queried
        /\ currentTX'[n][id].peer = tm.peer
        /\ currentTX'[n][id].amount = tm.amount
    <3>1. tm \in [role : {"coordinator"}, peer : Nodes, amount : Int,
                  avail : Int, queried : BOOLEAN]
      BY <1>1, <1>2 DEF TypeOK, Managers, NoTM
    <3> QED
      BY <2>8, <3>1
  <2>10. item.phase \in Orders /\ item.amount \in Amounts
    BY <1>3, <2>2 DEF Orders
  <2> QED
    BY <1>2, <1>3, <2>2, <2>4, <2>6, <2>7, <2>8, <2>9, <2>10, OrderSentFunds
<1> QED
  BY <1>4, <1>5

\* A payment is begun when the one before it ended, under an id that nobody
\* has heard of, with the funds of the moment.
LEMMA PayToFunds ==
    ASSUME Funded, TypeOK', MaxOpen = 1, NEW n \in Nodes, NEW p \in Nodes,
           NEW amount \in Amounts, PayTo(n, p, amount)
    PROVE  Funded'
<1> DEFINE tm == Coordinator(p, amount, MyAvailable(peers[n][p]), FALSE)
<1>1. TypeOK /\ ElementsTyped /\ NoTM.role = "none"
  BY ElementTypes, Kinds DEF Funded
<1>2. sequence[n] \in 1..MaxSeq /\ MaxSeq \in Nat
  BY <1>1, ConstantsAssumption DEF TypeOK, ConstantsAssumption
<1>3. PICK new \in TxIds :
          new = <<n, sequence[n] + 1>> /\ new[1] = n /\ new[2] = sequence[n] + 1
  <2>1. sequence[n] < MaxSeq
    BY DEF PayTo
  <2>2. sequence[n] + 1 \in 2..MaxSeq
    BY <1>2, <2>1
  <2>3. <<n, sequence[n] + 1>> \in TxIds
    BY <2>2 DEF TxIds
  <2> QED
    BY <2>3
<1>4. /\ up[n] /\ n # p /\ Cardinality(Coordinators(n)) < 1
      /\ sequence' = [sequence EXCEPT ![n] = @ + 1]
      /\ currentTX' = [currentTX EXCEPT ![n][new] = tm]
      /\ UNCHANGED <<peers, net, up>>
  BY <1>3 DEF PayTo, MkId
<1>5. /\ tm.role = "coordinator" /\ tm.peer = p /\ tm.amount = amount
      /\ ~tm.queried /\ tm.avail = MyAvailable(peers[n][p])
  BY DEF Coordinator
<1> HIDE DEF tm
<1>6. Coordinators(n) = {}
  <2>1. Coordinators(n) \subseteq {<<n, sequence[n]>>}
    BY CoordinatorFacts DEF Coordinators
  <2>2. ASSUME Coordinators(n) # {} PROVE FALSE
    <3>1. Coordinators(n) = {<<n, sequence[n]>>}
      BY <2>1, <2>2
    <3>2. Cardinality(Coordinators(n)) = 1
      BY <3>1, FS_Singleton
    <3> QED
      BY <1>4, <3>2
  <2> QED
    BY <2>2
<1>7. ~Counted(new)
  BY <1>2, <1>3, <1>4 DEF Counted
<1>8. /\ \A m \in Nodes : currentTX[m][new] = NoTM
      /\ \A f, t \in Nodes : \A item \in Range(net[f][t]) : item.tx # new
  BY <1>7 DEF Funded, ManagersAreCounted, ItemsAreCounted
<1>9. \A m \in Nodes, j \in TxIds :
         currentTX'[m][j] = IF m = n /\ j = new THEN tm ELSE currentTX[m][j]
  BY <1>1, <1>3, <1>4 DEF TypeOK
<1>10. \A m \in Nodes :
          sequence'[m] = IF m = n THEN sequence[n] + 1 ELSE sequence[m]
  BY <1>1, <1>4 DEF TypeOK
<1>11. \A j \in TxIds : Counted(j) => Counted(j)'
  <2> SUFFICES ASSUME NEW j \in TxIds, Counted(j) PROVE Counted(j)'
    OBVIOUS
  <2>1. /\ j[1] \in Nodes /\ j[2] \in Int /\ sequence[j[1]] \in Int
        /\ up' = up
    BY <1>1, <1>4, Kinds
  <2>2. sequence[j[1]] <= sequence'[j[1]] /\ sequence'[j[1]] \in Int
    BY <1>10, <2>1
  <2> QED
    BY <2>1, <2>2 DEF Counted
<1>12. Counted(new)'
  BY <1>2, <1>3, <1>10 DEF Counted
<1>13. ManagersAreCounted'
  <2> SUFFICES ASSUME NEW m \in Nodes, NEW j \in TxIds, currentTX'[m][j] # NoTM
               PROVE  up[m] /\ Counted(j)'
    BY <1>4 DEF ManagersAreCounted
  <2>1. CASE m = n /\ j = new
    BY <1>4, <1>12, <2>1
  <2>2. CASE ~(m = n /\ j = new)
    <3>1. currentTX[m][j] # NoTM
      BY <1>9, <2>2
    <3> QED
      BY <1>11, <3>1 DEF Funded, ManagersAreCounted
  <2> QED
    BY <2>1, <2>2
<1>14. ItemsAreCounted'
  BY <1>1, <1>4, <1>11 DEF Funded, ItemsAreCounted, ElementsTyped
<1>15. \A m \in Nodes, j \in TxIds :
          /\ currentTX'[m][j].role = "coordinator" =>
                 \/ m = n /\ j = new /\ currentTX'[m][j] = tm
                 \/ m # n /\ j # new /\ currentTX'[m][j] = currentTX[m][j]
          /\ currentTX'[m][j].role = "cohorte" =>
                 j # new /\ currentTX'[m][j] = currentTX[m][j]
  <2> SUFFICES ASSUME NEW m \in Nodes, NEW j \in TxIds,
                      ~(m = n /\ j = new)
               PROVE  /\ currentTX'[m][j] = currentTX[m][j]
                      /\ currentTX[m][j].role = "coordinator" => m # n /\ j # new
                      /\ currentTX[m][j].role = "cohorte" => j # new
    BY <1>5, <1>9
  <2>1. currentTX[m][j].role = "coordinator" => m # n
    BY <1>6 DEF Coordinators
  <2>2. j = new => currentTX[m][j].role = "none"
    BY <1>1, <1>8
  <2> QED
    BY <1>9, <2>1, <2>2
<1>16. NewestIsFunded'
  <2> SUFFICES ASSUME NEW m \in Nodes, NEW j \in TxIds,
                      currentTX'[m][j].role = "coordinator"
               PROVE  LET now == currentTX'[m][j]
                      IN /\ j = <<m, sequence'[m]>>
                         /\ now.peer # m /\ now.amount \in Amounts
                         /\ now.queried =>
                               now.amount <= MyAvailable(peers[m][now.peer])
                         /\ ~now.queried =>
                               now.avail <= MyAvailable(peers[m][now.peer])
    BY <1>4 DEF NewestIsFunded
  <2>1. CASE m = n /\ j = new /\ currentTX'[m][j] = tm
    <3>1. MyAvailable(peers[n][p]) \in Int
      BY <1>1, Kinds
    <3> QED
      BY <1>3, <1>4, <1>5, <1>10, <2>1, <3>1
  <2>2. CASE m # n /\ j # new /\ currentTX'[m][j] = currentTX[m][j]
    <3>1. sequence'[m] = sequence[m]
      BY <1>10, <2>2
    <3> QED
      BY <2>2, <3>1, CoordinatorFacts
  <2> QED
    BY <1>15, <2>1, <2>2
<1>17. UnqueriedIsUnheard'
  <2> SUFFICES ASSUME NEW m \in Nodes, NEW j \in TxIds,
                      currentTX'[m][j].role = "coordinator",
                      ~currentTX'[m][j].queried
               PROVE  /\ \A f, t \in Nodes : \A x \in Range(net[f][t]) : x.tx # j
                      /\ \A o \in Nodes : currentTX'[o][j].role # "cohorte"
    BY <1>4 DEF UnqueriedIsUnheard
  <2>1. CASE j = new
    BY <1>8, <1>15, <2>1
  <2>2. CASE j # new
    <3>1. currentTX'[m][j] = currentTX[m][j]
      BY <1>15, <2>2
    <3>2. /\ \A f, t \in Nodes : \A x \in Range(net[f][t]) : x.tx # j
          /\ \A o \in Nodes : currentTX[o][j].role # "cohorte"
      BY <3>1 DEF Funded, UnqueriedIsUnheard
    <3> QED
      BY <1>15, <3>2
  <2> QED
    BY <2>1, <2>2
<1>18. CohortesAreNewest'
  BY <1>4, <1>15 DEF Funded, CohortesAreNewest
<1>19. VotesAreCovered'
  <2> SUFFICES ASSUME NEW m \in Nodes, NEW j \in TxIds,
                      currentTX'[m][j].role = "cohorte", MayCommit(m, j)'
               PROVE  currentTX'[m][j].amount
                          <= PeerAvailable(peers[m][currentTX'[m][j].peer])
    BY <1>4 DEF VotesAreCovered
  <2>1. j # new /\ currentTX'[m][j] = currentTX[m][j] /\ j[1] \in Nodes
    BY <1>15, Kinds
  <2>2. MayCommit(m, j)
    BY <1>4, <1>15, <2>1 DEF MayCommit
  <2> QED
    BY <2>1, <2>2 DEF Funded, VotesAreCovered
<1>20. OrdersInOrder' /\ WithinCreditLines'
  BY <1>4 DEF Funded, OrdersInOrder, WithinCreditLines
<1> QED
  BY <1>13, <1>14, <1>16, <1>17, <1>18, <1>19, <1>20 DEF Funded

-----------------------------------------------------------------------------
(* The invariant.                                                          *)

\* Nothing is owed and nothing is under way in the beginning.
LEMMA InitFunded == Init => Funded
<1> SUFFICES ASSUME Init PROVE Funded
  OBVIOUS
<1>1. TypeOK
  BY InitTypeOK
<1>2. \A f, t \in Nodes : Range(net[f][t]) = {} /\ DOMAIN net[f][t] = {}
  BY DEF Init, Range
<1>3. \A n \in Nodes, id \in TxIds :
         currentTX[n][id] = NoTM /\ currentTX[n][id].role = "none"
  BY Kinds DEF Init
<1>4. ManagersAreCounted /\ ItemsAreCounted /\ NewestIsFunded /\ UnqueriedIsUnheard
  BY <1>2, <1>3 DEF ManagersAreCounted, ItemsAreCounted, NewestIsFunded,
                    UnqueriedIsUnheard
<1>5. OrdersInOrder /\ CohortesAreNewest /\ VotesAreCovered
  BY <1>2, <1>3 DEF OrdersInOrder, InOrder, CohortesAreNewest, VotesAreCovered
<1>6. WithinCreditLines
  <2>1. \A n, p \in Nodes : peers[n][p] = OpenLine(CreditLine)
    BY DEF Init
  <2>2. CreditLine \in Nat
    BY ConstantsAssumption DEF ConstantsAssumption
  <2>3. /\ PeerAvailable(OpenLine(CreditLine)) = CreditLine
        /\ MyAvailable(OpenLine(CreditLine)) = CreditLine
    BY <2>2 DEF PeerAvailable, MyAvailable, OpenLine
  <2> QED
    BY <2>1, <2>2, <2>3 DEF WithinCreditLines
<1> QED
  BY <1>1, <1>4, <1>5, <1>6 DEF Funded

\* Every step keeps it while one payment is open at a time.
LEMMA FundedStep ==
    ASSUME MaxOpen = 1, MaxRestarts = 0, Amounts \subseteq Nat
    PROVE  Funded /\ [Next]_vars => Funded'
<1> SUFFICES ASSUME Funded, [Next]_vars PROVE Funded'
  OBVIOUS
<1>1. TypeOK'
  BY NextTypeOK DEF Funded
<1>2. ASSUME NEW n \in Nodes, NEW p \in Nodes, NEW amount \in Amounts,
             PayTo(n, p, amount)
      PROVE  Funded'
  BY <1>1, <1>2, PayToFunds
<1>3. ASSUME NEW n \in Nodes, NEW id \in TxIds, StartPayment(n, id)
      PROVE  Funded'
  BY <1>1, <1>3, StartPaymentFunds
<1>4. ASSUME NEW n \in Nodes, NEW p \in Nodes, HandleTxItem(n, p)
      PROVE  Funded'
  <2>1. CASE CohorteQuery(n, p)
    BY <1>1, <2>1, CohorteQueryFunds
  <2>2. CASE CohorteCommit(n, p)
    BY <1>1, <2>2, CohorteCommitFunds
  <2>3. CASE CoordinatorVoteYes(n, p)
    BY <1>1, <2>3, CoordinatorVoteYesFunds
  <2>4. CASE CoordinatorAck(n, p)
    BY <1>1, <2>4, CoordinatorAckFunds
  <2>5. CASE \/ CohorteRequery(n, p) \/ CohorteUninitialised(n, p)
             \/ AbortPayment(n, p) \/ UnknownPhase(n, p)
    BY <1>1, <2>5, RefusalFunds
  <2> QED
    BY <1>4, <2>1, <2>2, <2>3, <2>4, <2>5 DEF HandleTxItem
<1>5. ASSUME NEW n \in Nodes, NEW p \in Nodes,
             Timeout(n) \/ DropLink(n, p) \/ Crash(n)
      PROVE  Funded'
  BY <1>1, <1>5, LossFunds
<1>6. ASSUME NEW n \in Nodes, Restart(n) PROVE Funded'
  <2>1. restarts \in 0..MaxRestarts /\ restarts < MaxRestarts
    BY <1>6 DEF Funded, TypeOK, Restart
  <2> QED
    BY <2>1
<1>7. CASE UNCHANGED vars
  <2>1. UNCHANGED <<peers, currentTX, sequence, net, up>> /\ TypeOK /\ OrdersInOrder
    BY <1>7 DEF vars, Funded
  <2>2. OnlyForgets /\ NothingNew /\ OrdersInOrder'
    BY <2>1 DEF OnlyForgets, NothingNew, OrdersInOrder
  <2> QED
    BY <1>1, <2>1, <2>2, GoesOn, HarmlessFunds
<1>8. ASSUME NEW n \in Nodes, NEW p \in Nodes,
             CohorteTorn(n, p) \/ CoordinatorTorn(n, p)
      PROVE  Funded'
  BY <1>1, <1>8, CohorteTornFunds, CoordinatorTornFunds
<1> QED
  BY <1>2, <1>3, <1>4, <1>5, <1>6, <1>7, <1>8 DEF Next

\* Orders travel in the order of the payments, and whatever can still be
\* committed is covered by the funds that the newest cohorte checked, if
\* amounts are not negative.
THEOREM FundedInvariant ==
    ASSUME MaxOpen = 1, MaxRestarts = 0, Amounts \subseteq Nat
    PROVE  Spec => []Funded
<1>1. Init => Funded
  BY InitFunded
<1>2. Funded /\ [Next]_vars => Funded'
  BY FundedStep
<1> QED
  BY <1>1, <1>2, PTL DEF Spec

\* With one payment of a node at a time nobody is overdrawn in either book,
\* for any number of friends, any credit line and any amounts that are not
\* negative: whatever times out, is lost, dies or is half written.  The program
\* lets negative amounts through, and they do overdraw the payee.
THEOREM NobodyIsOverdrawn ==
    ASSUME MaxOpen = 1, MaxRestarts = 0, Amounts \subseteq Nat
    PROVE  Spec => []WithinCreditLines
<1>1. Funded => WithinCreditLines
  BY DEF Funded
<1> QED
  BY <1>1, FundedInvariant, PTL

-----------------------------------------------------------------------------
(* Balances and the transaction log.                                       *)

\* A commit that makes both writes, as the books see it: the log of n has one
\* row more, and the balance of the friend it is about moved by its amount.
Booked(n, row) ==
    /\ txlog' = [txlog EXCEPT ![n] = Append(@, row)]
    /\ torn' = torn
    /\ \A m, q \in Nodes :
          peers'[m][q].balance = peers[m][q].balance +
              (IF m = n /\ q = row.peer THEN row.amount ELSE 0)

\* One that misses a write: the log is what it was, and n knows nothing of p.
HalfBooked(n, p) ==
    /\ txlog' = txlog
    /\ torn' = torn \cup {<<n, p>>}
    /\ \A m, q \in Nodes : ~(m = n /\ q = p) => peers'[m][q] = peers[m][q]

\* The two commits are such bookings.
LEMMA CommitsAreBooked ==
    ASSUME TypeOK, NEW n \in Nodes, NEW p \in Nodes, NEW done \in 0..2,
           NEW id \in TxIds, NEW amount \in Int
    PROVE  /\ CommitReceiver(done, n, p, id, amount) =>
                  IF done = 2 THEN Booked(n, LogRow(p, id, amount))
                  ELSE HalfBooked(n, p)
           /\ CommitSpender(done, n, p, id, amount) =>
                  IF done = 2 THEN Booked(n, LogRow(p, id, -amount))
                  ELSE HalfBooked(n, p)
<1>1. peers \in [Nodes -> [Nodes -> CreditRecord]]
  BY DEF TypeOK
<1>2. \A m, q \in Nodes : peers[m][q].balance \in Int
  BY <1>1 DEF CreditRecord
<1>3. ASSUME NEW change \in Int, NEW record, done = 2,
             record = [peers[n][p] EXCEPT !.balance = @ + change],
             Book(done, n, p, record, LogRow(p, id, change))
      PROVE  Booked(n, LogRow(p, id, change))
  <2>1. /\ peers' = [peers EXCEPT ![n][p] = record]
        /\ txlog' = [txlog EXCEPT ![n] = Append(@, LogRow(p, id, change))]
        /\ torn' = torn
    BY <1>3 DEF Book
  <2>2. peers[n][p] \in CreditRecord
    BY <1>1
  <2>3. record.balance = peers[n][p].balance + change
    BY <1>3, <2>2 DEF CreditRecord
  <2>4. ASSUME NEW m \in Nodes, NEW q \in Nodes
        PROVE  peers'[m][q].balance = peers[m][q].balance +
                   (IF m = n /\ q = p THEN change ELSE 0)
    <3>1. CASE m = n /\ q = p
      BY <1>1, <2>1, <2>3, <3>1
    <3>2. CASE ~(m = n /\ q = p)
      <4>1. peers'[m][q] = peers[m][q]
        BY <1>1, <2>1, <3>2
      <4> QED
        BY <1>2, <3>2, <4>1
    <3> QED
      BY <3>1, <3>2
  <2>5. LogRow(p, id, change).peer = p /\ LogRow(p, id, change).amount = change
    BY DEF LogRow
  <2> QED
    BY <2>1, <2>4, <2>5 DEF Booked
<1>4. ASSUME NEW record, NEW row, done # 2, Book(done, n, p, record, row)
      PROVE  HalfBooked(n, p)
  <2>1. /\ peers' = peers \/ peers' = [peers EXCEPT ![n][p] = record]
        /\ txlog' = txlog
        /\ torn' = torn \cup {<<n, p>>}
    BY <1>4 DEF Book
  <2>2. \A m, q \in Nodes : ~(m = n /\ q = p) => peers'[m][q] = peers[m][q]
    BY <1>1, <2>1
  <2> QED
    BY <2>1, <2>2 DEF HalfBooked
<1>5. CommitReceiver(done, n, p, id, amount) =>
          IF done = 2 THEN Booked(n, LogRow(p, id, amount)) ELSE HalfBooked(n, p)
  BY <1>3, <1>4 DEF CommitReceiver, Received
<1>6. CommitSpender(done, n, p, id, amount) =>
          IF done = 2 THEN Booked(n, LogRow(p, id, -amount)) ELSE HalfBooked(n, p)
  <2>1. PICK change \in Int : change = -amount
    OBVIOUS
  <2>2. Spent(peers[n][p], amount) = [peers[n][p] EXCEPT !.balance = @ + change]
    <3>1. peers[n][p].balance + change = peers[n][p].balance - amount
      BY <1>2, <2>1
    <3> QED
      BY <3>1 DEF Spent
  <2> QED
    BY <1>3, <1>4, <2>1, <2>2 DEF CommitSpender
<1> QED
  BY <1>5, <1>6

\* The rows of a log with one row more.
LEMMA LogGrows ==
    ASSUME TypeOK, NEW n \in Nodes, NEW row \in LogRows, Booked(n, row)
    PROVE  /\ \A m \in Nodes : m # n => txlog'[m] = txlog[m]
           /\ Len(txlog[n]) \in Nat
           /\ DOMAIN txlog[n] = 1..Len(txlog[n])
           /\ DOMAIN txlog'[n] = DOMAIN txlog[n] \cup {Len(txlog[n]) + 1}
           /\ Len(txlog[n]) + 1 \notin DOMAIN txlog[n]
           /\ \A i \in DOMAIN txlog[n] : txlog'[n][i] = txlog[n][i]
           /\ txlog'[n][Len(txlog[n]) + 1] = row
<1>1. /\ \A m \in Nodes : txlog[m] \in Seq(LogRows)
      /\ txlog'[n] = Append(txlog[n], row)
      /\ \A m \in Nodes : m # n => txlog'[m] = txlog[m]
  BY DEF TypeOK, Booked
<1>2. /\ DOMAIN Append(txlog[n], row) = 1..(Len(txlog[n]) + 1)
      /\ \A i \in 1..Len(txlog[n]) : Append(txlog[n], row)[i] = txlog[n][i]
      /\ Append(txlog[n], row)[Len(txlog[n]) + 1] = row
      /\ DOMAIN txlog[n] = 1..Len(txlog[n])
      /\ Len(txlog[n]) \in Nat
  BY <1>1, AppendToQueue
<1> QED
  BY <1>1, <1>2

\* The rows of n that are about p, and what they say.
RowsFor(n, p) == {i \in DOMAIN txlog[n] : txlog[n][i].peer = p}
Says(n) == [i \in DOMAIN txlog[n] |-> txlog[n][i].amount]

\* A booking keeps the balances equal to what the logs add up to.
LEMMA BookedBalances ==
    ASSUME TypeOK, BooksBalance, NEW n \in Nodes, NEW row \in LogRows, Booked(n, row)
    PROVE  BooksBalance'
<1> DEFINE k == Len(txlog[n]) + 1
<1>1. /\ \A m \in Nodes : m # n => txlog'[m] = txlog[m]
      /\ Len(txlog[n]) \in Nat
      /\ DOMAIN txlog[n] = 1..Len(txlog[n])
      /\ DOMAIN txlog'[n] = DOMAIN txlog[n] \cup {k}
      /\ k \notin DOMAIN txlog[n]
      /\ \A i \in DOMAIN txlog[n] : txlog'[n][i] = txlog[n][i]
      /\ txlog'[n][k] = row
  BY LogGrows
<1>2. \A m, q \in Nodes : peers[m][q].balance \in Int
  <2>1. peers \in [Nodes -> [Nodes -> CreditRecord]]
    BY DEF TypeOK
  <2> QED
    BY <2>1 DEF CreditRecord
<1>3. row.amount \in Int /\ \A i \in DOMAIN txlog[n] : txlog[n][i].amount \in Int
  <2>1. txlog[n] \in Seq(LogRows)
    BY DEF TypeOK
  <2>2. \A i \in DOMAIN txlog[n] : txlog[n][i] \in LogRows
    BY <1>1, <2>1, ElementOfSeq
  <2> QED
    BY <2>2 DEF LogRows
<1> SUFFICES ASSUME NEW m \in Nodes, NEW q \in Nodes, <<m, q>> \notin torn
             PROVE  (peers[m][q].balance = Logged(m, q))'
  BY DEF BooksBalance, Booked
<1>4. peers[m][q].balance = Logged(m, q)
  BY DEF BooksBalance
<1>5. CASE m # n
  <2>1. Logged(m, q)' = Logged(m, q)
    BY <1>1, <1>5 DEF Logged
  <2>2. peers'[m][q].balance = peers[m][q].balance
    BY <1>2, <1>5 DEF Booked
  <2> QED
    BY <1>4, <2>1, <2>2
<1>6. CASE m = n
  <2> DEFINE S == RowsFor(n, q)
             f == Says(n)
             g == Says(n)'
  <2>1. /\ Logged(m, q) = SumFunctionOnSet(f, S)
        /\ Logged(m, q)' = SumFunctionOnSet(g, RowsFor(n, q)')
    BY <1>6 DEF Logged, RowsFor, Says
  <2>2. IsFiniteSet(S) /\ S \subseteq DOMAIN txlog[n]
    <3>1. IsFiniteSet(1..Len(txlog[n]))
      BY <1>1, FS_Interval
    <3> QED
      BY <1>1, <3>1, FS_Subset DEF RowsFor
  <2>3. \A i \in S : f[i] \in Int /\ f[i] = g[i]
    BY <1>1, <1>3, <2>2 DEF Says
  <2>4. SumFunctionOnSet(g, S) = SumFunctionOnSet(f, S)
    <3> HIDE DEF S, f, g
    <3> QED
      BY <2>2, <2>3, SumSame
  <2>5. RowsFor(n, q)' = IF q = row.peer THEN S \cup {k} ELSE S
    BY <1>1 DEF RowsFor
  <2>6. g[k] = row.amount /\ k \notin S
    BY <1>1, <2>2 DEF Says
  <2>7. SumFunctionOnSet(g, S) \in Int
    <3> HIDE DEF S, f, g
    <3> QED
      BY <2>2, <2>3, SumType
  <2>8. CASE q = row.peer
    <3>1. SumFunctionOnSet(g, S \cup {k}) = SumFunctionOnSet(g, S) + g[k]
      <4>1. \A i \in S \cup {k} : g[i] \in Int
        BY <1>3, <2>3, <2>6
      <4> HIDE DEF S, f, g, k
      <4> QED
        BY <2>2, <2>6, <4>1, SumAdd
    <3>2. peers'[m][q].balance = peers[m][q].balance + row.amount
      BY <1>6, <2>8 DEF Booked
    <3> HIDE DEF S, f, g, k
    <3> QED
      BY <1>4, <2>1, <2>4, <2>5, <2>6, <2>8, <3>1, <3>2
  <2>9. CASE q # row.peer
    <3>1. peers'[m][q].balance = peers[m][q].balance
      BY <1>2, <2>9 DEF Booked
    <3> HIDE DEF S, f, g, k
    <3> QED
      BY <1>4, <2>1, <2>4, <2>5, <2>9, <3>1
  <2> QED
    BY <2>8, <2>9
<1> QED
  BY <1>5, <1>6

\* Half a booking says nothing of the friend it is about, and keeps the rest.
LEMMA HalfBookedBalances ==
    ASSUME BooksBalance, NEW n \in Nodes, NEW p \in Nodes, HalfBooked(n, p)
    PROVE  BooksBalance'
<1> SUFFICES ASSUME NEW m \in Nodes, NEW q \in Nodes, <<m, q>> \notin torn'
             PROVE  (peers[m][q].balance = Logged(m, q))'
  BY DEF BooksBalance
<1>1. <<m, q>> \notin torn /\ ~(m = n /\ q = p)
  BY DEF HalfBooked
<1>2. peers[m][q].balance = Logged(m, q)
  BY <1>1 DEF BooksBalance
<1>3. peers'[m][q] = peers[m][q] /\ Logged(m, q)' = Logged(m, q)
  BY <1>1 DEF HalfBooked, Logged
<1> QED
  BY <1>2, <1>3

\* What a commit writes, whether its process goes on or ends.
LEMMA CohorteBooks ==
    ASSUME TypeOK, NEW n \in Nodes, NEW p \in Nodes,
           CohorteCommit(n, p) \/ CohorteTorn(n, p)
    PROVE  \E done \in 0..2, to \in Nodes, id \in TxIds, amount \in Int :
              /\ id = Head(net[p][n]).tx /\ to = Tm(n, p).peer
              /\ CommitReceiver(done, n, to, id, amount)
              /\ CohorteTorn(n, p) => done # 2
<1> DEFINE id == Head(net[p][n]).tx
           tm == Tm(n, p)
<1>1. Receives(n, p, {"COMMIT"}) /\ tm.role = "cohorte"
  BY DEF CohorteCommit, CohorteTorn
<1>2. id \in TxIds /\ tm.peer \in Nodes /\ tm.amount \in Int
  BY <1>1, ReceiveTypes, ManagerTypes DEF Items
<1>3. CASE CohorteTorn(n, p)
  <2>1. PICK done \in 0..1 : CommitReceiver(done, n, tm.peer, id, tm.amount)
    BY <1>3 DEF CohorteTorn
  <2>2. done \in 0..2 /\ done # 2
    OBVIOUS
  <2> HIDE DEF id, tm
  <2>3. \E to \in Nodes, j \in TxIds, amount \in Int :
           j = id /\ to = tm.peer /\ CommitReceiver(done, n, to, j, amount)
    BY <1>2, <2>1
  <2> QED
    BY <2>2, <2>3 DEF id, tm
<1>4. CASE ~CohorteTorn(n, p)
  <2>1. PICK done \in WritesDone : CommitReceiver(done, n, tm.peer, id, tm.amount)
    BY <1>4 DEF CohorteCommit
  <2>2. done \in 0..2
    BY DEF WritesDone
  <2> HIDE DEF id, tm
  <2>3. \E to \in Nodes, j \in TxIds, amount \in Int :
           j = id /\ to = tm.peer /\ CommitReceiver(done, n, to, j, amount)
    BY <1>2, <2>1
  <2> QED
    BY <1>4, <2>2, <2>3 DEF id, tm
<1> QED
  BY <1>3, <1>4

LEMMA CoordinatorBooks ==
    ASSUME TypeOK, NEW n \in Nodes, NEW p \in Nodes,
           CoordinatorAck(n, p) \/ CoordinatorTorn(n, p)
    PROVE  \E done \in 0..2, to \in Nodes, id \in TxIds, amount \in Int :
              /\ id = Head(net[p][n]).tx /\ to = Tm(n, p).peer
              /\ CommitSpender(done, n, to, id, amount)
              /\ CoordinatorTorn(n, p) => done # 2
<1> DEFINE id == Head(net[p][n]).tx
           tm == Tm(n, p)
<1>1. Receives(n, p, {"ACK_COMMIT"}) /\ tm.role = "coordinator"
  BY DEF CoordinatorAck, CoordinatorTorn
<1>2. id \in TxIds /\ tm.peer \in Nodes /\ tm.amount \in Int
  BY <1>1, ReceiveTypes, ManagerTypes DEF Items
<1>3. CASE CoordinatorTorn(n, p)
  <2>1. CommitSpender(1, n, tm.peer, id, tm.amount)
    BY <1>3 DEF CoordinatorTorn
  <2>2. 1 \in 0..2 /\ 1 # 2
    OBVIOUS
  <2> HIDE DEF id, tm
  <2>3. \E to \in Nodes, j \in TxIds, amount \in Int :
           j = id /\ to = tm.peer /\ CommitSpender(1, n, to, j, amount)
    BY <1>2, <2>1
  <2> QED
    BY <2>2, <2>3 DEF id, tm
<1>4. CASE ~CoordinatorTorn(n, p)
  <2>1. PICK done \in WritesDone : CommitSpender(done, n, tm.peer, id, tm.amount)
    BY <1>4 DEF CoordinatorAck
  <2>2. done \in 0..2
    BY DEF WritesDone
  <2> HIDE DEF id, tm
  <2>3. \E to \in Nodes, j \in TxIds, amount \in Int :
           j = id /\ to = tm.peer /\ CommitSpender(done, n, to, j, amount)
    BY <1>2, <2>1
  <2> QED
    BY <1>4, <2>2, <2>3 DEF id, tm
<1> QED
  BY <1>3, <1>4

\* Only the two commits touch the books.
LEMMA WhoBooks ==
    ASSUME TypeOK, [Next]_vars
    PROVE  \/ UNCHANGED <<peers, txlog, torn>>
           \/ \E n \in Nodes : \E row \in LogRows : Booked(n, row)
           \/ \E n, p \in Nodes : HalfBooked(n, p)
<1>1. ASSUME NEW n \in Nodes, NEW p \in Nodes, CohorteCommit(n, p) \/ CohorteTorn(n, p)
      PROVE  (\E row \in LogRows : Booked(n, row)) \/ (\E to \in Nodes : HalfBooked(n, to))
  <2>1. PICK done \in 0..2, to \in Nodes, id \in TxIds, amount \in Int :
            CommitReceiver(done, n, to, id, amount)
    BY <1>1, CohorteBooks
  <2>2. LogRow(to, id, amount) \in LogRows
    BY ReplyTypes
  <2> QED
    BY <2>1, <2>2, CommitsAreBooked
<1>2. ASSUME NEW n \in Nodes, NEW p \in Nodes, CoordinatorAck(n, p) \/ CoordinatorTorn(n, p)
      PROVE  (\E row \in LogRows : Booked(n, row)) \/ (\E to \in Nodes : HalfBooked(n, to))
  <2>1. PICK done \in 0..2, to \in Nodes, id \in TxIds, amount \in Int :
            CommitSpender(done, n, to, id, amount)
    BY <1>2, CoordinatorBooks
  <2>2. -amount \in Int
    OBVIOUS
  <2>3. LogRow(to, id, -amount) \in LogRows
    BY <2>2, ReplyTypes
  <2> QED
    BY <2>1, <2>3, CommitsAreBooked
<1>3. ASSUME NEW n \in Nodes, NEW p \in Nodes, HandleTxItem(n, p)
      PROVE  \/ CohorteCommit(n, p) \/ CoordinatorAck(n, p)
             \/ UNCHANGED <<peers, txlog, torn>>
  BY <1>3 DEF HandleTxItem, CohorteQuery, CohorteRequery, CohorteUninitialised,
              CoordinatorVoteYes, AbortPayment, UnknownPhase, Die
<1>4. ASSUME NEW n \in Nodes,
             \/ \E p \in Nodes, amount \in Amounts : PayTo(n, p, amount)
             \/ \E id \in TxIds : StartPayment(n, id)
             \/ Timeout(n)
             \/ \E p \in Nodes : DropLink(n, p)
             \/ Crash(n)
             \/ Restart(n)
      PROVE  UNCHANGED <<peers, txlog, torn>>
  BY <1>4 DEF PayTo, StartPayment, Timeout, DropLink, Crash, Restart, Die
<1>5. CASE UNCHANGED vars
  BY <1>5 DEF vars
<1> QED
  BY <1>1, <1>2, <1>3, <1>4, <1>5 DEF Next

\* Whatever fails, is lost or times out, and however often a node is started
\* again, every balance is what the log of its payments adds up to, but for a
\* friend whose commit failed or died between its writes.
THEOREM BooksAlwaysBalance ==
    Spec => []BooksBalance
<1> DEFINE I == TypeOK /\ BooksBalance
<1>1. Init => I
  <2> SUFFICES ASSUME Init, NEW n \in Nodes, NEW p \in Nodes
               PROVE  peers[n][p].balance = Logged(n, p)
    BY InitTypeOK DEF BooksBalance
  <2>1. txlog[n] = <<>> /\ peers[n][p].balance = 0
    BY DEF Init, OpenLine
  <2>2. {i \in DOMAIN txlog[n] : txlog[n][i].peer = p} = {}
    BY <2>1
  <2> QED
    BY <2>1, <2>2, SumEmpty DEF Logged
<1>2. I /\ [Next]_vars => I'
  <2> SUFFICES ASSUME TypeOK, BooksBalance, [Next]_vars
               PROVE  BooksBalance'
    BY NextTypeOK
  <2>1. CASE UNCHANGED <<peers, txlog, torn>>
    BY <2>1 DEF BooksBalance, Logged
  <2>2. CASE \E n \in Nodes : \E row \in LogRows : Booked(n, row)
    BY <2>2, BookedBalances
  <2>3. CASE \E n, p \in Nodes : HalfBooked(n, p)
    BY <2>3, HalfBookedBalances
  <2> QED
    BY <2>1, <2>2, <2>3, WhoBooks
<1>3. I => BooksBalance
  OBVIOUS
<1> QED
  BY <1>1, <1>2, <1>3, PTL DEF Spec

-----------------------------------------------------------------------------
(* Acknowledgements under way.                                             *)

Networks == [Nodes -> [Nodes -> Seq(Items)]]

\* A finite union of finite sets, each marked with its index.
LEMMA MarkedUnion ==
    ASSUME NEW S, IsFiniteSet(S), NEW A, \A x \in S : IsFiniteSet(A[x])
    PROVE  IsFiniteSet(UNION {{x} \X A[x] : x \in S})
<1> DEFINE T == {{x} \X A[x] : x \in S}
           g == [x \in S |-> {x} \X A[x]]
<1>1. g \in Surjection(S, T)
  BY DEF Surjection
<1>2. IsFiniteSet(T)
  <2> HIDE DEF g, T
  <2> QED
    BY <1>1, FS_Surjection
<1>3. \A U \in T : IsFiniteSet(U)
  <2> SUFFICES ASSUME NEW x \in S PROVE IsFiniteSet({x} \X A[x])
    OBVIOUS
  <2> QED
    BY FS_Singleton, FS_Product
<1> HIDE DEF T
<1>4. IsFiniteSet(UNION T)
  BY <1>2, <1>3, FS_UNION
<1> QED
  BY <1>4 DEF T

\* The positions of the acknowledgements of one queue.
AcksIn(queue) == {i \in DOMAIN queue : queue[i].phase = "ACK_COMMIT"}

\* There are finitely many acknowledgements under way.
LEMMA AcksFinite ==
    ASSUME IsFiniteSet(Nodes), NEW a \in Networks, NEW n \in Nodes
    PROVE  /\ IsFiniteSet(AcksTo(a, n))
           /\ Cardinality(AcksTo(a, n)) \in Nat
           /\ AcksTo(a, n) = {e \in Nodes \X Nat : e[2] \in AcksIn(a[e[1]][n])}
<1> DEFINE A == [f \in Nodes |-> AcksIn(a[f][n])]
<1>1. \A f \in Nodes : A[f] \subseteq Nat /\ IsFiniteSet(A[f])
  <2> SUFFICES ASSUME NEW f \in Nodes
               PROVE  AcksIn(a[f][n]) \subseteq Nat /\ IsFiniteSet(AcksIn(a[f][n]))
    OBVIOUS
  <2>1. a[f][n] \in Seq(Items)
    BY DEF Networks
  <2>2. DOMAIN a[f][n] = 1..Len(a[f][n]) /\ Len(a[f][n]) \in Nat
    BY <2>1, LenProperties
  <2>3. IsFiniteSet(1..Len(a[f][n]))
    BY <2>2, FS_Interval
  <2> QED
    BY <2>2, <2>3, FS_Subset DEF AcksIn
<1>2. AcksTo(a, n) = UNION {{f} \X A[f] : f \in Nodes}
  BY DEF AcksTo, AcksIn
<1>3. IsFiniteSet(UNION {{f} \X A[f] : f \in Nodes})
  <2> HIDE DEF A
  <2> QED
    BY <1>1, MarkedUnion
<1>4. AcksTo(a, n) = {e \in Nodes \X Nat : e[2] \in AcksIn(a[e[1]][n])}
  BY <1>1, <1>2
<1> QED
  BY <1>2, <1>3, <1>4, FS_CardinalityType

\* What is lost adds no acknowledgement.
LEMMA AcksLost ==
    ASSUME IsFiniteSet(Nodes), NEW a \in Networks, NEW b \in Networks, NEW n \in Nodes,
           \A f \in Nodes : AcksIn(b[f][n]) \subseteq AcksIn(a[f][n])
    PROVE  Cardinality(AcksTo(b, n)) <= Cardinality(AcksTo(a, n))
<1>1. AcksTo(b, n) \subseteq AcksTo(a, n)
  BY AcksFinite
<1>2. IsFiniteSet(AcksTo(a, n))
  BY AcksFinite
<1> QED
  BY <1>1, <1>2, FS_Subset

\* Taking the first item of a queue takes an acknowledgement if it is one.
LEMMA AcksTaken ==
    ASSUME IsFiniteSet(Nodes), NEW a \in Networks, NEW b \in Networks,
           NEW n \in Nodes, NEW p \in Nodes, a[p][n] # <<>>,
           b = [a EXCEPT ![p][n] = Tail(@)]
    PROVE  /\ \A m \in Nodes : Cardinality(AcksTo(b, m)) <= Cardinality(AcksTo(a, m))
           /\ Head(a[p][n]).phase = "ACK_COMMIT"
                 => Cardinality(AcksTo(b, n)) + 1 <= Cardinality(AcksTo(a, n))
<1>1. \A f, m \in Nodes : b[f][m] = IF f = p /\ m = n THEN Tail(a[p][n]) ELSE a[f][m]
  BY DEF Networks
<1>2. a[p][n] \in Seq(Items)
  BY DEF Networks
<1>3. /\ Tail(a[p][n]) \in Seq(Items)
      /\ Len(Tail(a[p][n])) = Len(a[p][n]) - 1
      /\ \A i \in 1..Len(Tail(a[p][n])) : Tail(a[p][n])[i] = a[p][n][i + 1]
  BY <1>2, TailOfQueue
<1>4. /\ DOMAIN a[p][n] = 1..Len(a[p][n]) /\ Len(a[p][n]) \in Nat \ {0}
      /\ DOMAIN Tail(a[p][n]) = 1..Len(Tail(a[p][n]))
      /\ Head(a[p][n]) = a[p][n][1]
  BY <1>2, <1>3, LenProperties, EmptySeq
<1>5. \A i \in AcksIn(b[p][n]) : i \in Nat /\ i > 0 /\ i + 1 \in AcksIn(a[p][n])
  <2> SUFFICES ASSUME NEW i \in AcksIn(b[p][n])
               PROVE  i \in Nat /\ i > 0 /\ i + 1 \in AcksIn(a[p][n])
    OBVIOUS
  <2>1. b[p][n] = Tail(a[p][n])
    BY <1>1
  <2>2. i \in 1..Len(Tail(a[p][n])) /\ Tail(a[p][n])[i].phase = "ACK_COMMIT"
    BY <1>4, <2>1 DEF AcksIn
  <2>3. i + 1 \in DOMAIN a[p][n] /\ a[p][n][i + 1].phase = "ACK_COMMIT"
    BY <1>3, <1>4, <2>2
  <2> QED
    BY <2>2, <2>3 DEF AcksIn
<1> DEFINE A == AcksTo(a, n)
           B == AcksTo(b, n)
           shift == [e \in B |-> IF e[1] = p THEN <<p, e[2] + 1>> ELSE e]
           T == A \ {<<p, 1>>}
<1>6. /\ IsFiniteSet(A) /\ Cardinality(A) \in Nat /\ Cardinality(B) \in Nat
      /\ A = {e \in Nodes \X Nat : e[2] \in AcksIn(a[e[1]][n])}
      /\ B = {e \in Nodes \X Nat : e[2] \in AcksIn(b[e[1]][n])}
  BY AcksFinite
<1>14. \A e \in B : /\ e = <<e[1], e[2]>> /\ e[1] \in Nodes /\ e[2] \in Nat
                    /\ e[2] \in AcksIn(b[e[1]][n])
  <2> HIDE DEF B
  <2>1. \A e \in B : e \in Nodes \X Nat /\ e[2] \in AcksIn(b[e[1]][n])
    BY <1>6
  <2>2. \A e \in Nodes \X Nat : e = <<e[1], e[2]>> /\ e[1] \in Nodes /\ e[2] \in Nat
    OBVIOUS
  <2> QED
    BY <2>1, <2>2
<1>7. \A e \in B : shift[e] \in T
  <2> SUFFICES ASSUME NEW e \in B PROVE shift[e] \in T
    OBVIOUS
  <2>1. e = <<e[1], e[2]>> /\ e[1] \in Nodes /\ e[2] \in Nat
        /\ e[2] \in AcksIn(b[e[1]][n])
    BY <1>14
  <2>2. CASE e[1] = p
    <3>1. e[2] + 1 \in AcksIn(a[p][n]) /\ e[2] + 1 # 1 /\ e[2] + 1 \in Nat
      BY <1>5, <2>1, <2>2
    <3>2. <<p, e[2] + 1>> \in A /\ <<p, e[2] + 1>> # <<p, 1>>
      BY <1>6, <3>1
    <3> QED
      BY <2>2, <3>2
  <2>3. CASE e[1] # p
    <3>1. e[2] \in AcksIn(a[e[1]][n])
      BY <1>1, <2>1, <2>3
    <3>2. e \in A /\ e # <<p, 1>>
      BY <1>6, <2>1, <2>3, <3>1
    <3> QED
      BY <2>3, <3>2
  <2> QED
    BY <2>2, <2>3
<1>8. shift \in Injection(B, T)
  <2>1. shift \in [B -> T]
    BY <1>7
  <2>2. ASSUME NEW d \in B, NEW e \in B, shift[d] = shift[e]
        PROVE  d = e
    <3>1. /\ d = <<d[1], d[2]>> /\ d[1] \in Nodes /\ d[2] \in Nat
          /\ e = <<e[1], e[2]>> /\ e[1] \in Nodes /\ e[2] \in Nat
      BY <1>14
    <3>2. /\ shift[d] = IF d[1] = p THEN <<p, d[2] + 1>> ELSE <<d[1], d[2]>>
          /\ shift[e] = IF e[1] = p THEN <<p, e[2] + 1>> ELSE <<e[1], e[2]>>
      BY <3>1
    <3>3. \A x \in Nat, y \in Nat : x + 1 = y + 1 => x = y
      OBVIOUS
    <3>4. CASE d[1] = p /\ e[1] = p
      <4>1. <<p, d[2] + 1>> = <<p, e[2] + 1>>
        BY <2>2, <3>2, <3>4
      <4>2. d[2] = e[2]
        BY <3>1, <3>3, <4>1
      <4> QED
        BY <3>1, <3>4, <4>2
    <3>5. shift[d][1] = d[1] /\ shift[e][1] = e[1]
      BY <3>2
    <3>6. CASE d[1] # p /\ e[1] # p
      BY <2>2, <3>1, <3>2, <3>6
    <3> QED
      BY <2>2, <3>4, <3>5, <3>6
  <2> HIDE DEF shift, B, T
  <2> QED
    BY <2>1, <2>2 DEF Injection, IsInjective
<1>9. IsFiniteSet(T) /\ Cardinality(T) <= Cardinality(A)
      /\ (<<p, 1>> \in A => Cardinality(T) = Cardinality(A) - 1)
      /\ Cardinality(T) \in Nat
  <2> HIDE DEF A
  <2>1. IsFiniteSet(T) /\ Cardinality(T) = IF <<p, 1>> \in A THEN Cardinality(A) - 1
                                           ELSE Cardinality(A)
    BY <1>6, FS_RemoveElement
  <2> HIDE DEF T
  <2> QED
    BY <1>6, <2>1, FS_CardinalityType
<1>10. Cardinality(B) <= Cardinality(T)
  <2> HIDE DEF shift, B, T
  <2> QED
    BY <1>8, <1>9, FS_Injection
<1>11. Head(a[p][n]).phase = "ACK_COMMIT" => <<p, 1>> \in A
  <2> SUFFICES ASSUME Head(a[p][n]).phase = "ACK_COMMIT" PROVE <<p, 1>> \in A
    OBVIOUS
  <2>1. 1 \in AcksIn(a[p][n])
    BY <1>4 DEF AcksIn
  <2> HIDE DEF A
  <2>2. <<p, 1>> \in Nodes \X Nat
    OBVIOUS
  <2> QED
    BY <1>6, <2>1, <2>2
<1>12. ASSUME NEW m \in Nodes, m # n
       PROVE  Cardinality(AcksTo(b, m)) <= Cardinality(AcksTo(a, m))
  <2>1. \A f \in Nodes : AcksIn(b[f][m]) \subseteq AcksIn(a[f][m])
    BY <1>1, <1>12
  <2> QED
    BY <2>1, AcksLost
<1> HIDE DEF A, B, T
<1>13. /\ Cardinality(B) <= Cardinality(A)
       /\ Head(a[p][n]).phase = "ACK_COMMIT" => Cardinality(B) + 1 <= Cardinality(A)
  BY <1>6, <1>9, <1>10, <1>11
<1> QED
  BY <1>12, <1>13 DEF A, B

\* How many acknowledgements for m an item for to is.
AckFor(m, to, item) == IF m = to /\ item.phase = "ACK_COMMIT" THEN 1 ELSE 0

\* Sending an item adds an acknowledgement if it is one.
LEMMA AcksSent ==
    ASSUME IsFiniteSet(Nodes), NEW a \in Networks, NEW b \in Networks,
           NEW n \in Nodes, NEW to \in Nodes, NEW item \in Items,
           b = [a EXCEPT ![n][to] = Post(to, @, item)], NEW m \in Nodes
    PROVE  Cardinality(AcksTo(b, m)) <= Cardinality(AcksTo(a, m)) + AckFor(m, to, item)
<1>1. \A f, t \in Nodes :
         b[f][t] = IF f = n /\ t = to THEN Post(to, a[n][to], item) ELSE a[f][t]
  BY DEF Networks
<1>2. a[n][to] \in Seq(Items)
  BY DEF Networks
<1> DEFINE k == Len(a[n][to]) + 1
<1>3. \A i \in DOMAIN Post(to, a[n][to], item) :
         \/ i \in DOMAIN a[n][to] /\ Post(to, a[n][to], item)[i] = a[n][to][i]
         \/ Post(to, a[n][to], item)[i] = item /\ i = k
  BY <1>2, PostEffect
<1>4. \A f \in Nodes : AcksIn(b[f][m]) \subseteq
         AcksIn(a[f][m]) \cup (IF f = n /\ AckFor(m, to, item) = 1 THEN {k} ELSE {})
  BY <1>1, <1>3 DEF AcksIn, AckFor
<1>5. /\ IsFiniteSet(AcksTo(a, m)) /\ Cardinality(AcksTo(a, m)) \in Nat
      /\ Cardinality(AcksTo(b, m)) \in Nat
      /\ AcksTo(a, m) = {e \in Nodes \X Nat : e[2] \in AcksIn(a[e[1]][m])}
      /\ AcksTo(b, m) = {e \in Nodes \X Nat : e[2] \in AcksIn(b[e[1]][m])}
  BY AcksFinite
<1> HIDE DEF k
<1>6. CASE AckFor(m, to, item) = 1
  <2>1. AcksTo(b, m) \subseteq AcksTo(a, m) \cup {<<n, k>>}
    <3> SUFFICES ASSUME NEW e \in AcksTo(b, m), e \notin AcksTo(a, m)
                 PROVE  e = <<n, k>>
      OBVIOUS
    <3>1. e \in Nodes \X Nat /\ e[2] \in AcksIn(b[e[1]][m])
      BY <1>5
    <3>2. e[2] \notin AcksIn(a[e[1]][m])
      BY <1>5, <3>1
    <3>3. e[1] \in Nodes /\ e = <<e[1], e[2]>>
      BY <3>1
    <3>4. e[1] = n /\ e[2] = k
      BY <1>4, <3>1, <3>2, <3>3
    <3> QED
      BY <3>3, <3>4
  <2>2. /\ IsFiniteSet(AcksTo(a, m) \cup {<<n, k>>})
        /\ Cardinality(AcksTo(a, m) \cup {<<n, k>>}) =
              IF <<n, k>> \in AcksTo(a, m) THEN Cardinality(AcksTo(a, m))
              ELSE Cardinality(AcksTo(a, m)) + 1
    BY <1>5, FS_AddElement
  <2>3. Cardinality(AcksTo(b, m)) <= Cardinality(AcksTo(a, m) \cup {<<n, k>>})
    BY <2>1, <2>2, FS_Subset
  <2>4. \/ Cardinality(AcksTo(b, m)) <= Cardinality(AcksTo(a, m))
        \/ Cardinality(AcksTo(b, m)) <= Cardinality(AcksTo(a, m)) + 1
    BY <2>2, <2>3
  <2> QED
    BY <1>5, <1>6, <2>4
<1>7. CASE AckFor(m, to, item) = 0
  <2>1. \A f \in Nodes : AcksIn(b[f][m]) \subseteq AcksIn(a[f][m])
    BY <1>4, <1>7
  <2>2. Cardinality(AcksTo(b, m)) <= Cardinality(AcksTo(a, m))
    BY <2>1, AcksLost
  <2> QED
    BY <1>5, <1>7, <2>2
<1> QED
  BY <1>6, <1>7 DEF AckFor

\* Taking and answering, on the links as they are.
LEMMA Traffic ==
    ASSUME TypeOK, IsFiniteSet(Nodes), NEW n \in Nodes, NEW p \in Nodes,
           net[p][n] # <<>>, NEW m \in Nodes
    PROVE  /\ Consume(n, p) =>
                 /\ Cardinality(AcksTo(net', m)) <= Cardinality(AcksTo(net, m))
                 /\ m = n /\ Head(net[p][n]).phase = "ACK_COMMIT" =>
                       Cardinality(AcksTo(net', m)) + 1 <= Cardinality(AcksTo(net, m))
           /\ \A to \in Nodes, item \in Items :
                 ConsumeAndSend(n, p, to, item) =>
                     Cardinality(AcksTo(net', m)) <=
                         Cardinality(AcksTo(net, m)) + AckFor(m, to, item)
<1> DEFINE taken == [net EXCEPT ![p][n] = Tail(@)]
<1>1. net \in Networks
  BY DEF TypeOK, Networks
<1>2. Tail(net[p][n]) \in Seq(Items)
  <2>1. net[p][n] \in Seq(Items)
    BY DEF TypeOK
  <2> QED
    BY <2>1, TailOfQueue
<1>3. taken \in Networks
  BY <1>2 DEF TypeOK, Networks
<1>4. PICK next : next = taken
  OBVIOUS
<1>5. next \in Networks /\ next = [net EXCEPT ![p][n] = Tail(@)]
  BY <1>3, <1>4
<1> HIDE DEF taken
<1>6. /\ Cardinality(AcksTo(next, m)) <= Cardinality(AcksTo(net, m))
      /\ m = n /\ Head(net[p][n]).phase = "ACK_COMMIT" =>
            Cardinality(AcksTo(next, m)) + 1 <= Cardinality(AcksTo(net, m))
  BY <1>1, <1>5, AcksTaken
<1>7. ASSUME NEW to \in Nodes, NEW item \in Items, ConsumeAndSend(n, p, to, item)
      PROVE  Cardinality(AcksTo(net', m)) <=
                 Cardinality(AcksTo(net, m)) + AckFor(m, to, item)
  <2>1. net' = [next EXCEPT ![n][to] = Post(to, @, item)]
    BY <1>5, <1>7 DEF ConsumeAndSend
  <2>2. Post(to, next[n][to], item) \in Seq(Items)
    BY <1>5, AppendToQueue DEF Post, Networks
  <2>3. net' \in Networks
    BY <1>5, <2>1, <2>2 DEF Networks
  <2>4. Cardinality(AcksTo(net', m)) <= Cardinality(AcksTo(next, m)) + AckFor(m, to, item)
    BY <1>5, <2>1, <2>3, AcksSent
  <2>5. /\ Cardinality(AcksTo(net', m)) \in Nat /\ Cardinality(AcksTo(next, m)) \in Nat
        /\ Cardinality(AcksTo(net, m)) \in Nat /\ AckFor(m, to, item) \in Nat
    BY <1>1, <1>5, <2>3, AcksFinite DEF AckFor
  <2> QED
    BY <1>6, <2>4, <2>5
<1>8. Consume(n, p) => net' = next
  BY <1>5 DEF Consume
<1> QED
  BY <1>6, <1>7, <1>8

-----------------------------------------------------------------------------
(* What is paid and what is collected.                                     *)

\* The rows in which n pays, and those of p in which it collects from n.
Debits(n, log) == {i \in DOMAIN log : log[i].tx[1] = n}
Credits(p, log, n) == {i \in DOMAIN log : log[i].peer = n /\ log[i].tx[1] # p}
CollectedIn(logs, n) == UNION {{p} \X Credits(p, logs[p], n) : p \in Nodes}

Logs == [Nodes -> Seq(LogRows)]

\* There are finitely many payments in the logs.
LEMMA PaymentsFinite ==
    ASSUME IsFiniteSet(Nodes), NEW logs \in Logs, NEW n \in Nodes
    PROVE  /\ IsFiniteSet(Debits(n, logs[n])) /\ Cardinality(Debits(n, logs[n])) \in Nat
           /\ IsFiniteSet(CollectedIn(logs, n))
           /\ Cardinality(CollectedIn(logs, n)) \in Nat
           /\ CollectedIn(logs, n) =
                 {e \in Nodes \X Nat : e[2] \in Credits(e[1], logs[e[1]], n)}
<1>1. \A p \in Nodes : DOMAIN logs[p] \subseteq Nat /\ IsFiniteSet(DOMAIN logs[p])
  <2> TAKE p \in Nodes
  <2>1. logs[p] \in Seq(LogRows)
    BY DEF Logs
  <2>2. DOMAIN logs[p] = 1..Len(logs[p]) /\ Len(logs[p]) \in Nat
    BY <2>1, LenProperties
  <2> QED
    BY <2>2, FS_Interval
<1>2. IsFiniteSet(Debits(n, logs[n]))
  BY <1>1, FS_Subset DEF Debits
<1> DEFINE A == [p \in Nodes |-> Credits(p, logs[p], n)]
<1>3. \A p \in Nodes : A[p] \subseteq Nat /\ IsFiniteSet(A[p])
  BY <1>1, FS_Subset DEF Credits
<1>4. CollectedIn(logs, n) = UNION {{p} \X A[p] : p \in Nodes}
  BY DEF CollectedIn
<1>5. IsFiniteSet(UNION {{p} \X A[p] : p \in Nodes})
  <2> HIDE DEF A
  <2> QED
    BY <1>3, MarkedUnion
<1>6. CollectedIn(logs, n) = {e \in Nodes \X Nat : e[2] \in Credits(e[1], logs[e[1]], n)}
  BY <1>3, <1>4
<1> QED
  BY <1>2, <1>4, <1>5, <1>6, FS_CardinalityType

\* How many payments of m a new row of n is, and how many it collects from m.
PaysFor(m, n, row) == IF m = n /\ row.tx[1] = n THEN 1 ELSE 0
CollectsFrom(m, n, row) == IF m = row.peer /\ row.tx[1] # n THEN 1 ELSE 0

\* A booking counts as one payment, or as one that is collected.
LEMMA BookedCounts ==
    ASSUME TypeOK, IsFiniteSet(Nodes), NEW n \in Nodes, NEW row \in LogRows,
           Booked(n, row), NEW m \in Nodes
    PROVE  /\ Cardinality(Paid(m)') = Cardinality(Paid(m)) + PaysFor(m, n, row)
           /\ Cardinality(Collected(m)') = Cardinality(Collected(m)) + CollectsFrom(m, n, row)
<1> DEFINE k == Len(txlog[n]) + 1
<1>1. /\ \A q \in Nodes : q # n => txlog'[q] = txlog[q]
      /\ Len(txlog[n]) \in Nat
      /\ DOMAIN txlog[n] = 1..Len(txlog[n])
      /\ DOMAIN txlog'[n] = DOMAIN txlog[n] \cup {k}
      /\ k \notin DOMAIN txlog[n]
      /\ \A i \in DOMAIN txlog[n] : txlog'[n][i] = txlog[n][i]
      /\ txlog'[n][k] = row
  BY LogGrows
<1>2. txlog \in Logs /\ txlog' \in Logs
  <2>1. txlog \in Logs /\ txlog[n] \in Seq(LogRows)
    BY DEF TypeOK, Logs
  <2>2. Append(txlog[n], row) \in Seq(LogRows)
    BY <2>1, AppendToQueue
  <2>3. txlog' = [txlog EXCEPT ![n] = Append(@, row)]
    BY DEF Booked
  <2> QED
    BY <2>1, <2>2, <2>3 DEF Logs
<1>3. /\ Paid(m) = Debits(m, txlog[m]) /\ Paid(m)' = Debits(m, txlog'[m])
      /\ Collected(m) = CollectedIn(txlog, m) /\ Collected(m)' = CollectedIn(txlog', m)
  BY DEF Paid, Debits, Collected, CollectedIn, Credits
<1>4. k \in Nat
  BY <1>1
<1>5. Cardinality(Debits(m, txlog'[m])) = Cardinality(Debits(m, txlog[m])) + PaysFor(m, n, row)
  <2>1. IsFiniteSet(Debits(m, txlog[m])) /\ Cardinality(Debits(m, txlog[m])) \in Nat
    BY <1>2, PaymentsFinite
  <2>2. CASE PaysFor(m, n, row) = 1
    <3>1. m = n /\ row.tx[1] = n
      BY <2>2 DEF PaysFor
    <3>2. Debits(m, txlog'[m]) = Debits(m, txlog[m]) \cup {k} /\ k \notin Debits(m, txlog[m])
      BY <1>1, <3>1 DEF Debits
    <3> HIDE DEF k
    <3>3. Cardinality(Debits(m, txlog[m]) \cup {k}) = Cardinality(Debits(m, txlog[m])) + 1
      BY <2>1, <3>2, FS_AddElement
    <3> QED
      BY <2>2, <3>2, <3>3
  <2>3. CASE PaysFor(m, n, row) = 0
    <3>1. m # n \/ row.tx[1] # n
      BY <2>3 DEF PaysFor
    <3>2. Debits(m, txlog'[m]) = Debits(m, txlog[m])
      BY <1>1, <3>1 DEF Debits
    <3> QED
      BY <2>1, <2>3, <3>2
  <2> QED
    BY <2>2, <2>3 DEF PaysFor
<1>6. Cardinality(CollectedIn(txlog', m)) =
          Cardinality(CollectedIn(txlog, m)) + CollectsFrom(m, n, row)
  <2>1. /\ IsFiniteSet(CollectedIn(txlog, m)) /\ Cardinality(CollectedIn(txlog, m)) \in Nat
        /\ CollectedIn(txlog, m) = {e \in Nodes \X Nat : e[2] \in Credits(e[1], txlog[e[1]], m)}
        /\ CollectedIn(txlog', m) = {e \in Nodes \X Nat : e[2] \in Credits(e[1], txlog'[e[1]], m)}
    BY <1>2, PaymentsFinite
  <2>2. CASE CollectsFrom(m, n, row) = 1
    <3>1. m = row.peer /\ row.tx[1] # n
      BY <2>2 DEF CollectsFrom
    <3>2. Credits(n, txlog'[n], m) = Credits(n, txlog[n], m) \cup {k} /\ k \notin Credits(n, txlog[n], m)
      BY <1>1, <3>1 DEF Credits
    <3>3. \A q \in Nodes : q # n => Credits(q, txlog'[q], m) = Credits(q, txlog[q], m)
      BY <1>1
    <3> HIDE DEF k
    <3>4. CollectedIn(txlog', m) = CollectedIn(txlog, m) \cup {<<n, k>>}
      <4>1. \A e \in Nodes \X Nat :
               e[2] \in Credits(e[1], txlog'[e[1]], m) <=>
                   e[2] \in Credits(e[1], txlog[e[1]], m) \/ e = <<n, k>>
        <5> TAKE e \in Nodes \X Nat
        <5>1. e[1] \in Nodes /\ e = <<e[1], e[2]>>
          OBVIOUS
        <5>2. CASE e[1] = n
          BY <3>2, <5>1, <5>2
        <5>3. CASE e[1] # n
          BY <3>3, <5>1, <5>3
        <5> QED
          BY <5>2, <5>3
      <4>2. <<n, k>> \in Nodes \X Nat
        BY <1>4
      <4> QED
        BY <2>1, <4>1, <4>2
    <3>5. <<n, k>> \notin CollectedIn(txlog, m)
      BY <2>1, <3>2
    <3>6. Cardinality(CollectedIn(txlog, m) \cup {<<n, k>>}) =
              Cardinality(CollectedIn(txlog, m)) + 1
      BY <2>1, <3>5, FS_AddElement
    <3> QED
      BY <2>2, <3>4, <3>6
  <2>3. CASE CollectsFrom(m, n, row) = 0
    <3>1. ~(m = row.peer /\ row.tx[1] # n)
      BY <2>3 DEF CollectsFrom
    <3>2. \A q \in Nodes : Credits(q, txlog'[q], m) = Credits(q, txlog[q], m)
      BY <1>1, <3>1 DEF Credits
    <3>3. CollectedIn(txlog', m) = CollectedIn(txlog, m)
      BY <3>2 DEF CollectedIn
    <3>4. Cardinality(CollectedIn(txlog, m)) \in Nat
      BY <2>1
    <3> QED
      BY <2>3, <3>3, <3>4
  <2> QED
    BY <2>2, <2>3 DEF CollectsFrom
<1> QED
  BY <1>3, <1>5, <1>6

-----------------------------------------------------------------------------
(* Every step.                                                             *)

\* What is new belongs to payments of the node that pays.
OwnRole(n, id, tm) ==
    /\ tm.role = "coordinator" => id[1] = n /\ tm.peer # n
    /\ tm.role = "cohorte" => id[1] # n
RealItems == \A f, t \in Nodes : \A item \in Range(net'[f][t]) :
    item \in Range(net[f][t]) \/ item.phase # "QUERY" \/ item.tx[1] # t
RealManagers == \A n \in Nodes, id \in TxIds :
    \/ currentTX'[n][id] \in {currentTX[n][id], NoTM}
    \/ OwnRole(n, id, currentTX'[n][id])

\* Whose friends still tell the truth gets no acknowledgement more.
FewerAcks == \A m \in Nodes : Trusted(m)' =>
    Cardinality(AcksTo(net', m)) <= Cardinality(AcksTo(net, m))

\* Such a step leaves the payments to those who pay.
LEMMA RealStep ==
    ASSUME PayersOwnIds, RealItems, RealManagers
    PROVE  PayersOwnIds'
<1>1. ASSUME NEW n \in Nodes, NEW id \in TxIds
      PROVE  OwnRole(n, id, currentTX'[n][id])
  <2>1. OwnRole(n, id, currentTX[n][id]) /\ OwnRole(n, id, NoTM)
    BY DEF PayersOwnIds, OwnRole, NoTM
  <2> QED
    BY <2>1 DEF RealManagers
<1>2. ASSUME NEW f \in Nodes, NEW t \in Nodes, NEW item \in Range(net'[f][t]),
             item.phase = "QUERY"
      PROVE  item.tx[1] # t
  BY <1>2 DEF PayersOwnIds, RealItems
<1> QED
  BY <1>1, <1>2 DEF PayersOwnIds, OwnRole

\* Nothing is sent; an answer is sent.
LEMMA RealTraffic ==
    ASSUME TypeOK, IsFiniteSet(Nodes), NEW n \in Nodes, NEW p \in Nodes,
           net[p][n] # <<>>
    PROVE  /\ Consume(n, p) => RealItems /\ FewerAcks
           /\ \A to \in Nodes, id \in TxIds,
                 phase \in {"VOTE_YES", "VOTE_NO", "COMMIT", "ABORT"} :
                 ConsumeAndSend(n, p, to, Reply(phase, id)) => RealItems /\ FewerAcks
           /\ \A to \in Nodes, id \in TxIds :
                 ConsumeAndSend(n, p, to, Reply("ACK_COMMIT", id)) => RealItems
<1>1. ASSUME Consume(n, p) PROVE RealItems /\ FewerAcks
  <2>1. \A f, t \in Nodes : Range(net'[f][t]) \subseteq Range(net[f][t])
    BY <1>1, ConsumeEffect
  <2>2. FewerAcks
    BY <1>1, Traffic DEF FewerAcks
  <2> QED
    BY <2>1, <2>2 DEF RealItems
<1>2. ASSUME NEW to \in Nodes, NEW id \in TxIds,
             NEW phase \in {"VOTE_YES", "VOTE_NO", "COMMIT", "ACK_COMMIT", "ABORT"},
             ConsumeAndSend(n, p, to, Reply(phase, id))
      PROVE  RealItems /\ (phase # "ACK_COMMIT" => FewerAcks)
  <2>1. PICK item \in Items : item = Reply(phase, id) /\ item.phase = phase
    <3>1. phase \in TxPhases
      BY DEF TxPhases
    <3>2. Reply(phase, id) \in Items
      BY <3>1, ReplyTypes
    <3> QED
      BY <3>2 DEF Reply, Item
  <2>2. ConsumeAndSend(n, p, to, item)
    BY <1>2, <2>1
  <2>3. OnlyAdds(n, to, item) /\ item.phase # "QUERY"
    BY <2>1, <2>2, ConsumeAndSendEffect
  <2>4. RealItems
    BY <2>3 DEF RealItems, OnlyAdds
  <2>5. ASSUME phase # "ACK_COMMIT", NEW m \in Nodes
        PROVE  Cardinality(AcksTo(net', m)) <= Cardinality(AcksTo(net, m))
    <3>1. Cardinality(AcksTo(net', m)) <= Cardinality(AcksTo(net, m)) + AckFor(m, to, item)
      BY <2>2, Traffic
    <3>2. AckFor(m, to, item) = 0
      BY <2>1, <2>5 DEF AckFor
    <3>3. net \in Networks
      BY DEF TypeOK, Networks
    <3>4. Cardinality(AcksTo(net, m)) \in Nat
      BY <3>3, AcksFinite
    <3> QED
      BY <3>1, <3>2, <3>4
  <2> QED
    BY <2>4, <2>5 DEF FewerAcks
<1> QED
  BY <1>1, <1>2

\* What is lost.
LEMMA RealLoss ==
    ASSUME TypeOK, TypeOK', IsFiniteSet(Nodes),
           \A f, t \in Nodes : \/ net'[f][t] \in {<<>>, net[f][t]}
                               \/ net'[f][t] \in Prefixes(net[f][t])
    PROVE  RealItems /\ FewerAcks
<1>1. RealItems
  BY LossEffect DEF RealItems
<1>2. net \in Networks /\ net' \in Networks
  BY DEF TypeOK, Networks
<1>3. ASSUME NEW f \in Nodes, NEW t \in Nodes
      PROVE  AcksIn(net'[f][t]) \subseteq AcksIn(net[f][t])
  <2>1. net[f][t] \in Seq(Items)
    BY DEF TypeOK
  <2>2. CASE net'[f][t] \in Prefixes(net[f][t])
    <3>1. /\ DOMAIN net'[f][t] \subseteq DOMAIN net[f][t]
          /\ \A i \in DOMAIN net'[f][t] : net'[f][t][i] = net[f][t][i]
      BY <2>1, <2>2, PrefixOfQueue
    <3> QED
      BY <3>1 DEF AcksIn
  <2>3. CASE net'[f][t] = <<>>
    BY <2>3 DEF AcksIn
  <2>4. CASE net'[f][t] = net[f][t]
    BY <2>4
  <2> QED
    BY <2>2, <2>3, <2>4
<1>4. FewerAcks
  BY <1>2, <1>3, AcksLost DEF FewerAcks
<1> QED
  BY <1>1, <1>4

\* A step that logs nothing and sends no acknowledgement to whom still trusts
\* its friends.
LEMMA QuietBooks ==
    ASSUME Collectible, TypeOK', IsFiniteSet(Nodes), UNCHANGED txlog,
           torn \subseteq torn', RealItems, RealManagers, FewerAcks
    PROVE  Collectible'
<1>1. PayersOwnIds'
  BY RealStep DEF Collectible
<1>2. AcksAreCollected'
  <2> SUFFICES ASSUME NEW n \in Nodes, Trusted(n)'
               PROVE  Cardinality(Paid(n)') + Cardinality(AcksTo(net', n))
                          <= Cardinality(Collected(n)')
    BY DEF AcksAreCollected
  <2>1. Paid(n)' = Paid(n) /\ Collected(n)' = Collected(n)
    BY DEF Paid, Collected
  <2>2. Trusted(n)
    BY DEF Trusted
  <2>3. Cardinality(Paid(n)) + Cardinality(AcksTo(net, n)) <= Cardinality(Collected(n))
    BY <2>2 DEF Collectible, AcksAreCollected
  <2>4. /\ net \in Networks /\ net' \in Networks /\ txlog \in Logs
    BY DEF Collectible, TypeOK, Networks, Logs
  <2>5. Paid(n) = Debits(n, txlog[n]) /\ Collected(n) = CollectedIn(txlog, n)
    BY DEF Paid, Debits, Collected, CollectedIn, Credits
  <2>6. /\ Cardinality(Paid(n)) \in Nat /\ Cardinality(Collected(n)) \in Nat
        /\ Cardinality(AcksTo(net, n)) \in Nat /\ Cardinality(AcksTo(net', n)) \in Nat
    BY <2>4, <2>5, AcksFinite, PaymentsFinite
  <2>7. Cardinality(AcksTo(net', n)) <= Cardinality(AcksTo(net, n))
    BY DEF FewerAcks
  <2> QED
    BY <2>1, <2>3, <2>6, <2>7
<1> QED
  BY <1>1, <1>2 DEF Collectible

\* The end of a process, which may have sent an answer before.
LEMMA EndsReal ==
    ASSUME TypeOK, TypeOK', IsFiniteSet(Nodes), NEW n \in Nodes, NEW sent, Ends(n, sent),
           NEW to \in Nodes, NEW item,
           \/ sent = net[n]
           \/ /\ sent = [net[n] EXCEPT ![to] = Post(to, @, item)]
              /\ item \in Items /\ item.phase # "QUERY"
    PROVE  /\ RealItems /\ RealManagers
           /\ \A m \in Nodes : Cardinality(AcksTo(net', m)) <= Cardinality(AcksTo(net, m))
                  + (IF sent = net[n] THEN 0 ELSE AckFor(m, to, item))
<1>1. net \in Networks /\ net' \in Networks /\ DOMAIN net[n] = Nodes
  BY DEF TypeOK, Networks
<1>2. sent # net[n] => Post(to, net[n][to], item) \in Seq(Items)
  BY <1>1, AppendToQueue DEF Post, Networks
<1>3. PICK sending \in Networks :
          /\ sending = IF sent = net[n] THEN net
                       ELSE [net EXCEPT ![n][to] = Post(to, @, item)]
          /\ sending[n] = sent
          /\ \A f, t \in Nodes : f # n => sending[f][t] = net[f][t]
  <2>1. CASE sent = net[n]
    BY <1>1, <2>1
  <2>2. CASE sent # net[n]
    <3> DEFINE next == [net EXCEPT ![n][to] = Post(to, @, item)]
    <3>1. next \in Networks
      BY <1>1, <1>2, <2>2 DEF Networks
    <3>2. next[n] = sent /\ \A f, t \in Nodes : f # n => next[f][t] = net[f][t]
      BY <1>1, <2>2 DEF Networks
    <3> QED
      BY <2>2, <3>1, <3>2
  <2> QED
    BY <2>1, <2>2
<1>4. PICK kept \in [Nodes -> UNION {Prefixes(sent[t]) : t \in Nodes}] :
          /\ \A t \in Nodes : kept[t] \in Prefixes(sent[t])
          /\ net' = [f \in Nodes |-> [t \in Nodes |->
                        IF t = n THEN <<>>
                        ELSE IF f = n THEN kept[t] ELSE net[f][t]]]
  BY DEF Ends
<1>5. ASSUME NEW f \in Nodes, NEW t \in Nodes
      PROVE  /\ net'[f][t] \in {<<>>, sending[f][t]} \/ net'[f][t] \in Prefixes(sending[f][t])
             /\ sending[f][t] \in Seq(Items)
  <2>1. net'[f][t] = IF t = n THEN <<>> ELSE IF f = n THEN kept[t] ELSE net[f][t]
    BY <1>4
  <2>2. kept[t] \in Prefixes(sent[t])
    BY <1>4
  <2>3. f = n => sending[f][t] = sent[t]
    BY <1>3
  <2>4. f # n => sending[f][t] = net[f][t]
    BY <1>3
  <2>5. sending[f][t] \in Seq(Items)
    BY <1>3 DEF Networks
  <2> QED
    BY <2>1, <2>2, <2>3, <2>4, <2>5
<1>6. ASSUME NEW f \in Nodes, NEW t \in Nodes
      PROVE  /\ AcksIn(net'[f][t]) \subseteq AcksIn(sending[f][t])
             /\ Range(net'[f][t]) \subseteq Range(sending[f][t])
  <2>1. CASE net'[f][t] \in Prefixes(sending[f][t])
    <3>1. /\ Range(net'[f][t]) \subseteq Range(sending[f][t])
          /\ DOMAIN net'[f][t] \subseteq DOMAIN sending[f][t]
          /\ \A i \in DOMAIN net'[f][t] : net'[f][t][i] = sending[f][t][i]
      BY <1>5, <2>1, PrefixOfQueue
    <3> QED
      BY <3>1 DEF AcksIn
  <2>2. CASE net'[f][t] = <<>>
    BY <2>2 DEF AcksIn, Range
  <2>3. CASE net'[f][t] = sending[f][t]
    BY <2>3
  <2> QED
    BY <1>5, <2>1, <2>2, <2>3
<1>7. RealItems
  <2> SUFFICES ASSUME NEW f \in Nodes, NEW t \in Nodes, NEW x \in Range(net'[f][t])
               PROVE  x \in Range(net[f][t]) \/ x.phase # "QUERY"
    BY DEF RealItems
  <2>1. x \in Range(sending[f][t])
    BY <1>6
  <2>2. CASE sent = net[n] \/ f # n \/ t # to
    BY <1>1, <1>3, <2>1, <2>2 DEF Networks
  <2>3. CASE sent # net[n] /\ f = n /\ t = to
    <3>1. sending[f][t] = Post(to, net[n][to], item) /\ net[n][to] \in Seq(Items)
      BY <1>1, <1>3, <2>3 DEF Networks
    <3>2. x \in Range(net[n][to]) \cup {item}
      BY <2>1, <2>3, <3>1, PostEffect
    <3> QED
      BY <2>3, <3>2
  <2> QED
    BY <2>2, <2>3
<1>8. RealManagers
  BY DEF Ends, RealManagers, TypeOK
<1>9. ASSUME NEW m \in Nodes
      PROVE  Cardinality(AcksTo(net', m)) <= Cardinality(AcksTo(net, m))
                 + (IF sent = net[n] THEN 0 ELSE AckFor(m, to, item))
  <2>1. Cardinality(AcksTo(net', m)) <= Cardinality(AcksTo(sending, m))
    BY <1>1, <1>6, AcksLost
  <2>2. CASE sent = net[n]
    <3>1. sending = net /\ Cardinality(AcksTo(net, m)) \in Nat
      BY <1>1, <1>3, <2>2, AcksFinite
    <3> QED
      BY <2>1, <2>2, <3>1
  <2>3. CASE sent # net[n]
    <3>1. sending = [net EXCEPT ![n][to] = Post(to, @, item)]
      BY <1>3, <2>3
    <3>2. Cardinality(AcksTo(sending, m)) <= Cardinality(AcksTo(net, m)) + AckFor(m, to, item)
      BY <1>1, <2>3, <3>1, AcksSent
    <3>3. /\ Cardinality(AcksTo(net', m)) \in Nat /\ Cardinality(AcksTo(sending, m)) \in Nat
          /\ Cardinality(AcksTo(net, m)) \in Nat /\ AckFor(m, to, item) \in Nat
      BY <1>1, AcksFinite DEF AckFor
    <3> QED
      BY <2>1, <2>3, <3>2, <3>3
  <2> QED
    BY <2>2, <2>3
<1> QED
  BY <1>7, <1>8, <1>9

\* The end of a process that sends nothing more.
LEMMA EndsCollects ==
    ASSUME Collectible, TypeOK', IsFiniteSet(Nodes), NEW n \in Nodes, Ends(n, net[n]),
           UNCHANGED txlog, torn \subseteq torn'
    PROVE  Collectible'
<1>1. TypeOK /\ TypeOK'
  BY DEF Collectible
<1>2. PICK sent : sent = net[n]
  OBVIOUS
<1>3. /\ RealItems /\ RealManagers
      /\ \A m \in Nodes : Cardinality(AcksTo(net', m)) <= Cardinality(AcksTo(net, m)) + 0
  BY <1>1, <1>2, EndsReal
<1>4. \A m \in Nodes : Cardinality(AcksTo(net, m)) \in Nat
  BY <1>1, AcksFinite DEF TypeOK, Networks
<1>5. FewerAcks
  BY <1>3, <1>4 DEF FewerAcks
<1> QED
  BY <1>3, <1>5, QuietBooks

LEMMA DieCollects ==
    ASSUME Collectible, TypeOK', IsFiniteSet(Nodes), NEW n \in Nodes, Die(n)
    PROVE  Collectible'
  BY EndsCollects DEF Die

\* A transaction that is forgotten.
LEMMA ForgetReal ==
    ASSUME TypeOK, NEW n \in Nodes, NEW id \in TxIds, Forget(n, id)
    PROVE  RealManagers
  BY DEF Forget, RealManagers, TypeOK

\* Items that book nothing.
LEMMA ItemCollects ==
    ASSUME Collectible, TypeOK', IsFiniteSet(Nodes), NEW n \in Nodes, NEW p \in Nodes,
           \/ CohorteQuery(n, p)
           \/ CohorteRequery(n, p)
           \/ CohorteUninitialised(n, p)
           \/ CoordinatorVoteYes(n, p)
           \/ AbortPayment(n, p)
           \/ UnknownPhase(n, p)
    PROVE  Collectible'
<1> DEFINE item == Head(net[p][n])
           id == item.tx
           tm == Tm(n, p)
<1>1. TypeOK
  BY DEF Collectible
<1>2. ASSUME NEW phases, Receives(n, p, phases)
      PROVE  /\ net[p][n] # <<>> /\ item \in Range(net[p][n]) /\ item.phase \in phases
             /\ id \in TxIds
             /\ tm.role # "none" => tm.peer \in Nodes
  <2>1. net[p][n] # <<>> /\ net[p][n] \in Seq(Items)
    BY <1>1, <1>2 DEF Receives, TypeOK
  <2>2. item \in Range(net[p][n])
    BY <2>1, TailOfQueue
  <2>3. item \in Items /\ item.phase \in phases /\ tm \in Managers
    BY <1>1, <1>2, ReceiveTypes
  <2>4. tm.role # "none" => tm.peer \in Nodes
    BY <2>3, ManagerTypes
  <2> QED
    BY <2>1, <2>2, <2>3, <2>4 DEF Items
<1>3. CASE CohorteQuery(n, p)
  <2>1. /\ Receives(n, p, {"QUERY"})
        /\ \E phase \in {"VOTE_YES", "VOTE_NO"} :
              ConsumeAndSend(n, p, p, Reply(phase, id))
        /\ \/ currentTX' = [currentTX EXCEPT ![n][id] = Cohorte(p, item.amount)]
           \/ UNCHANGED currentTX
        /\ UNCHANGED <<txlog, torn>>
    BY <1>3 DEF CohorteQuery
  <2>2. /\ net[p][n] # <<>> /\ item \in Range(net[p][n]) /\ item.phase \in {"QUERY"}
        /\ id \in TxIds
    BY <1>2, <2>1
  <2>3. id[1] # n
    BY <2>2 DEF Collectible, PayersOwnIds
  <2>4. RealItems /\ FewerAcks
    <3> HIDE DEF id
    <3> QED
      BY <1>1, <2>1, <2>2, RealTraffic
  <2>5. RealManagers
    <3>1. PICK voted : voted = Cohorte(p, item.amount) /\ OwnRole(n, id, voted)
      <4>1. Cohorte(p, item.amount).role = "cohorte"
        BY DEF Cohorte
      <4> HIDE DEF id, item
      <4> QED
        BY <2>3, <4>1 DEF OwnRole
    <3>2. currentTX \in [Nodes -> [TxIds -> Managers]]
      BY <1>1 DEF TypeOK
    <3>3. \/ currentTX' = [currentTX EXCEPT ![n][id] = voted]
          \/ currentTX' = currentTX
      BY <2>1, <3>1
    <3> HIDE DEF id, item
    <3> QED
      BY <2>2, <3>1, <3>2, <3>3 DEF RealManagers
  <2> QED
    BY <2>1, <2>4, <2>5, QuietBooks
<1>4. CASE CohorteRequery(n, p)
  <2>1. /\ Receives(n, p, {"QUERY"}) /\ tm.role = "cohorte"
        /\ ConsumeAndSend(n, p, tm.peer, Reply("ABORT", id))
        /\ Forget(n, id)
        /\ UNCHANGED <<txlog, torn>>
    BY <1>4 DEF CohorteRequery
  <2>2. net[p][n] # <<>> /\ id \in TxIds /\ tm.peer \in Nodes
    BY <1>2, <2>1
  <2>3. RealManagers
    BY <1>1, <2>1, <2>2, ForgetReal
  <2>4. RealItems /\ FewerAcks
    <3> HIDE DEF id, tm
    <3> QED
      BY <1>1, <2>1, <2>2, RealTraffic
  <2> QED
    BY <2>1, <2>3, <2>4, QuietBooks
<1>5. CASE CohorteUninitialised(n, p) /\ ~Die(n)
  <2>1. /\ Receives(n, p, {"COMMIT", "ABORT"})
        /\ \/ Consume(n, p)
           \/ \E t \in Nodes : ConsumeAndSend(n, p, t, Reply("ABORT", id))
        /\ UNCHANGED <<txlog, torn, currentTX>>
    BY <1>5 DEF CohorteUninitialised
  <2>2. net[p][n] # <<>> /\ id \in TxIds
    BY <1>2, <2>1
  <2>3. RealManagers
    BY <2>1 DEF RealManagers
  <2>4. RealItems /\ FewerAcks
    <3> HIDE DEF id
    <3> QED
      BY <1>1, <2>1, <2>2, RealTraffic
  <2> QED
    BY <2>1, <2>3, <2>4, QuietBooks
<1>6. CASE CoordinatorVoteYes(n, p)
  <2>1. /\ Receives(n, p, {"VOTE_YES"}) /\ tm.role = "coordinator"
        /\ ConsumeAndSend(n, p, tm.peer, Reply("COMMIT", id))
        /\ UNCHANGED <<txlog, torn, currentTX>>
    BY <1>6 DEF CoordinatorVoteYes
  <2>2. net[p][n] # <<>> /\ id \in TxIds /\ tm.peer \in Nodes
    BY <1>2, <2>1
  <2>3. RealManagers
    BY <2>1 DEF RealManagers
  <2>4. RealItems /\ FewerAcks
    <3> HIDE DEF id, tm
    <3> QED
      BY <1>1, <2>1, <2>2, RealTraffic
  <2> QED
    BY <2>1, <2>3, <2>4, QuietBooks
<1>7. CASE AbortPayment(n, p)
  <2>1. /\ Receives(n, p, EndsWithoutCommit(tm.role))
        /\ Consume(n, p) /\ Forget(n, id)
        /\ UNCHANGED <<txlog, torn>>
    BY <1>7 DEF AbortPayment
  <2>2. net[p][n] # <<>> /\ id \in TxIds
    BY <1>2, <2>1
  <2>3. RealManagers
    BY <1>1, <2>1, <2>2, ForgetReal
  <2>4. RealItems /\ FewerAcks
    BY <1>1, <2>1, <2>2, RealTraffic
  <2> QED
    BY <2>1, <2>3, <2>4, QuietBooks
<1>8. CASE Die(n)
  BY <1>8, DieCollects
<1> QED
  BY <1>3, <1>4, <1>5, <1>6, <1>7, <1>8 DEF UnknownPhase

\* The payer's own steps, the janitor, the link and the processes.
LEMMA OtherCollects ==
    ASSUME Collectible, TypeOK', IsFiniteSet(Nodes), NEW n \in Nodes,
           \/ \E p \in Nodes, amount \in Amounts : PayTo(n, p, amount)
           \/ \E id \in TxIds : StartPayment(n, id)
           \/ Timeout(n)
           \/ \E p \in Nodes : DropLink(n, p)
           \/ Crash(n)
           \/ Restart(n)
    PROVE  Collectible'
<1>1. TypeOK
  BY DEF Collectible
<1>2. ASSUME UNCHANGED net PROVE RealItems /\ FewerAcks
  <2>1. \A m \in Nodes : Cardinality(AcksTo(net, m)) \in Nat
    BY <1>1, AcksFinite DEF TypeOK, Networks
  <2> QED
    BY <1>2, <2>1 DEF RealItems, FewerAcks
<1>3. ASSUME NEW p \in Nodes, NEW amount \in Amounts, PayTo(n, p, amount)
      PROVE  Collectible'
  <2>1. /\ currentTX' = [currentTX EXCEPT ![n][MkId(n)] =
                Coordinator(p, amount, MyAvailable(peers[n][p]), FALSE)]
        /\ UNCHANGED <<txlog, torn, net>>
    BY <1>3 DEF PayTo
  <2>2. n # p /\ MkId(n)[1] = n
    BY <1>3 DEF PayTo, MkId
  <2>3. RealManagers
    <3>1. PICK tm : /\ tm = Coordinator(p, amount, MyAvailable(peers[n][p]), FALSE)
                    /\ tm.role = "coordinator" /\ tm.peer = p
      <4>1. \A avail : LET tm == Coordinator(p, amount, avail, FALSE)
                       IN tm.role = "coordinator" /\ tm.peer = p
        BY DEF Coordinator
      <4> QED
        BY <4>1
    <3>2. PICK id : id = MkId(n) /\ id[1] = n
      BY <2>2
    <3>3. currentTX' = [currentTX EXCEPT ![n][id] = tm]
      BY <2>1, <3>1, <3>2
    <3>4. OwnRole(n, id, tm)
      BY <2>2, <3>1, <3>2 DEF OwnRole
    <3>5. currentTX \in [Nodes -> [TxIds -> Managers]]
      BY <1>1 DEF TypeOK
    <3> QED
      BY <3>3, <3>4, <3>5 DEF RealManagers
  <2> QED
    BY <1>2, <2>1, <2>3, QuietBooks
<1>4. ASSUME NEW id \in TxIds, StartPayment(n, id)
      PROVE  Collectible'
  <2> DEFINE tm == currentTX[n][id]
  <2>1. tm.role = "coordinator" /\ UNCHANGED <<txlog, torn>>
    BY <1>4 DEF StartPayment
  <2>2. tm \in Managers /\ tm # NoTM
    BY <1>1, <2>1 DEF TypeOK, NoTM
  <2>3. /\ tm.peer \in Nodes /\ tm.amount \in Int
        /\ id[1] = n /\ tm.peer # n
    BY <2>1, <2>2, ManagerTypes DEF Collectible, PayersOwnIds
  <2>4. CASE tm.avail < tm.amount
    <3>1. Forget(n, id) /\ UNCHANGED net
      BY <1>4, <2>4 DEF StartPayment
    <3> QED
      BY <1>1, <1>2, <2>1, <3>1, ForgetReal, QuietBooks
  <2>5. CASE ~(tm.avail < tm.amount)
    <3>1. /\ currentTX' = [currentTX EXCEPT ![n][id].queried = TRUE]
          /\ net' = [net EXCEPT ![n][tm.peer] =
                        Post(tm.peer, @, Item("QUERY", id, tm.amount))]
      BY <1>4, <2>5 DEF StartPayment
    <3>2. PICK item \in Items : /\ item = Item("QUERY", id, tm.amount)
                                /\ item.phase = "QUERY" /\ item.tx = id
      <4>1. Item("QUERY", id, tm.amount) \in Items
        BY <2>3, ReplyTypes DEF TxPhases
      <4> QED
        BY <4>1 DEF Item
    <3>3. net' = [net EXCEPT ![n][tm.peer] = Post(tm.peer, @, item)]
      BY <3>1, <3>2
    <3>4. OnlyAdds(n, tm.peer, item)
      BY <1>1, <2>3, <3>3, SendEffect
    <3>5. RealItems
      BY <2>3, <3>2, <3>4 DEF RealItems, OnlyAdds
    <3>6. FewerAcks
      <4> SUFFICES ASSUME NEW m \in Nodes
                   PROVE  Cardinality(AcksTo(net', m)) <= Cardinality(AcksTo(net, m))
        BY DEF FewerAcks
      <4>1. net \in Networks /\ net' \in Networks
        BY <1>1 DEF TypeOK, Networks
      <4>2. Cardinality(AcksTo(net', m)) <=
                Cardinality(AcksTo(net, m)) + AckFor(m, tm.peer, item)
        <5> HIDE DEF tm
        <5> QED
          BY <2>3, <3>3, <4>1, AcksSent
      <4>3. AckFor(m, tm.peer, item) = 0
        BY <3>2 DEF AckFor
      <4>4. Cardinality(AcksTo(net, m)) \in Nat
        BY <4>1, AcksFinite
      <4> QED
        BY <4>2, <4>3, <4>4
    <3>7. RealManagers
      <4>1. /\ currentTX'[n][id] = [tm EXCEPT !.queried = TRUE]
            /\ \A m \in Nodes, j \in TxIds :
                  ~(m = n /\ j = id) => currentTX'[m][j] = currentTX[m][j]
        BY <1>1, <3>1 DEF TypeOK
      <4>2. tm \in [role : {"coordinator"}, peer : Nodes, amount : Int,
                    avail : Int, queried : BOOLEAN]
        BY <2>1, <2>2 DEF Managers, NoTM
      <4>3. /\ [tm EXCEPT !.queried = TRUE].role = "coordinator"
            /\ [tm EXCEPT !.queried = TRUE].peer = tm.peer
        BY <4>2
      <4>4. OwnRole(n, id, currentTX'[n][id])
        BY <2>3, <4>1, <4>3 DEF OwnRole
      <4> QED
        BY <4>1, <4>4 DEF RealManagers
    <3> QED
      BY <2>1, <3>5, <3>6, <3>7, QuietBooks
  <2> QED
    BY <2>4, <2>5
<1>5. CASE Timeout(n) /\ ~Die(n)
  <2>1. PICK expired \in SUBSET TxIds :
            /\ currentTX' = [currentTX EXCEPT ![n] =
                  [id \in TxIds |-> IF id \in expired THEN NoTM ELSE @[id]]]
            /\ UNCHANGED <<txlog, torn, net>>
    BY <1>5 DEF Timeout, ManagersOf
  <2>2. RealManagers
    BY <1>1, <2>1 DEF RealManagers, TypeOK
  <2> QED
    BY <1>2, <2>1, <2>2, QuietBooks
<1>6. ASSUME NEW p \in Nodes, DropLink(n, p)
      PROVE  Collectible'
  <2>1. PICK there \in Prefixes(net[n][p]), back \in Prefixes(net[p][n]) :
            net' = [net EXCEPT ![n][p] = there, ![p][n] = back]
    BY <1>6 DEF DropLink
  <2>2. \A f, t \in Nodes : \/ net'[f][t] \in {<<>>, net[f][t]}
                            \/ net'[f][t] \in Prefixes(net[f][t])
    BY <1>1, <2>1, ZenonT(40) DEF TypeOK
  <2>3. RealItems /\ FewerAcks
    BY <1>1, <2>2, RealLoss
  <2>4. UNCHANGED <<txlog, torn, currentTX>>
    BY <1>6 DEF DropLink
  <2>5. RealManagers
    BY <2>4 DEF RealManagers
  <2> QED
    BY <2>3, <2>4, <2>5, QuietBooks
<1>7. CASE Die(n)
  BY <1>7, DieCollects
<1>8. CASE Restart(n)
  <2>1. UNCHANGED <<txlog, torn, currentTX, net>>
    BY <1>8 DEF Restart
  <2>2. RealManagers
    BY <2>1 DEF RealManagers
  <2> QED
    BY <1>2, <2>1, <2>2, QuietBooks
<1> QED
  BY <1>3, <1>4, <1>5, <1>6, <1>7, <1>8 DEF Crash

\* A booking that an acknowledgement pays for.
LEMMA BookedCollects ==
    ASSUME Collectible, TypeOK', IsFiniteSet(Nodes), NEW n \in Nodes,
           NEW row \in LogRows, Booked(n, row), RealItems, RealManagers,
           \A m \in Nodes :
               PaysFor(m, n, row) + Cardinality(AcksTo(net', m))
                   <= Cardinality(AcksTo(net, m)) + CollectsFrom(m, n, row)
    PROVE  Collectible'
<1>1. TypeOK /\ PayersOwnIds'
  BY RealStep DEF Collectible
<1>2. AcksAreCollected'
  <2> SUFFICES ASSUME NEW m \in Nodes, Trusted(m)'
               PROVE  Cardinality(Paid(m)') + Cardinality(AcksTo(net', m))
                          <= Cardinality(Collected(m)')
    BY DEF AcksAreCollected
  <2>1. /\ Cardinality(Paid(m)') = Cardinality(Paid(m)) + PaysFor(m, n, row)
        /\ Cardinality(Collected(m)') = Cardinality(Collected(m)) + CollectsFrom(m, n, row)
    BY <1>1, BookedCounts
  <2>2. Trusted(m)
    BY DEF Booked, Trusted
  <2>3. Cardinality(Paid(m)) + Cardinality(AcksTo(net, m)) <= Cardinality(Collected(m))
    BY <2>2 DEF Collectible, AcksAreCollected
  <2>4. net \in Networks /\ net' \in Networks /\ txlog \in Logs
    BY <1>1 DEF TypeOK, Networks, Logs
  <2>5. Paid(m) = Debits(m, txlog[m]) /\ Collected(m) = CollectedIn(txlog, m)
    BY DEF Paid, Debits, Collected, CollectedIn, Credits
  <2>6. /\ Cardinality(Paid(m)) \in Nat /\ Cardinality(Collected(m)) \in Nat
        /\ Cardinality(AcksTo(net, m)) \in Nat /\ Cardinality(AcksTo(net', m)) \in Nat
    BY <2>4, <2>5, AcksFinite, PaymentsFinite
  <2>7. PaysFor(m, n, row) \in Nat /\ CollectsFrom(m, n, row) \in Nat
    BY DEF PaysFor, CollectsFrom
  <2>8. PaysFor(m, n, row) + Cardinality(AcksTo(net', m))
            <= Cardinality(AcksTo(net, m)) + CollectsFrom(m, n, row)
    OBVIOUS
  <2> QED
    BY <2>1, <2>3, <2>6, <2>7, <2>8
<1> QED
  BY <1>1, <1>2 DEF Collectible

\* The payee acknowledges and books; the friend it acknowledges to no longer
\* trusts it if it misses a write.
LEMMA CommitCollects ==
    ASSUME Collectible, TypeOK', IsFiniteSet(Nodes),
           NEW n \in Nodes, NEW p \in Nodes, CohorteCommit(n, p) \/ CohorteTorn(n, p)
    PROVE  Collectible'
<1>1. TypeOK
  BY DEF Collectible
<1>2. PICK done \in 0..2, to \in Nodes, id \in TxIds, amount \in Int :
          /\ id = Head(net[p][n]).tx /\ to = Tm(n, p).peer
          /\ CommitReceiver(done, n, to, id, amount)
          /\ CohorteTorn(n, p) => done # 2
  BY <1>1, CohorteBooks
<1>3. Receives(n, p, {"COMMIT"}) /\ Tm(n, p).role = "cohorte"
  BY DEF CohorteCommit, CohorteTorn
<1>4. /\ net[p][n] # <<>> /\ id[1] # n
  <2>1. net[p][n] # <<>>
    BY <1>3 DEF Receives
  <2>2. currentTX[n][id].role = "cohorte"
    BY <1>2, <1>3 DEF Tm
  <2> QED
    BY <2>1, <2>2 DEF Collectible, PayersOwnIds
<1>5. PICK item \in Items :
          item = Reply("ACK_COMMIT", id) /\ item.phase = "ACK_COMMIT"
  <2>1. Reply("ACK_COMMIT", id) \in Items
    BY ReplyTypes DEF TxPhases
  <2> QED
    BY <2>1 DEF Reply, Item
<1>6. net \in Networks /\ net' \in Networks
  BY <1>1 DEF TypeOK, Networks
<1>7. /\ RealItems /\ RealManagers
      /\ \A m \in Nodes :
            Cardinality(AcksTo(net', m)) <= Cardinality(AcksTo(net, m)) + AckFor(m, to, item)
  <2>1. CASE CohorteCommit(n, p)
    <3>1. ConsumeAndSend(n, p, to, item) /\ Forget(n, id)
      BY <1>2, <1>5, <2>1 DEF CohorteCommit
    <3>2. RealItems
      BY <1>1, <1>4, <1>5, <3>1, RealTraffic
    <3> QED
      BY <1>1, <1>4, <3>1, <3>2, ForgetReal, Traffic
  <2>2. CASE CohorteTorn(n, p)
    <3>1. Ends(n, [net[n] EXCEPT ![to] = Post(to, @, item)])
      BY <1>2, <1>5, <2>2 DEF CohorteTorn
    <3>2. PICK sent : sent = [net[n] EXCEPT ![to] = Post(to, @, item)]
      OBVIOUS
    <3>3. Ends(n, sent)
      BY <3>1, <3>2
    <3>4. /\ RealItems /\ RealManagers
          /\ \A m \in Nodes : Cardinality(AcksTo(net', m)) <= Cardinality(AcksTo(net, m))
                 + (IF sent = net[n] THEN 0 ELSE AckFor(m, to, item))
      BY <1>1, <1>5, <3>2, <3>3, EndsReal
    <3> SUFFICES ASSUME NEW m \in Nodes
                 PROVE  Cardinality(AcksTo(net', m))
                            <= Cardinality(AcksTo(net, m)) + AckFor(m, to, item)
      BY <3>4
    <3>5. /\ Cardinality(AcksTo(net, m)) \in Nat /\ Cardinality(AcksTo(net', m)) \in Nat
          /\ AckFor(m, to, item) \in Nat
      BY <1>6, AcksFinite DEF AckFor
    <3> QED
      BY <3>4, <3>5
  <2> QED
    BY <2>1, <2>2
<1>8. ASSUME NEW m \in Nodes
      PROVE  Cardinality(AcksTo(net, m)) \in Nat /\ Cardinality(AcksTo(net', m)) \in Nat
  BY <1>6, AcksFinite
<1>9. CASE done # 2
  <2>1. HalfBooked(n, to)
    BY <1>1, <1>2, <1>9, CommitsAreBooked
  <2>2. FewerAcks
    <3> SUFFICES ASSUME NEW m \in Nodes, Trusted(m)'
                 PROVE  Cardinality(AcksTo(net', m)) <= Cardinality(AcksTo(net, m))
      BY DEF FewerAcks
    <3>1. m # to
      BY <2>1 DEF HalfBooked, Trusted
    <3>2. AckFor(m, to, item) = 0
      BY <3>1 DEF AckFor
    <3> QED
      BY <1>7, <1>8, <3>2
  <2>3. txlog' = txlog /\ torn \subseteq torn'
    BY <2>1 DEF HalfBooked
  <2> QED
    BY <1>7, <2>2, <2>3, QuietBooks
<1>10. CASE done = 2
  <2>1. PICK row \in LogRows :
            row = LogRow(to, id, amount) /\ row.peer = to /\ row.tx = id
    <3>1. LogRow(to, id, amount) \in LogRows
      BY ReplyTypes
    <3> QED
      BY <3>1 DEF LogRow
  <2>2. Booked(n, row)
    BY <1>1, <1>2, <1>10, <2>1, CommitsAreBooked
  <2>3. ASSUME NEW m \in Nodes
        PROVE  PaysFor(m, n, row) + Cardinality(AcksTo(net', m))
                   <= Cardinality(AcksTo(net, m)) + CollectsFrom(m, n, row)
    <3>1. PaysFor(m, n, row) = 0 /\ CollectsFrom(m, n, row) = AckFor(m, to, item)
      BY <1>4, <1>5, <2>1 DEF PaysFor, CollectsFrom, AckFor
    <3> QED
      BY <1>7, <1>8, <3>1
  <2> QED
    BY <1>7, <2>2, <2>3, BookedCollects
<1> QED
  BY <1>9, <1>10

\* The payer takes an acknowledgement for what it books.
LEMMA AckCollects ==
    ASSUME Collectible, TypeOK', IsFiniteSet(Nodes),
           NEW n \in Nodes, NEW p \in Nodes, CoordinatorAck(n, p)
    PROVE  Collectible'
<1>1. TypeOK
  BY DEF Collectible
<1>2. PICK done \in 0..2, to \in Nodes, id \in TxIds, amount \in Int :
          /\ id = Head(net[p][n]).tx /\ to = Tm(n, p).peer
          /\ CommitSpender(done, n, to, id, amount)
  BY <1>1, CoordinatorBooks
<1>3. /\ Receives(n, p, {"ACK_COMMIT"}) /\ Tm(n, p).role = "coordinator"
      /\ Consume(n, p) /\ Forget(n, id)
  BY <1>2 DEF CoordinatorAck
<1>4. /\ net[p][n] # <<>> /\ id[1] = n /\ Head(net[p][n]).phase = "ACK_COMMIT"
  BY <1>2, <1>3 DEF Receives, Tm, Collectible, PayersOwnIds
<1>5. RealManagers /\ RealItems /\ FewerAcks
  BY <1>1, <1>3, <1>4, ForgetReal, RealTraffic
<1>6. CASE done # 2
  <2>1. HalfBooked(n, to)
    BY <1>1, <1>2, <1>6, CommitsAreBooked
  <2>2. txlog' = txlog /\ torn \subseteq torn'
    BY <2>1 DEF HalfBooked
  <2> QED
    BY <1>5, <2>2, QuietBooks
<1>7. CASE done = 2
  <2>1. PICK row \in LogRows : row = LogRow(to, id, -amount) /\ row.tx = id
    <3>1. -amount \in Int
      OBVIOUS
    <3>2. LogRow(to, id, -amount) \in LogRows
      BY <3>1, ReplyTypes
    <3> QED
      BY <3>2 DEF LogRow
  <2>2. Booked(n, row)
    BY <1>1, <1>2, <1>7, <2>1, CommitsAreBooked
  <2>3. ASSUME NEW m \in Nodes
        PROVE  PaysFor(m, n, row) + Cardinality(AcksTo(net', m))
                   <= Cardinality(AcksTo(net, m)) + CollectsFrom(m, n, row)
    <3>1. /\ Cardinality(AcksTo(net', m)) <= Cardinality(AcksTo(net, m))
          /\ m = n => Cardinality(AcksTo(net', m)) + 1 <= Cardinality(AcksTo(net, m))
      BY <1>1, <1>3, <1>4, Traffic
    <3>2. /\ PaysFor(m, n, row) = IF m = n THEN 1 ELSE 0
          /\ CollectsFrom(m, n, row) = 0
      BY <1>4, <2>1 DEF PaysFor, CollectsFrom
    <3>3. net \in Networks /\ net' \in Networks
      BY <1>1 DEF TypeOK, Networks
    <3>4. Cardinality(AcksTo(net', m)) \in Nat /\ Cardinality(AcksTo(net, m)) \in Nat
      BY <3>3, AcksFinite
    <3> QED
      BY <3>1, <3>2, <3>4
  <2> QED
    BY <1>5, <2>2, <2>3, BookedCollects
<1> QED
  BY <1>6, <1>7

\* It ends between the writes of its commit.
LEMMA TornAckCollects ==
    ASSUME Collectible, TypeOK', IsFiniteSet(Nodes),
           NEW n \in Nodes, NEW p \in Nodes, CoordinatorTorn(n, p)
    PROVE  Collectible'
<1>1. TypeOK
  BY DEF Collectible
<1>2. PICK done \in 0..2, to \in Nodes, id \in TxIds, amount \in Int :
          CommitSpender(done, n, to, id, amount) /\ done # 2
  BY <1>1, CoordinatorBooks
<1>3. HalfBooked(n, to)
  BY <1>1, <1>2, CommitsAreBooked
<1>4. txlog' = txlog /\ torn \subseteq torn'
  BY <1>3 DEF HalfBooked
<1>5. Ends(n, net[n])
  BY DEF CoordinatorTorn
<1> QED
  BY <1>4, <1>5, EndsCollects

\* In the beginning nothing is paid, collected or under way.
LEMMA InitCollectible ==
    ASSUME IsFiniteSet(Nodes)
    PROVE  Init => Collectible
<1> SUFFICES ASSUME Init PROVE Collectible
  OBVIOUS
<1>1. TypeOK
  BY InitTypeOK
<1>2. PayersOwnIds
  BY DEF Init, PayersOwnIds, Range, NoTM
<1>3. ASSUME NEW n \in Nodes
      PROVE  Cardinality(Paid(n)) + Cardinality(AcksTo(net, n)) <= Cardinality(Collected(n))
  <2>1. net \in Networks /\ txlog \in Logs
    BY <1>1 DEF TypeOK, Networks, Logs
  <2>2. Paid(n) = {} /\ Collected(n) = CollectedIn(txlog, n)
    BY DEF Init, Paid, Collected, CollectedIn, Credits
  <2>3. AcksTo(net, n) = {}
    <3>1. AcksTo(net, n) = {e \in Nodes \X Nat : e[2] \in AcksIn(net[e[1]][n])}
      BY <2>1, AcksFinite
    <3>2. \A f \in Nodes : AcksIn(net[f][n]) = {}
      BY DEF Init, AcksIn
    <3> QED
      BY <3>1, <3>2
  <2>4. Cardinality(Collected(n)) \in Nat
    BY <2>1, <2>2, PaymentsFinite
  <2> QED
    BY <2>2, <2>3, <2>4, FS_EmptySet
<1> QED
  BY <1>1, <1>2, <1>3 DEF Collectible, AcksAreCollected

\* Debits and the acknowledgements under way are together no more than what
\* friends collected, though after a restart nobody knows whose they are: this
\* holds of whoever has no friend whose commit with it missed a write.
THEOREM CollectibleInvariant ==
    ASSUME IsFiniteSet(Nodes)
    PROVE  Spec => []Collectible
<1>1. Init => Collectible
  BY InitCollectible
<1>2. Collectible /\ [Next]_vars => Collectible'
  <2> SUFFICES ASSUME Collectible, [Next]_vars PROVE Collectible'
    OBVIOUS
  <2>1. TypeOK'
    BY NextTypeOK DEF Collectible
  <2>2. ASSUME NEW n \in Nodes, NEW p \in Nodes, HandleTxItem(n, p)
        PROVE  Collectible'
    BY <2>1, <2>2, ItemCollects, CommitCollects, AckCollects DEF HandleTxItem
  <2>4. ASSUME NEW n \in Nodes, NEW p \in Nodes, CohorteTorn(n, p) \/ CoordinatorTorn(n, p)
        PROVE  Collectible'
    BY <2>1, <2>4, CommitCollects, TornAckCollects
  <2>3. CASE UNCHANGED vars
    <3>1. \A n \in Nodes : Paid(n)' = Paid(n) /\ Collected(n)' = Collected(n)
      BY <2>3 DEF vars, Paid, Collected
    <3> QED
      BY <2>1, <2>3, <3>1 DEF vars, Collectible, PayersOwnIds, AcksAreCollected,
                              Trusted
  <2> QED
    BY <2>1, <2>2, <2>3, <2>4, OtherCollects DEF Next
<1> QED
  BY <1>1, <1>2, PTL DEF Spec

\* Whatever is lost, times out or dies, and however often a node is started
\* again with ids it used before: nobody books more payments than its friends
\* booked as collected from it, unless the commit of one of them failed or
\* died after the acknowledgement.
THEOREM NoPhantoms ==
    ASSUME IsFiniteSet(Nodes)
    PROVE  Spec => []NoPhantomPayments
<1>1. Collectible => NoPhantomPayments
  <2> SUFFICES ASSUME Collectible, NEW n \in Nodes, Trusted(n)
               PROVE  Cardinality(Paid(n)) <= Cardinality(Collected(n))
    BY DEF NoPhantomPayments
  <2>1. net \in Networks /\ txlog \in Logs
    BY DEF Collectible, TypeOK, Networks, Logs
  <2>2. Paid(n) = Debits(n, txlog[n]) /\ Collected(n) = CollectedIn(txlog, n)
    BY DEF Paid, Debits, Collected, CollectedIn, Credits
  <2>3. /\ Cardinality(Paid(n)) \in Nat /\ Cardinality(Collected(n)) \in Nat
        /\ Cardinality(AcksTo(net, n)) \in Nat
    BY <2>1, <2>2, AcksFinite, PaymentsFinite
  <2>4. Cardinality(Paid(n)) + Cardinality(AcksTo(net, n)) <= Cardinality(Collected(n))
    BY DEF Collectible, AcksAreCollected
  <2> QED
    BY <2>3, <2>4
<1> QED
  BY <1>1, CollectibleInvariant, PTL
=============================================================================
