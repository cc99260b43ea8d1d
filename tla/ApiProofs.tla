----------------------------- MODULE ApiProofs -----------------------------
(***************************************************************************)
(* TLAPS proofs about the API server: batch results in the order of the    *)
(* items, and subscribers that see the published stream in order with      *)
(* every gap accounted for - for any ring, channel and batch size, any     *)
(* number of snapshots and any number of faults.                           *)
(***************************************************************************)
EXTENDS Api, SequenceTheorems, TLAPS

USE ApiAssumption

-----------------------------------------------------------------------------
(* Batch requests.                                                         *)

BarRow == [coins : Nat, usd : Nat]
Outcome == [ok : {TRUE}, rows : Answers] \union [ok : {FALSE}, rows : {<<>>}]

\* What the client makes of an entry, case by case.
LEMMA DecodeCases ==
    ASSUME NEW e
    PROVE  /\ e.error = TRUE => Decoded(e) = {}
           /\ e.error = FALSE /\ e.payload.fmt = "row" => Decoded(e) = {e.payload.bars}
BY DEF Decoded

\* A column left out reads as zeros, one that is there row by row.
At(col, k) == IF col = {} THEN 0 ELSE (CHOOSE c \in col : TRUE)[k]

LEMMA DecodeColumns ==
    ASSUME NEW e, e.error = FALSE, e.payload.fmt = "col"
    PROVE  Decoded(e) = {[k \in 1..e.payload.n |-> Bar(At(e.payload.coins, k), At(e.payload.usd, k))]}
BY DEF Decoded, At

\* The columnar encoding loses nothing.
LEMMA ColumnsDecode ==
    ASSUME NEW rows \in Seq(BarRow), NEW e, e.error = FALSE, e.payload = FromSnapshots(rows)
    PROVE  Decoded(e) = {rows}
<1> DEFINE n == Len(rows)
<1>1. /\ e.payload.fmt = "col" /\ e.payload.n = n
      /\ e.payload.coins = Optional(rows, "coins") /\ e.payload.usd = Optional(rows, "usd")
  BY DEF FromSnapshots
<1>2. n \in Nat /\ (\A k \in 1..n : rows[k] \in BarRow) /\ rows = [k \in 1..n |-> rows[k]]
  OBVIOUS
<1>3. ASSUME NEW field \in {"coins", "usd"}, NEW k \in 1..n
      PROVE  At(Optional(rows, field), k) = rows[k][field]
  <2> DEFINE col == [j \in 1..n |-> rows[j][field]]
  <2>1. CASE \E j \in 1..n : rows[j][field] # 0
    <3>1. Optional(rows, field) = {col}
      BY <2>1 DEF Optional
    <3> HIDE DEF col
    <3>2. (CHOOSE c \in {col} : TRUE) = col
      OBVIOUS
    <3>3. At({col}, k) = col[k]
      BY <3>2 DEF At
    <3> QED
      BY <3>1, <3>3 DEF col
  <2>2. CASE ~\E j \in 1..n : rows[j][field] # 0
    <3>1. Optional(rows, field) = {}
      BY <2>2 DEF Optional
    <3> QED
      BY <2>2, <3>1 DEF At
  <2> QED
    BY <2>1, <2>2
<1>4. \A k \in 1..n : Bar(At(e.payload.coins, k), At(e.payload.usd, k)) = rows[k]
  BY <1>1, <1>2, <1>3 DEF Bar, BarRow
<1>5. Decoded(e) = {[k \in 1..n |-> Bar(At(e.payload.coins, k), At(e.payload.usd, k))]}
  BY <1>1, DecodeColumns
<1>6. [k \in 1..n |-> Bar(At(e.payload.coins, k), At(e.payload.usd, k))] = [k \in 1..n |-> rows[k]]
  BY <1>4
<1> QED
  BY <1>2, <1>5, <1>6

\* The client decodes the entry of an item, in either format, to the rows of
\* the item's query, and an error to nothing.
LEMMA EntryDecodes ==
    ASSUME NEW fmt \in {"row", "col"}, NEW out \in Outcome
    PROVE  Decoded(Entry(fmt, out)) = IF out.ok THEN {out.rows} ELSE {}
<1> DEFINE e == Entry(fmt, out)
<1>1. out.ok \in BOOLEAN
  BY Zenon DEF Outcome
<1>2. CASE out.ok = TRUE
  <2>1. e.error = FALSE /\ e.payload = Finalize(fmt, out.rows)
    BY <1>2 DEF Entry
  <2>2. out.rows \in Seq(BarRow)
    <3>1. out.rows \in Answers
      BY DEF Outcome, Answers
    <3>2. \A a, b \in Nat : Bar(a, b) \in BarRow
      BY DEF Bar, BarRow
    <3>3. \A x, y \in BarRow : <<>> \in Seq(BarRow) /\ <<x>> \in Seq(BarRow)
                               /\ <<x, y>> \in Seq(BarRow)
      OBVIOUS
    <3>4. Bar(0, 7) \in BarRow /\ Bar(0, 0) \in BarRow /\ Bar(3, 0) \in BarRow
      BY <3>2
    <3> QED
      BY <3>1, <3>3, <3>4 DEF Answers
  <2> HIDE DEF e
  <2>3. CASE fmt = "row"
    <3>1. e.payload.fmt = "row" /\ e.payload.bars = out.rows
      BY <2>1, <2>3 DEF Finalize, RowPayload
    <3>2. Decoded(e) = {out.rows}
      BY <2>1, <3>1, DecodeCases
    <3> QED
      BY <1>2, <3>2 DEF e
  <2>4. CASE fmt = "col"
    BY <1>2, <2>1, <2>2, <2>4, ColumnsDecode DEF Finalize, e
  <2> QED
    BY <2>3, <2>4
<1>3. CASE out.ok = FALSE
  <2>1. e.error = TRUE
    BY <1>3 DEF Entry
  <2> QED
    BY <1>3, <2>1, DecodeCases
<1> QED
  BY <1>1, <1>2, <1>3

\* The shape of the request in work.
BatchShape ==
    /\ batch = [state |-> batch.state, fmt |-> batch.fmt, total |-> batch.total,
                next |-> batch.next, inflight |-> batch.inflight,
                results |-> batch.results, outcome |-> batch.outcome]
    /\ batch.state \in {"none", "refused", "run", "answered"}
    /\ batch.fmt \in {"row", "col"}
    /\ batch.total \in Nat /\ batch.next \in 1..batch.total + 1
    /\ batch.inflight \subseteq 1..batch.next - 1
    /\ batch.results = [k \in 1..batch.total |-> batch.results[k]]
    /\ batch.outcome = [k \in 1..batch.total |-> batch.outcome[k]]

\* Every query started is in flight or has filled the slot of its item with the
\* entry of its own outcome.
SlotsFilled ==
    \A k \in (1..batch.next - 1) \ batch.inflight :
        \E out \in Outcome : /\ batch.results[k] = {Entry(batch.fmt, out)}
                             /\ batch.outcome[k] = {out}

\* As long as an item is not started a query is in flight, so an idle handler
\* has started them all.
BatchInv ==
    /\ BatchShape /\ SlotsFilled
    /\ batch.state \in {"none", "refused"} => batch.inflight = {}
    /\ batch.state = "run" /\ batch.next <= batch.total => batch.inflight # {}
    /\ batch.state = "answered" => batch.inflight = {} /\ batch.next = batch.total + 1

\* The smaller of two numbers.
LEMMA MinOfTwo ==
    ASSUME NEW a \in Nat, NEW b \in Nat
    PROVE  Min({a, b}) \in {a, b} /\ Min({a, b}) <= a /\ Min({a, b}) <= b
<1>1. \E x \in {a, b} : \A y \in {a, b} : x <= y
  <2>1. CASE a <= b
    BY <2>1
  <2>2. CASE b <= a
    BY <2>2
  <2> QED
    BY <2>1, <2>2
<1>2. Min({a, b}) \in {a, b} /\ \A y \in {a, b} : Min({a, b}) <= y
  BY <1>1 DEF Min
<1> QED
  BY <1>2

\* A finished query fills its own slot, and the next item is started.
LEMMA ItemDoneStep ==
    ASSUME BatchInv, NEW k, BatchItemDone(k)
    PROVE  BatchInv'
<1>1. PICK out \in Outcome :
        batch' = Refill([batch EXCEPT !.inflight = @ \ {k},
                                      !.results[k] = {Entry(batch.fmt, out)},
                                      !.outcome[k] = {out}])
  BY DEF BatchItemDone, Outcome
<1> DEFINE b == [batch EXCEPT !.inflight = @ \ {k},
                              !.results[k] = {Entry(batch.fmt, out)},
                              !.outcome[k] = {out}]
<1>2. k \in batch.inflight /\ k \in 1..batch.total /\ batch.state \in {"run"}
  BY DEF BatchItemDone, BatchInv, BatchShape
<1>3. /\ b.state = "run" /\ b.fmt = batch.fmt /\ b.total = batch.total /\ b.next = batch.next
      /\ b.inflight = batch.inflight \ {k}
      /\ b.results = [batch.results EXCEPT ![k] = {Entry(batch.fmt, out)}]
      /\ b.outcome = [batch.outcome EXCEPT ![k] = {out}]
      /\ b = [state |-> b.state, fmt |-> b.fmt, total |-> b.total, next |-> b.next,
              inflight |-> b.inflight, results |-> b.results, outcome |-> b.outcome]
  <2>1. batch = [state |-> batch.state, fmt |-> batch.fmt, total |-> batch.total,
                 next |-> batch.next, inflight |-> batch.inflight,
                 results |-> batch.results, outcome |-> batch.outcome]
    BY DEF BatchInv, BatchShape
  <2>2. b = [state |-> batch.state, fmt |-> batch.fmt, total |-> batch.total,
             next |-> batch.next, inflight |-> batch.inflight \ {k},
             results |-> [batch.results EXCEPT ![k] = {Entry(batch.fmt, out)}],
             outcome |-> [batch.outcome EXCEPT ![k] = {out}]]
    <3> DEFINE r == [batch.results EXCEPT ![k] = {Entry(batch.fmt, out)}]
               o == [batch.outcome EXCEPT ![k] = {out}]
               i == batch.inflight \ {k}
    <3>1. b = [batch EXCEPT !.inflight = i, !.results = r, !.outcome = o]
      OBVIOUS
    <3> HIDE DEF r, o, i
    <3>2. [batch EXCEPT !.inflight = i, !.results = r, !.outcome = o] =
            [state |-> batch.state, fmt |-> batch.fmt, total |-> batch.total,
             next |-> batch.next, inflight |-> i, results |-> r, outcome |-> o]
      <4> DEFINE F == {"state", "fmt", "total", "next", "inflight", "results", "outcome"}
      <4>1. DOMAIN batch = F
        BY <2>1
      <4>2. [batch EXCEPT !.inflight = i, !.results = r, !.outcome = o] =
              [x \in F |-> CASE x = "inflight" -> i [] x = "results" -> r
                             [] x = "outcome" -> o [] OTHER -> batch[x]]
        BY <4>1
      <4> QED
        BY <4>2
    <3> QED
      BY <3>1, <3>2 DEF r, o, i
  <2> HIDE DEF b
  <2> QED
    BY <1>2, <2>2
<1> HIDE DEF b
<1>4. batch' = Refill(b)
  BY <1>1 DEF b
<1>5. /\ batch.total \in Nat /\ batch.next \in 1..batch.total + 1
      /\ batch.inflight \subseteq 1..batch.next - 1 /\ batch.fmt \in {"row", "col"}
  BY DEF BatchInv, BatchShape
<1>6. /\ b.results = [j \in 1..b.total |-> b.results[j]]
      /\ b.outcome = [j \in 1..b.total |-> b.outcome[j]]
      /\ b.results[k] = {Entry(b.fmt, out)} /\ b.outcome[k] = {out}
      /\ \A j \in 1..b.total : j # k => b.results[j] = batch.results[j]
                                        /\ b.outcome[j] = batch.outcome[j]
  BY <1>2, <1>3 DEF BatchInv, BatchShape
<1>7. \A j \in (1..b.next - 1) \ b.inflight :
        \E o \in Outcome : b.results[j] = {Entry(b.fmt, o)} /\ b.outcome[j] = {o}
  <2> SUFFICES ASSUME NEW j \in (1..b.next - 1) \ b.inflight
               PROVE  \E o \in Outcome : b.results[j] = {Entry(b.fmt, o)} /\ b.outcome[j] = {o}
    OBVIOUS
  <2>1. CASE j = k
    BY <1>6, <2>1
  <2>2. CASE j # k
    <3>1. j \in (1..batch.next - 1) \ batch.inflight /\ j \in 1..b.total
      BY <1>3, <1>5, <2>2
    <3>2. PICK o \in Outcome : batch.results[j] = {Entry(batch.fmt, o)} /\ batch.outcome[j] = {o}
      BY <3>1 DEF BatchInv, SlotsFilled
    <3> QED
      BY <1>3, <1>6, <2>2, <3>1, <3>2
  <2> QED
    BY <2>1, <2>2
<1>8. CASE b.next <= b.total
  <2>1. /\ batch'.state = "run" /\ batch'.fmt = b.fmt /\ batch'.total = b.total
        /\ batch'.next = b.next + 1 /\ batch'.inflight = b.inflight \union {b.next}
        /\ batch'.results = b.results /\ batch'.outcome = b.outcome
        /\ batch' = [state |-> batch'.state, fmt |-> batch'.fmt, total |-> batch'.total,
                     next |-> batch'.next, inflight |-> batch'.inflight,
                     results |-> batch'.results, outcome |-> batch'.outcome]
    BY <1>3, <1>4, <1>8 DEF Refill
  <2>2. BatchShape'
    <3>1. b.fmt \in {"row", "col"} /\ b.total \in Nat /\ b.next \in 1..b.total
      BY <1>3, <1>5, <1>8
    <3>2. batch'.next \in 1..batch'.total + 1
      BY <2>1, <3>1
    <3>3. batch'.inflight \subseteq 1..batch'.next - 1
      <4>1. b.inflight \subseteq 1..b.next - 1
        BY <1>3, <1>5
      <4> QED
        BY <2>1, <3>1, <4>1
    <3>4. /\ batch'.results = [j \in 1..batch'.total |-> batch'.results[j]]
          /\ batch'.outcome = [j \in 1..batch'.total |-> batch'.outcome[j]]
      BY <1>6, <2>1, Zenon
    <3> QED
      BY <2>1, <3>1, <3>2, <3>3, <3>4, Zenon DEF BatchShape
  <2>3. (1..batch'.next - 1) \ batch'.inflight = (1..b.next - 1) \ b.inflight
    BY <1>3, <1>5, <2>1
  <2>4. SlotsFilled'
    BY <1>7, <2>1, <2>3 DEF SlotsFilled
  <2> QED
    BY <2>1, <2>2, <2>4 DEF BatchInv
<1>9. CASE ~(b.next <= b.total)
  <2>1. batch' = b
    BY <1>4, <1>9 DEF Refill
  <2>2. BatchShape'
    <3>1. /\ b.fmt \in {"row", "col"} /\ b.total \in Nat /\ b.next \in 1..b.total + 1
          /\ b.inflight \subseteq 1..b.next - 1
      BY <1>3, <1>5
    <3>2. b.state \in {"none", "refused", "run", "answered"}
      BY <1>3
    <3> QED
      BY <1>3, <1>6, <2>1, <3>1, <3>2, Zenon DEF BatchShape
  <2>3. SlotsFilled'
    BY <1>7, <2>1 DEF SlotsFilled
  <2> QED
    BY <1>3, <1>9, <2>1, <2>2, <2>3 DEF BatchInv
<1> QED
  BY <1>8, <1>9

\* A batch starts with as many queries as may run at once.
LEMMA BatchPostStep ==
    ASSUME BatchInv, NEW token, NEW formats, formats \subseteq {"row", "col"},
           BatchPost(token, formats)
    PROVE  BatchInv'
<1>1. PICK total \in 0..BatchMaxItems + 1, fmt \in formats :
        \E items \in [1..total -> {"good", "bad"}] :
          LET asked == [NoBatch EXCEPT !.fmt = fmt, !.total = total,
                                       !.results = [k \in 1..total |-> {}],
                                       !.outcome = [k \in 1..total |-> {}]]
              primed == Min({total, BatchConcurrency})
          IN  batch' = IF ParseBatch(items)
                       THEN [asked EXCEPT !.state = "run", !.next = primed + 1,
                                          !.inflight = 1..primed]
                       ELSE [asked EXCEPT !.state = "refused"]
  BY DEF BatchPost
<1> DEFINE primed == Min({total, BatchConcurrency})
           slots == [k \in 1..total |-> {}]
<1>2. PICK items \in [1..total -> {"good", "bad"}] :
        batch' = IF ParseBatch(items)
                 THEN [state |-> "run", fmt |-> fmt, total |-> total, next |-> primed + 1,
                       inflight |-> 1..primed, results |-> slots, outcome |-> slots]
                 ELSE [state |-> "refused", fmt |-> fmt, total |-> total, next |-> 1,
                       inflight |-> {}, results |-> slots, outcome |-> slots]
  BY <1>1 DEF NoBatch
<1>3. total \in Nat /\ fmt \in {"row", "col"} /\ slots = [k \in 1..total |-> slots[k]]
  OBVIOUS
<1>4. CASE ~ParseBatch(items)
  <2> HIDE DEF slots
  <2>1. batch' = [state |-> "refused", fmt |-> fmt, total |-> total, next |-> 1,
                  inflight |-> {}, results |-> slots, outcome |-> slots]
    BY <1>2, <1>4
  <2>2. BatchShape'
    BY <1>3, <2>1 DEF BatchShape
  <2>3. SlotsFilled'
    BY <2>1 DEF SlotsFilled
  <2> QED
    BY <2>1, <2>2, <2>3 DEF BatchInv
<1>5. CASE ParseBatch(items)
  <2>1. total >= 1
    <3>1. Len(items) = total
      BY <1>3
    <3> QED
      BY <1>5, <3>1 DEF ParseBatch
  <2>2. primed \in 1..total
    BY <1>3, <2>1, MinOfTwo
  <2> HIDE DEF primed, slots
  <2>3. batch' = [state |-> "run", fmt |-> fmt, total |-> total, next |-> primed + 1,
                  inflight |-> 1..primed, results |-> slots, outcome |-> slots]
    BY <1>2, <1>5
  <2>4. BatchShape'
    BY <1>3, <2>2, <2>3 DEF BatchShape
  <2>5. (1..batch'.next - 1) \ batch'.inflight = {} /\ batch'.inflight # {}
    BY <1>3, <2>2, <2>3
  <2>6. SlotsFilled'
    BY <2>5 DEF SlotsFilled
  <2> QED
    BY <2>3, <2>4, <2>5, <2>6 DEF BatchInv
<1> QED
  BY <1>4, <1>5

\* Every step keeps the slots in the order of the items.
LEMMA BatchStep == ASSUME BatchInv, [Next]_vars PROVE BatchInv'
<1>1. ASSUME NEW token \in Token,
             RangeBatch(token) \/ FundingRangeBatch(token) \/ FundingEventRangeBatch(token)
      PROVE  BatchInv'
  BY <1>1, BatchPostStep DEF RangeBatch, FundingRangeBatch, FundingEventRangeBatch
<1>2. CASE BatchAnswers
  <2>1. /\ batch'.state = "answered" /\ batch.inflight = {} /\ batch.state = "run"
        /\ batch' = [batch EXCEPT !.state = "answered"]
    BY <1>2 DEF BatchAnswers, BatchInv, BatchShape
  <2>2. /\ batch'.fmt = batch.fmt /\ batch'.total = batch.total /\ batch'.next = batch.next
        /\ batch'.inflight = batch.inflight /\ batch'.results = batch.results
        /\ batch'.outcome = batch.outcome
        /\ batch' = [state |-> batch'.state, fmt |-> batch'.fmt, total |-> batch'.total,
                     next |-> batch'.next, inflight |-> batch'.inflight,
                     results |-> batch'.results, outcome |-> batch'.outcome]
    BY <2>1 DEF BatchInv, BatchShape
  <2>3. BatchShape' /\ SlotsFilled'
    <3>1. BatchShape'
      BY <2>1, <2>2 DEF BatchInv, BatchShape
    <3> QED
      BY <2>2, <3>1 DEF BatchInv, SlotsFilled
  <2>4. batch.next = batch.total + 1
    BY <2>1 DEF BatchInv, BatchShape
  <2> QED
    BY <2>1, <2>2, <2>3, <2>4 DEF BatchInv
<1>3. ASSUME NEW k \in 1..BatchMaxItems, BatchItemDone(k) PROVE BatchInv'
  BY <1>3, ItemDoneStep
<1>4. ASSUME UNCHANGED batch PROVE BatchInv'
  BY <1>4 DEF BatchInv, BatchShape, SlotsFilled
<1>5. ASSUME \/ \E i \in Inst : Publish(i)
             \/ Broadcaster \/ RedisStreamEnds \/ WsTask \/ WsCloses
             \/ RpcTask \/ RpcSubscribeFails \/ RpcStreamEnds
      PROVE  UNCHANGED batch
  BY <1>5 DEF Publish, Broadcaster, BroadcasterSubscribes, BroadcasterSends, RedisStreamEnds,
     WsTask, WsLagged, WsRecv, WsFlushed, WsCloses, RpcTask, RpcSubscribed, RpcSubscribeFails,
     RpcForwards, RpcClientReads, RpcStreamEnds, requests
<1>6. ASSUME NEW token \in Token,
             \/ \E asked \in Asked : WsConnect(token, asked) \/ RpcSubscribe(token, asked)
             \/ RestGet(token) \/ GrpcCall(token) \/ Health(token)
      PROVE  UNCHANGED batch
  BY <1>6 DEF WsConnect, RpcSubscribe, RestGet, GrpcCall, Health, requests
<1>7. CASE UNCHANGED vars
  BY <1>4, <1>7 DEF vars, requests
<1> QED
  BY <1>1, <1>2, <1>3, <1>4, <1>5, <1>6, <1>7 DEF Next, BatchTask

\* The answer of a batch has, for every item in its order, exactly the rows of
\* that item's query in either format, or its error, for any batch size, any
\* concurrency and any order in which the queries end.
THEOREM BatchesInOrder == Spec => []BatchInOrder
<1>1. Init => BatchInv
  BY DEF Init, NoBatch, BatchInv, BatchShape, SlotsFilled
<1>2. BatchInv => BatchInOrder
  <2> SUFFICES ASSUME BatchInv, batch.state = "answered", NEW k \in 1..batch.total
               PROVE  \E entry \in batch.results[k], out \in batch.outcome[k] :
                        Decoded(entry) = IF out.ok THEN {out.rows} ELSE {}
    BY DEF BatchInOrder
  <2>1. k \in (1..batch.next - 1) \ batch.inflight
    BY DEF BatchInv, BatchShape
  <2>2. PICK out \in Outcome : /\ batch.results[k] = {Entry(batch.fmt, out)}
                               /\ batch.outcome[k] = {out}
    BY <2>1 DEF BatchInv, SlotsFilled
  <2>3. Decoded(Entry(batch.fmt, out)) = IF out.ok THEN {out.rows} ELSE {}
    BY EntryDecodes DEF BatchInv, BatchShape
  <2> QED
    BY <2>2, <2>3
<1> QED
  BY <1>1, <1>2, BatchStep, PTL DEF Spec

-----------------------------------------------------------------------------
(* Subscribers: facts about sequences of snapshots.                        *)

\* One more snapshot at the end of an increasing sequence.
LEMMA AppendOne ==
    ASSUME NEW seq \in Seq(Nat), NEW x \in Nat
    PROVE  /\ Append(seq, x) \in Seq(Nat)
           /\ Elements(Append(seq, x)) = Elements(seq) \union {x}
           /\ Increasing(seq) /\ (\A n \in Elements(seq) : n < x) => Increasing(Append(seq, x))
<1> DEFINE s2 == Append(seq, x)
<1>1. /\ s2 \in Seq(Nat) /\ Len(seq) \in Nat /\ Len(s2) = Len(seq) + 1
      /\ s2[Len(seq) + 1] = x
      /\ \A k \in 1..Len(seq) : s2[k] = seq[k] /\ seq[k] \in Nat
  OBVIOUS
<1> HIDE DEF s2
<1>2. Elements(s2) = Elements(seq) \union {x}
  <2>1. 1..Len(s2) = (1..Len(seq)) \union {Len(seq) + 1}
    BY <1>1
  <2>2. Elements(s2) \subseteq Elements(seq) \union {x}
    <3> SUFFICES ASSUME NEW k \in 1..Len(s2) PROVE s2[k] \in Elements(seq) \union {x}
      BY DEF Elements
    <3>1. CASE k = Len(seq) + 1
      BY <1>1, <3>1
    <3>2. CASE k \in 1..Len(seq)
      BY <1>1, <3>2 DEF Elements
    <3> QED
      BY <2>1, <3>1, <3>2
  <2>3. x \in Elements(s2)
    <3>1. Len(seq) + 1 \in 1..Len(s2)
      BY <1>1
    <3> QED
      BY <1>1, <3>1 DEF Elements
  <2>4. ASSUME NEW k \in 1..Len(seq) PROVE seq[k] \in Elements(s2)
    <3>1. k \in 1..Len(s2)
      BY <1>1
    <3> QED
      BY <1>1, <3>1 DEF Elements
  <2>5. Elements(seq) \subseteq Elements(s2)
    BY <2>4 DEF Elements
  <2> QED
    BY <2>2, <2>3, <2>5
<1>3. ASSUME Increasing(seq), \A n \in Elements(seq) : n < x
      PROVE  Increasing(s2)
  <2> SUFFICES ASSUME NEW j \in 1..Len(s2), NEW k \in 1..Len(s2), j < k PROVE s2[j] < s2[k]
    BY DEF Increasing
  <2>1. j \in 1..Len(seq) /\ seq[j] \in Elements(seq)
    <3>1. j \in 1..Len(seq)
      BY <1>1
    <3> QED
      BY <3>1 DEF Elements
  <2>2. CASE k = Len(seq) + 1
    BY <1>1, <1>3, <2>1, <2>2
  <2>3. CASE k # Len(seq) + 1
    <3> DEFINE n == Len(seq)
    <3>1. n \in Nat /\ k \in 1..n + 1 /\ k # n + 1
      BY <1>1, <2>3
    <3> HIDE DEF n
    <3>2. k \in 1..n
      BY <3>1
    <3>3. seq[j] < seq[k]
      BY <1>3, <2>1, <3>2 DEF Increasing, n
    <3> QED
      BY <1>1, <2>1, <3>2, <3>3 DEF n
  <2> QED
    BY <2>2, <2>3
<1> QED
  BY <1>1, <1>2, <1>3 DEF s2

\* The first snapshot of an increasing sequence, and the rest.
LEMMA TakeOne ==
    ASSUME NEW seq \in Seq(Nat), seq # <<>>
    PROVE  /\ Head(seq) \in Nat /\ Tail(seq) \in Seq(Nat)
           /\ Elements(seq) = {Head(seq)} \union Elements(Tail(seq))
           /\ Increasing(seq) => /\ Increasing(Tail(seq))
                                 /\ \A n \in Elements(Tail(seq)) : Head(seq) < n
<1> DEFINE t == Tail(seq)
<1>1. /\ t \in Seq(Nat) /\ Len(seq) \in Nat \ {0} /\ Len(t) = Len(seq) - 1
      /\ Head(seq) = seq[1] /\ seq[1] \in Nat
      /\ \A k \in 1..Len(t) : t[k] = seq[k + 1]
  OBVIOUS
<1> HIDE DEF t
<1>2. Elements(seq) = {Head(seq)} \union Elements(t)
  <2>1. ASSUME NEW k \in 1..Len(seq) PROVE seq[k] \in {Head(seq)} \union Elements(t)
    <3>1. CASE k = 1
      BY <1>1, <3>1
    <3>2. CASE k # 1
      <4>1. k - 1 \in 1..Len(t) /\ t[k - 1] = seq[k]
        BY <1>1, <3>2
      <4> QED
        BY <4>1 DEF Elements
    <3> QED
      BY <3>1, <3>2
  <2>2. ASSUME NEW k \in 1..Len(t) PROVE t[k] \in Elements(seq)
    <3>1. k + 1 \in 1..Len(seq) /\ t[k] = seq[k + 1]
      BY <1>1
    <3> QED
      BY <3>1 DEF Elements
  <2>3. Head(seq) \in Elements(seq)
    <3>1. 1 \in 1..Len(seq)
      BY <1>1
    <3> QED
      BY <1>1, <3>1 DEF Elements
  <2> QED
    BY <2>1, <2>2, <2>3 DEF Elements
<1>3. ASSUME Increasing(seq)
      PROVE  Increasing(t) /\ \A n \in Elements(t) : Head(seq) < n
  <2>1. \A k \in 1..Len(t) : k + 1 \in 1..Len(seq) /\ 1 \in 1..Len(seq)
    BY <1>1
  <2>2. ASSUME NEW j \in 1..Len(t), NEW k \in 1..Len(t), j < k PROVE t[j] < t[k]
    <3>1. j + 1 \in 1..Len(seq) /\ k + 1 \in 1..Len(seq) /\ j + 1 < k + 1
      BY <1>1, <2>2
    <3>2. seq[j + 1] < seq[k + 1]
      BY <1>3, <3>1 DEF Increasing
    <3> QED
      BY <1>1, <3>2
  <2>3. ASSUME NEW k \in 1..Len(t) PROVE Head(seq) < t[k]
    <3>1. 1 \in 1..Len(seq) /\ k + 1 \in 1..Len(seq) /\ 1 < k + 1
      BY <1>1
    <3>2. seq[1] < seq[k + 1]
      BY <1>3, <3>1 DEF Increasing
    <3> QED
      BY <1>1, <3>2
  <2> QED
    BY <2>2, <2>3 DEF Increasing, Elements
<1> QED
  BY <1>1, <1>2, <1>3 DEF t

\* Appending to the second part of a sequence, and moving a snapshot from the
\* head of the second part to the end of the first.
LEMMA Joined ==
    ASSUME NEW a \in Seq(Nat), NEW b \in Seq(Nat)
    PROVE  /\ a \o b \in Seq(Nat) /\ a \o <<>> = a
           /\ \A x \in Nat : a \o <<x>> = Append(a, x) /\ a \o Append(b, x) = Append(a \o b, x)
           /\ b # <<>> => Append(a, Head(b)) \o Tail(b) = a \o b
           /\ Elements(a) \subseteq Elements(a \o b)
           /\ Elements(a \o b) \subseteq Elements(a) \union Elements(b)
<1>1. a \o b \in Seq(Nat) /\ a \o <<>> = a
  OBVIOUS
<1>2. ASSUME NEW x \in Nat PROVE a \o <<x>> = Append(a, x) /\ a \o Append(b, x) = Append(a \o b, x)
  OBVIOUS
<1>3. ASSUME b # <<>> PROVE Append(a, Head(b)) \o Tail(b) = a \o b
  <2>1. Head(b) \in Nat /\ Tail(b) \in Seq(Nat) /\ <<Head(b)>> \in Seq(Nat)
    BY <1>3
  <2>2. <<Head(b)>> \o Tail(b) = b
    BY <1>3, SMTT(30)
  <2>3. (a \o <<Head(b)>>) \o Tail(b) = a \o (<<Head(b)>> \o Tail(b))
    BY <2>1, ConcatAssociative
  <2>4. Append(a, Head(b)) = a \o <<Head(b)>>
    BY <2>1, AppendIsConcat
  <2> QED
    BY <2>2, <2>3, <2>4
<1>4. Elements(a) \subseteq Elements(a \o b)
  <2>1. Len(a) \in Nat /\ Len(a \o b) >= Len(a) /\ \A k \in 1..Len(a) : (a \o b)[k] = a[k]
    OBVIOUS
  <2>2. 1..Len(a) \subseteq 1..Len(a \o b)
    BY <2>1
  <2> QED
    BY <2>1, <2>2 DEF Elements
<1>5. ASSUME NEW k \in 1..Len(a \o b) PROVE (a \o b)[k] \in Elements(a) \union Elements(b)
  <2>1. CASE k \in 1..Len(a)
    BY <2>1 DEF Elements
  <2>2. CASE k \notin 1..Len(a)
    <3>1. k - Len(a) \in 1..Len(b) /\ (a \o b)[k] = b[k - Len(a)]
      BY <2>2
    <3> QED
      BY <3>1 DEF Elements
  <2> QED
    BY <2>1, <2>2
<1>6. Elements(a \o b) \subseteq Elements(a) \union Elements(b)
  BY <1>5 DEF Elements
<1> QED
  BY <1>1, <1>2, <1>3, <1>4, <1>6

\* The part of it about appending, for sequences given as state functions.
LEMMA AppendJoined ==
    \A a, b \in Seq(Nat), x \in Nat : a \o Append(b, x) = Append(a \o b, x)
BY Joined

\* A part of an increasing sequence is increasing.
LEMMA Prefix ==
    ASSUME NEW a \in Seq(Nat), NEW b \in Seq(Nat), Increasing(a \o b)
    PROVE  Increasing(a)
<1>1. Len(a) \in Nat /\ Len(a \o b) >= Len(a) /\ \A k \in 1..Len(a) : (a \o b)[k] = a[k]
  OBVIOUS
<1>2. Len(a \o b) \in Nat
  OBVIOUS
<1>3. 1..Len(a) \subseteq 1..Len(a \o b)
  BY <1>1, <1>2
<1> QED
  BY <1>1, <1>3 DEF Increasing

-----------------------------------------------------------------------------
(* Subscribers: the invariant.                                             *)

WsClient == [state : {"off", "open", "closed"}, filter : SUBSET (Inst \union {Junk}),
             pos : Nat, start : Nat, sending : Seq(Nat), got : Seq(Nat), skipped : SUBSET Nat]
RpcStream == [state : {"off", "calling", "open", "ended", "unavailable"},
              filter : SUBSET (Inst \union {Junk}),
              start : Nat, queue : Seq(Nat), chan : Seq(Nat), got : Seq(Nat)]

\* What the broadcaster took from Redis is a part of what was published, in
\* order, and the rest was published while it was away.
StreamInv ==
    /\ kind \in Seq(Inst) /\ ring \in Seq(Nat)
    /\ relay \in [up : BOOLEAN, queue : Seq(Nat)]
    /\ Increasing(ring \o relay.queue)
    /\ Elements(ring \o relay.queue) \subseteq 1..Len(kind)
    /\ 1..Len(kind) \subseteq Elements(ring \o relay.queue) \union missed

\* Of the ring up to where it is the WS client has what its filter lets
\* through and was published since it came, or has skipped it.
WsInv ==
    /\ ws \in WsClient
    /\ ws.pos <= Len(ring)
    /\ Increasing(ws.got \o ws.sending)
    /\ Elements(ws.got \o ws.sending) \subseteq
          {n \in RingPart(0, ws.pos) : Matches(ws.filter, n)}
    /\ \A n \in {m \in RingPart(0, ws.pos) : Matches(ws.filter, m)} :
          n > ws.start => n \in Elements(ws.got \o ws.sending) \union ws.skipped

\* The snapshots the task of a gRPC stream has taken from its subscription.
Taken == Len(kind) - Len(rpc.queue)

\* Its subscription holds the last snapshots published, and it forwarded what
\* its filter lets through of those before.
RpcInv ==
    /\ rpc \in RpcStream
    /\ rpc.state # "open" => rpc.queue = <<>>
    /\ rpc.state = "calling" => rpc.got = <<>> /\ rpc.chan = <<>>
    /\ rpc.state = "open" =>
          /\ rpc.start <= Taken
          /\ \A k \in 1..Len(rpc.queue) : rpc.queue[k] = Taken + k
          /\ Delivers(rpc.got \o rpc.chan, {n \in rpc.start + 1..Taken : Matches(rpc.filter, n)})

SubscriberInv == StreamInv /\ WsInv /\ RpcInv

\* What was published or sent into the ring stays where it is.
Grows ==
    /\ Len(kind) \in Nat /\ Len(kind') \in Nat /\ Len(kind) <= Len(kind')
    /\ \A n \in 1..Len(kind) : kind'[n] = kind[n]
    /\ Len(ring) \in Nat /\ Len(ring') \in Nat /\ Len(ring) <= Len(ring')
    /\ \A k \in 1..Len(ring) : ring'[k] = ring[k] /\ ring[k] \in 1..Len(kind)

\* A plain request leaves the stream and its subscribers alone.
LEMMA RequestsElsewhere ==
    ASSUME NEW token, \/ RestGet(token) \/ GrpcCall(token) \/ Health(token)
                      \/ RangeBatch(token) \/ FundingRangeBatch(token)
                      \/ FundingEventRangeBatch(token)
    PROVE  UNCHANGED <<kind, relay, missed, ring, ws, rpc>>
<1>1. CASE RestGet(token)
  BY <1>1, Zenon DEF RestGet, streams
<1>2. CASE GrpcCall(token)
  BY <1>2, Zenon DEF GrpcCall, streams
<1>3. CASE Health(token)
  BY <1>3, Zenon DEF Health, streams
<1>4. ASSUME NEW formats, BatchPost(token, formats)
      PROVE  UNCHANGED <<kind, relay, missed, ring, ws, rpc>>
  BY <1>4, Zenon DEF BatchPost, streams
<1> QED
  BY <1>1, <1>2, <1>3, <1>4 DEF RangeBatch, FundingRangeBatch, FundingEventRangeBatch

\* The actions that leave the stream alone.
LEMMA Elsewhere ==
    ASSUME [Next]_vars
    PROVE  \/ UNCHANGED <<kind, relay, missed, ring>>
           \/ (\E i \in Inst : Publish(i)) \/ BroadcasterSubscribes \/ BroadcasterSends
           \/ RedisStreamEnds
<1> USE DEF streams, requests
<1>1. CASE \E token \in Token, asked \in Asked : WsConnect(token, asked) \/ RpcSubscribe(token, asked)
  BY <1>1 DEF WsConnect, RpcSubscribe
<1>2. CASE WsTask \/ WsCloses \/ RpcTask \/ RpcSubscribeFails \/ RpcStreamEnds
  <2>1. CASE WsLagged \/ WsRecv
    BY <2>1 DEF WsLagged, WsRecv
  <2>2. CASE WsFlushed \/ WsCloses
    BY <2>2 DEF WsFlushed, WsCloses
  <2>3. CASE RpcForwards
    BY <2>3 DEF RpcForwards
  <2>4. CASE RpcClientReads \/ RpcStreamEnds
    BY <2>4 DEF RpcClientReads, RpcStreamEnds
  <2>5. CASE RpcSubscribed \/ RpcSubscribeFails
    BY <2>5 DEF RpcSubscribed, RpcSubscribeFails
  <2> QED
    BY <1>2, <2>1, <2>2, <2>3, <2>4, <2>5 DEF WsTask, RpcTask
<1>3. CASE \E token \in Token : \/ RestGet(token) \/ GrpcCall(token) \/ Health(token)
             \/ RangeBatch(token) \/ FundingRangeBatch(token) \/ FundingEventRangeBatch(token)
  BY <1>3, RequestsElsewhere, Zenon
<1>4. CASE BatchTask
  BY <1>4 DEF BatchTask, BatchItemDone, BatchAnswers
<1>5. CASE UNCHANGED vars
  BY <1>5 DEF vars
<1> QED
  BY <1>1, <1>2, <1>3, <1>4, <1>5 DEF Next, Broadcaster

LEMMA StreamStep == ASSUME StreamInv, [Next]_vars PROVE StreamInv' /\ Grows
<1> DEFINE all == ring \o relay.queue
<1>1. /\ kind \in Seq(Inst) /\ ring \in Seq(Nat) /\ Len(kind) \in Nat /\ Len(ring) \in Nat
      /\ relay \in [up : BOOLEAN, queue : Seq(Nat)] /\ relay.queue \in Seq(Nat)
      /\ Increasing(all) /\ Elements(all) \subseteq 1..Len(kind)
      /\ 1..Len(kind) \subseteq Elements(all) \union missed
  BY DEF StreamInv
<1>2. all \in Seq(Nat) /\ Elements(ring) \subseteq Elements(all) /\ Increasing(ring)
  BY <1>1, Joined, Prefix
<1>3. \A k \in 1..Len(ring) : ring[k] \in 1..Len(kind)
  BY <1>1, <1>2 DEF Elements
<1> HIDE DEF all
<1>0. ASSUME NEW seq, ring' \o relay'.queue = seq, Increasing(seq), Elements(seq) \subseteq 1..Len(kind'),
             1..Len(kind') \subseteq Elements(seq) \union missed',
             kind' \in Seq(Inst), ring' \in Seq(Nat), relay' \in [up : BOOLEAN, queue : Seq(Nat)]
      PROVE  StreamInv'
  BY <1>0 DEF StreamInv, Increasing, Elements
<1>4. CASE UNCHANGED <<kind, relay, missed, ring>>
  <2>1. Grows
    BY <1>1, <1>3, <1>4 DEF Grows
  <2>2. ring' \o relay'.queue = all
    BY <1>4 DEF all
  <2>3. kind' \in Seq(Inst) /\ ring' \in Seq(Nat) /\ relay' \in [up : BOOLEAN, queue : Seq(Nat)]
        /\ Elements(all) \subseteq 1..Len(kind') /\ 1..Len(kind') \subseteq Elements(all) \union missed'
    BY <1>1, <1>4
  <2> QED
    BY <1>0, <1>1, <2>1, <2>2, <2>3
<1>5. ASSUME NEW i \in Inst, Publish(i) PROVE StreamInv' /\ Grows
  <2>1. /\ kind' = Append(kind, i) /\ ring' = ring
        /\ relay' = IF relay.up THEN [relay EXCEPT !.queue = Append(@, Len(kind'))] ELSE relay
        /\ missed' = IF relay.up THEN missed ELSE missed \union {Len(kind')}
    BY <1>5 DEF Publish
  <2>2. /\ kind' \in Seq(Inst) /\ Len(kind') = Len(kind) + 1
        /\ \A n \in 1..Len(kind) : kind'[n] = kind[n]
    BY <1>1, <2>1
  <2>3. Grows
    BY <1>1, <1>3, <2>1, <2>2 DEF Grows
  <2>4. Elements(all) \subseteq 1..Len(kind')
    BY <1>1, <2>2
  <2>5. CASE ~relay.up
    <3>1. ring' \o relay'.queue = all /\ ring' \in Seq(Nat)
          /\ relay' \in [up : BOOLEAN, queue : Seq(Nat)]
      BY <1>1, <2>1, <2>5 DEF all
    <3>2. 1..Len(kind') \subseteq Elements(all) \union missed'
      BY <1>1, <2>1, <2>2, <2>5
    <3> QED
      BY <1>0, <1>1, <2>2, <2>3, <2>4, <3>1, <3>2
  <2>6. CASE relay.up
    <3> DEFINE x == Len(kind) + 1
    <3>a. x \in Nat /\ Len(kind') = x
      BY <1>1, <2>2
    <3>b. relay' = [relay EXCEPT !.queue = Append(relay.queue, x)]
      BY <2>1, <2>6, <3>a
    <3> HIDE DEF x
    <3>c. Append(relay.queue, x) \in Seq(Nat)
      BY <1>1, <3>a
    <3>1. /\ relay' \in [up : BOOLEAN, queue : Seq(Nat)]
          /\ relay'.queue = Append(relay.queue, x)
      BY <1>1, <3>b, <3>c
    <3>2. ring \o relay'.queue = Append(all, x)
      <4>0. ring \in Seq(Nat) /\ relay.queue \in Seq(Nat)
        BY <1>1
      <4>1. ring \o Append(relay.queue, x) = Append(ring \o relay.queue, x)
        BY <3>a, <4>0, AppendJoined, Zenon
      <4> QED
        BY <3>1, <4>1 DEF all
    <3>3. \A n \in Elements(all) : n < x
      BY <1>1 DEF x
    <3>4. /\ Increasing(Append(all, x)) /\ Elements(Append(all, x)) = Elements(all) \union {x}
      BY <1>1, <1>2, <3>a, <3>3, AppendOne
    <3>5. Elements(Append(all, x)) \subseteq 1..Len(kind')
      BY <1>1, <2>2, <2>4, <3>4 DEF x
    <3>6. 1..Len(kind') \subseteq Elements(Append(all, x)) \union missed'
      BY <1>1, <2>1, <2>2, <2>6, <3>4 DEF x
    <3> QED
      BY <1>0, <1>1, <2>1, <2>2, <2>3, <3>1, <3>2, <3>4, <3>5, <3>6
  <2> QED
    BY <2>5, <2>6
<1>6. CASE BroadcasterSubscribes
  <2>1. UNCHANGED <<kind, missed, ring>> /\ relay' = [relay EXCEPT !.up = TRUE]
    BY <1>6 DEF BroadcasterSubscribes
  <2>2. relay' \in [up : BOOLEAN, queue : Seq(Nat)] /\ relay'.queue = relay.queue
    BY <1>1, <2>1
  <2>3. ring' \o relay'.queue = all
    BY <2>1, <2>2 DEF all
  <2>4. Grows
    BY <1>1, <1>3, <2>1 DEF Grows
  <2> QED
    BY <1>0, <1>1, <2>1, <2>2, <2>3, <2>4
<1>7. CASE BroadcasterSends
  <2>1. /\ relay.queue # <<>> /\ ring' = Append(ring, Head(relay.queue))
        /\ relay' = [relay EXCEPT !.queue = Tail(@)] /\ UNCHANGED <<kind, missed>>
    BY <1>7 DEF BroadcasterSends
  <2>2. Head(relay.queue) \in Nat /\ Tail(relay.queue) \in Seq(Nat)
    BY <1>1, <2>1, TakeOne
  <2>3. relay' \in [up : BOOLEAN, queue : Seq(Nat)] /\ relay'.queue = Tail(relay.queue)
    BY <1>1, <2>1, <2>2
  <2>4. ring' \in Seq(Nat) /\ Len(ring') = Len(ring) + 1 /\ \A k \in 1..Len(ring) : ring'[k] = ring[k]
    BY <1>1, <2>1, <2>2
  <2>5. ring' \o relay'.queue = all
    <3>1. Append(ring, Head(relay.queue)) \o Tail(relay.queue) = ring \o relay.queue
      BY <1>1, <2>1, Joined
    <3> QED
      BY <2>1, <2>3, <3>1 DEF all
  <2>6. Grows
    <3>1. Len(kind') = Len(kind) /\ \A n \in 1..Len(kind) : kind'[n] = kind[n]
      BY <2>1
    <3>2. Len(ring') \in Nat /\ Len(ring) <= Len(ring')
      BY <1>1, <2>4
    <3> QED
      BY <1>1, <1>3, <2>4, <3>1, <3>2 DEF Grows
  <2> QED
    BY <1>0, <1>1, <2>1, <2>3, <2>4, <2>5, <2>6
<1>8. CASE RedisStreamEnds
  <2>1. /\ UNCHANGED <<kind, ring>> /\ relay' = [up |-> FALSE, queue |-> <<>>]
        /\ missed' = missed \union Elements(relay.queue)
    BY <1>8 DEF RedisStreamEnds
  <2>2. ring' \o relay'.queue = ring /\ relay' \in [up : BOOLEAN, queue : Seq(Nat)]
    BY <1>1, <2>1
  <2>3. 1..Len(kind') \subseteq Elements(ring) \union missed'
    <3>1. Elements(all) \subseteq Elements(ring) \union Elements(relay.queue)
      BY <1>1, Joined DEF all
    <3> QED
      BY <1>1, <2>1, <3>1
  <2> QED
    BY <1>0, <1>1, <1>2, <1>3, <2>1, <2>2, <2>3 DEF Grows
<1> QED
  BY <1>4, <1>5, <1>6, <1>7, <1>8, Elsewhere

\* A filter lets through the same snapshots of a part of the ring, later on.
LEMMA PartKept ==
    ASSUME StreamInv, Grows, NEW from \in Nat, NEW to \in Nat, to <= Len(ring), NEW filter
    PROVE  {n \in RingPart(from, to) : Matches(filter, n)}' = {n \in RingPart(from, to) : Matches(filter, n)}
<1>1. \A k \in from + 1..to : k \in 1..Len(ring)
  BY DEF Grows
<1>2. \A k \in from + 1..to : ring'[k] = ring[k] /\ ring[k] \in 1..Len(kind)
  BY <1>1 DEF Grows
<1>3. RingPart(from, to)' = RingPart(from, to)
  BY <1>2 DEF RingPart
<1>4. \A n \in RingPart(from, to) : kind'[n] = kind[n]
  BY <1>2 DEF RingPart, Grows
<1> QED
  BY <1>3, <1>4 DEF Matches

\* One step further along the ring.
LEMMA PartGrows ==
    ASSUME StreamInv, NEW from \in Nat, NEW to \in Nat, from <= to, to < Len(ring)
    PROVE  /\ RingPart(from, to + 1) = RingPart(from, to) \union {ring[to + 1]}
           /\ ring[to + 1] \in Nat
           /\ \A n \in RingPart(from, to) : n < ring[to + 1]
<1>1. ring \in Seq(Nat) /\ Len(ring) \in Nat /\ Increasing(ring)
  BY Prefix DEF StreamInv
<1>2. to + 1 \in 1..Len(ring) /\ \A k \in from + 1..to : k \in 1..Len(ring) /\ k < to + 1
  BY <1>1
<1>3. \A k \in from + 1..to : ring[k] < ring[to + 1]
  BY <1>2, <1>1 DEF Increasing
<1>4. from + 1..to + 1 = (from + 1..to) \union {to + 1}
  OBVIOUS
<1>5. ring[to + 1] \in Nat
  BY <1>1, <1>2
<1> QED
  BY <1>3, <1>4, <1>5 DEF RingPart

\* The actions that leave the WS client alone.
LEMMA WsElsewhere ==
    ASSUME [Next]_vars
    PROVE  \/ UNCHANGED ws
           \/ \E token \in Token, asked \in Asked : WsConnect(token, asked)
           \/ WsLagged \/ WsRecv \/ WsFlushed \/ WsCloses
<1> USE DEF streams, requests
<1>1. CASE (\E i \in Inst : Publish(i)) \/ Broadcaster \/ RedisStreamEnds
  BY <1>1 DEF Publish, Broadcaster, BroadcasterSubscribes, BroadcasterSends, RedisStreamEnds
<1>2. CASE \/ RpcTask \/ RpcSubscribeFails \/ RpcStreamEnds
           \/ \E token \in Token, asked \in Asked : RpcSubscribe(token, asked)
  <2>1. CASE RpcForwards
    BY <2>1 DEF RpcForwards
  <2>2. CASE RpcClientReads \/ RpcStreamEnds
    BY <2>2 DEF RpcClientReads, RpcStreamEnds
  <2>3. ASSUME NEW token \in Token, NEW asked \in Asked, RpcSubscribe(token, asked) PROVE UNCHANGED ws
    BY <2>3 DEF RpcSubscribe
  <2>4. CASE RpcSubscribed \/ RpcSubscribeFails
    BY <2>4 DEF RpcSubscribed, RpcSubscribeFails
  <2> QED
    BY <1>2, <2>1, <2>2, <2>3, <2>4 DEF RpcTask
<1>3. CASE \E token \in Token : \/ RestGet(token) \/ GrpcCall(token) \/ Health(token)
             \/ RangeBatch(token) \/ FundingRangeBatch(token) \/ FundingEventRangeBatch(token)
  BY <1>3, RequestsElsewhere, Zenon
<1>4. CASE BatchTask
  BY <1>4 DEF BatchTask, BatchItemDone, BatchAnswers
<1>5. CASE UNCHANGED vars
  BY <1>5 DEF vars
<1> QED
  BY <1>1, <1>2, <1>3, <1>4, <1>5 DEF Next, WsTask

LEMMA WsStep == ASSUME StreamInv, WsInv, [Next]_vars PROVE WsInv'
<1> DEFINE seen == ws.got \o ws.sending
           part == {n \in RingPart(0, ws.pos) : Matches(ws.filter, n)}
<1>1. /\ ws \in WsClient /\ ws.pos <= Len(ring) /\ ws.skipped \in SUBSET Nat
      /\ ws.start \in Nat /\ ws.pos \in Nat /\ ws.got \in Seq(Nat) /\ ws.sending \in Seq(Nat)
      /\ Increasing(seen) /\ Elements(seen) \subseteq part
      /\ \A n \in part : n > ws.start => n \in Elements(seen) \union ws.skipped
  BY DEF WsInv, WsClient
<1>2. Grows /\ StreamInv'
  BY StreamStep
<1>4. Len(ring) \in Nat
  BY <1>2 DEF Grows
<1> HIDE DEF seen, part
<1>5. ASSUME ws' \in WsClient, ws'.pos <= Len(ring'),
             NEW seq, ws'.got \o ws'.sending = seq, Increasing(seq), Elements(seq) \subseteq part',
             \A n \in part' : n > ws'.start => n \in Elements(seq) \union ws'.skipped
      PROVE  WsInv'
  BY <1>5 DEF WsInv, Increasing, Elements, part
<1>6. ASSUME ws' \in WsClient, ws'.start = ws.start, ws'.pos = ws.pos, ws'.filter = ws.filter,
             ws'.got = ws.got, ws'.sending = ws.sending, ws'.skipped = ws.skipped
      PROVE  WsInv'
  <2>1. part' = part
    BY <1>1, <1>2, <1>6, PartKept DEF part
  <2>2. ws'.got \o ws'.sending = seen
    BY <1>6 DEF seen
  <2>3. ws'.pos <= Len(ring')
    BY <1>1, <1>2, <1>6 DEF Grows
  <2> QED
    BY <1>1, <1>5, <1>6, <2>1, <2>2, <2>3
<1>7. CASE UNCHANGED ws
  BY <1>1, <1>6, <1>7
<1>8. ASSUME NEW token \in Token, NEW asked \in Asked, WsConnect(token, asked) PROVE WsInv'
  <2>1. /\ ws' = [NoClient EXCEPT !.state = "open", !.filter = ParseFilter(asked),
                                  !.pos = Len(ring), !.start = Len(kind)]
        /\ ring' = ring /\ Len(kind) \in Nat
    BY <1>2, <1>8 DEF WsConnect, Grows
  <2>2. /\ ws' \in WsClient /\ ws'.start = Len(kind) /\ ws'.pos = Len(ring)
        /\ ws'.got = <<>> /\ ws'.sending = <<>>
    <3>1. ParseFilter(asked) \in SUBSET (Inst \union {Junk})
      BY DEF ParseFilter, Asked
    <3>2. ws' = [state |-> "open", filter |-> ParseFilter(asked), pos |-> Len(ring),
                 start |-> Len(kind), sending |-> <<>>, got |-> <<>>, skipped |-> {}]
      BY <2>1 DEF NoClient
    <3>3. {} \in SUBSET Nat /\ <<>> \in Seq(Nat)
      OBVIOUS
    <3>4. Len(ring) \in Nat /\ Len(kind) \in Nat
      BY <1>4, <2>1
    <3> QED
      BY <3>1, <3>2, <3>3, <3>4 DEF WsClient
  <2>3. \A k \in 1..Len(ring) : ring[k] \in 1..Len(kind)
    BY <1>2 DEF Grows
  <2>4. \A n \in part' : ~(n > ws'.start)
    <3>1. \A n \in RingPart(0, Len(ring)) : n \in 1..Len(kind)
      BY <1>4, <2>3 DEF RingPart
    <3>2. RingPart(0, ws.pos)' = RingPart(0, Len(ring))
      BY <2>1, <2>2 DEF RingPart
    <3> QED
      BY <2>1, <2>2, <3>1, <3>2 DEF part
  <2>5. <<>> \o <<>> = <<>> /\ Increasing(<<>>) /\ Elements(<<>>) = {}
    BY DEF Increasing, Elements
  <2>6. ws'.got \o ws'.sending = <<>> /\ ws'.pos <= Len(ring') /\ Elements(<<>>) \subseteq part'
    BY <1>4, <2>1, <2>2, <2>5
  <2> QED
    BY <1>5, <2>2, <2>4, <2>5, <2>6, Zenon
<1>9. CASE WsCloses
  <2>1. ws' = [ws EXCEPT !.state = "closed"]
    BY <1>9 DEF WsCloses
  <2> QED
    BY <1>1, <1>6, <2>1 DEF WsClient
<1>10. CASE WsLagged
  <2> DEFINE turned == RingPart(ws.pos, Oldest)
             more == ws.skipped \union turned
  <2>1. /\ ws.sending = <<>> /\ ws.pos < Oldest /\ UNCHANGED <<kind, ring>>
        /\ ws' = [ws EXCEPT !.pos = Oldest, !.skipped = more]
    BY <1>10 DEF WsLagged, Ready
  <2>2. Oldest \in Nat /\ Oldest <= Len(ring)
    BY <1>4, ApiAssumption DEF Oldest
  <2>3. more \in SUBSET Nat
    <3>1. \A k \in ws.pos + 1..Oldest : k \in 1..Len(ring)
      BY <1>1, <1>4, <2>2
    <3>2. \A k \in 1..Len(ring) : ring[k] \in Nat
      BY <1>2 DEF Grows
    <3> QED
      BY <1>1, <3>1, <3>2 DEF RingPart
  <2>4. RingPart(0, Oldest) = RingPart(0, ws.pos) \union turned
    <3>1. 0 + 1..Oldest = (0 + 1..ws.pos) \union (ws.pos + 1..Oldest)
      BY <1>1, <2>1, <2>2
    <3> QED
      BY <3>1 DEF RingPart
  <2> HIDE DEF turned
  <2>5. /\ ws' \in WsClient /\ ws'.start = ws.start /\ ws'.pos = Oldest /\ ws'.filter = ws.filter
        /\ ws'.got = ws.got /\ ws'.sending = ws.sending /\ ws'.skipped = more
    <3> HIDE DEF more
    <3>1. ws \in WsClient /\ ws' = [ws EXCEPT !.pos = Oldest, !.skipped = more]
      BY <1>1, <2>1
    <3> QED
      BY <2>2, <2>3, <3>1 DEF WsClient
  <2>6. part' = {n \in RingPart(0, Oldest) : Matches(ws.filter, n)}
    BY <2>1, <2>5 DEF part, RingPart, Matches
  <2>7. part \subseteq part' /\ part' \subseteq part \union turned
    BY <2>4, <2>6 DEF part
  <2>8. ws'.got \o ws'.sending = seen
    BY <2>5 DEF seen
  <2>9. ws'.pos <= Len(ring')
    BY <2>1, <2>2, <2>5
  <2>10. \A n \in part' : n > ws'.start => n \in Elements(seen) \union ws'.skipped
    BY <1>1, <2>5, <2>7
  <2> QED
    BY <1>1, <1>5, <2>5, <2>7, <2>8, <2>9, <2>10
<1>11. CASE WsFlushed
  <2>1. /\ UNCHANGED <<kind, ring>>
        /\ ws' = [ws EXCEPT !.got = seen, !.sending = <<>>]
    BY <1>11 DEF WsFlushed, seen
  <2>2. seen \in Seq(Nat) /\ seen \o <<>> = seen
    BY <1>1, Joined DEF seen
  <2>3. /\ ws' \in WsClient /\ ws'.start = ws.start /\ ws'.pos = ws.pos /\ ws'.filter = ws.filter
        /\ ws'.got = seen /\ ws'.sending = <<>> /\ ws'.skipped = ws.skipped
    <3>1. <<>> \in Seq(Nat)
      OBVIOUS
    <3>2. ws \in WsClient /\ ws' = [ws EXCEPT !.got = seen, !.sending = <<>>]
      BY <1>1, <2>1
    <3> QED
      BY <2>2, <3>1, <3>2 DEF WsClient
  <2>4. part' = part
    BY <2>1, <2>3 DEF part, RingPart, Matches
  <2> QED
    BY <1>1, <1>5, <2>1, <2>2, <2>3, <2>4
<1>12. CASE WsRecv
  <2> DEFINE snap == ring[ws.pos + 1]
             frame == IF Matches(ws.filter, snap) THEN <<snap>> ELSE <<>>
  <2>1. /\ ws.sending = <<>> /\ ws.pos < Len(ring) /\ UNCHANGED <<kind, ring>>
        /\ ws' = [ws EXCEPT !.pos = ws.pos + 1, !.sending = frame]
    BY <1>12 DEF WsRecv, Ready
  <2>2. /\ RingPart(0, ws.pos + 1) = RingPart(0, ws.pos) \union {snap}
        /\ snap \in Nat /\ \A n \in RingPart(0, ws.pos) : n < snap
    <3>1. 0 \in Nat /\ ws.pos \in Nat /\ 0 <= ws.pos /\ ws.pos < Len(ring)
      BY <1>1, <2>1
    <3> QED
      BY <3>1, PartGrows, Zenon
  <2> HIDE DEF snap
  <2>3. frame \in Seq(Nat)
    BY <2>2
  <2> HIDE DEF frame
  <2>4. /\ ws' \in WsClient /\ ws'.start = ws.start /\ ws'.pos = ws.pos + 1 /\ ws'.filter = ws.filter
        /\ ws'.got = ws.got /\ ws'.sending = frame /\ ws'.skipped = ws.skipped
    <3>1. ws.pos + 1 \in Nat
      BY <1>1
    <3>2. ws \in WsClient /\ ws' = [ws EXCEPT !.pos = ws.pos + 1, !.sending = frame]
      BY <1>1, <2>1
    <3> QED
      BY <2>3, <3>1, <3>2 DEF WsClient
  <2>5. part' = {n \in RingPart(0, ws.pos + 1) : Matches(ws.filter, n)}
    BY <2>1, <2>4 DEF part, RingPart, Matches
  <2>6. seen = ws.got
    BY <1>1, <2>1, Joined DEF seen
  <2>7. ws'.pos <= Len(ring')
    BY <1>1, <1>4, <2>1, <2>4
  <2>8. CASE Matches(ws.filter, snap)
    <3>1. part' = part \union {snap}
      BY <2>2, <2>5, <2>8 DEF part
    <3>2. ws'.got \o ws'.sending = Append(seen, snap)
      <4>1. ws.got \o <<snap>> = Append(ws.got, snap)
        BY <1>1, <2>2, Joined
      <4> QED
        BY <2>4, <2>6, <2>8, <4>1 DEF frame
    <3>3. \A n \in Elements(seen) : n < snap
      BY <1>1, <2>2 DEF part
    <3>4. Increasing(Append(seen, snap)) /\ Elements(Append(seen, snap)) = Elements(seen) \union {snap}
      BY <1>1, <2>2, <2>6, <3>3, AppendOne
    <3> QED
      BY <1>1, <1>5, <2>4, <2>7, <3>1, <3>2, <3>4
  <2>9. CASE ~Matches(ws.filter, snap)
    <3>1. part' = part
      BY <2>2, <2>5, <2>9 DEF part
    <3>2. ws'.got \o ws'.sending = seen
      BY <1>1, <2>4, <2>6, <2>9, Joined DEF frame
    <3> QED
      BY <1>1, <1>5, <2>4, <2>7, <3>1, <3>2
  <2> QED
    BY <2>8, <2>9
<1> QED
  BY <1>7, <1>8, <1>9, <1>10, <1>11, <1>12, WsElsewhere

\* The actions that leave the gRPC stream and what was published alone.
LEMMA RpcElsewhere ==
    ASSUME [Next]_vars
    PROVE  \/ UNCHANGED <<rpc, kind>>
           \/ \E i \in Inst : Publish(i)
           \/ \E token \in Token, asked \in Asked : RpcSubscribe(token, asked)
           \/ RpcSubscribed \/ RpcSubscribeFails
           \/ RpcForwards \/ RpcClientReads \/ RpcStreamEnds
<1> USE DEF streams, requests
<1>1. CASE Broadcaster \/ RedisStreamEnds
  BY <1>1 DEF Broadcaster, BroadcasterSubscribes, BroadcasterSends, RedisStreamEnds
<1>2. CASE WsTask \/ WsCloses \/ \E token \in Token, asked \in Asked : WsConnect(token, asked)
  <2>1. CASE WsLagged \/ WsRecv
    BY <2>1 DEF WsLagged, WsRecv
  <2>2. CASE WsFlushed \/ WsCloses
    BY <2>2 DEF WsFlushed, WsCloses
  <2>3. ASSUME NEW token \in Token, NEW asked \in Asked, WsConnect(token, asked)
        PROVE  UNCHANGED <<rpc, kind>>
    BY <2>3 DEF WsConnect
  <2> QED
    BY <1>2, <2>1, <2>2, <2>3 DEF WsTask
<1>3. CASE \E token \in Token : \/ RestGet(token) \/ GrpcCall(token) \/ Health(token)
             \/ RangeBatch(token) \/ FundingRangeBatch(token) \/ FundingEventRangeBatch(token)
  BY <1>3, RequestsElsewhere, Zenon
<1>4. CASE BatchTask
  BY <1>4 DEF BatchTask, BatchItemDone, BatchAnswers
<1>5. CASE UNCHANGED vars
  BY <1>5 DEF vars
<1> QED
  BY <1>1, <1>2, <1>3, <1>4, <1>5 DEF Next, RpcTask

LEMMA RpcStep == ASSUME StreamInv, RpcInv, [Next]_vars PROVE RpcInv'
<1> DEFINE seen == rpc.got \o rpc.chan
           part == {n \in rpc.start + 1..Taken : Matches(rpc.filter, n)}
<1>1. /\ rpc \in RpcStream /\ rpc.start \in Nat
      /\ rpc.got \in Seq(Nat) /\ rpc.chan \in Seq(Nat) /\ rpc.queue \in Seq(Nat)
      /\ rpc.state # "open" => rpc.queue = <<>>
      /\ rpc.state = "calling" => rpc.got = <<>> /\ rpc.chan = <<>>
  BY DEF RpcInv, RpcStream
<1>2. ASSUME rpc.state = "open"
      PROVE  /\ rpc.start <= Taken /\ \A k \in 1..Len(rpc.queue) : rpc.queue[k] = Taken + k
             /\ Increasing(seen) /\ Elements(seen) = part
  BY <1>2 DEF RpcInv, Delivers
<1>3. Grows
  BY StreamStep
<1>4. Len(kind) \in Nat /\ Len(rpc.queue) \in Nat /\ Taken \in Int /\ Taken <= Len(kind)
  BY <1>1, <1>3 DEF Grows, Taken
<1>5. seen \in Seq(Nat)
  BY <1>1, Joined
<1> HIDE DEF seen, part
<1>6. ASSUME rpc' \in RpcStream, rpc'.state # "open", rpc'.queue = <<>>,
             rpc'.state = "calling" => rpc'.got = <<>> /\ rpc'.chan = <<>>
      PROVE  RpcInv'
  BY <1>6 DEF RpcInv
<1>7. ASSUME rpc' \in RpcStream, rpc'.state = "open", rpc'.start <= Taken',
             \A k \in 1..Len(rpc'.queue) : rpc'.queue[k] = Taken' + k,
             NEW seq, rpc'.got \o rpc'.chan = seq, Increasing(seq), Elements(seq) = part'
      PROVE  RpcInv'
  BY <1>7 DEF RpcInv, Delivers, Increasing, Elements, part
<1>8. CASE UNCHANGED <<rpc, kind>>
  <2>1. Taken' = Taken /\ part' = part
    BY <1>8 DEF Taken, part, Matches
  <2>2. rpc'.got \o rpc'.chan = seen /\ rpc' = rpc
    BY <1>8 DEF seen
  <2>3. CASE rpc.state = "open"
    BY <1>1, <1>2, <1>7, <2>1, <2>2, <2>3
  <2> QED
    BY <1>1, <1>6, <2>2, <2>3
<1>9. ASSUME NEW i \in Inst, Publish(i) PROVE RpcInv'
  <2>1. /\ kind' = Append(kind, i)
        /\ rpc' = IF rpc.state = "open" THEN [rpc EXCEPT !.queue = Append(@, Len(kind'))] ELSE rpc
    BY <1>9 DEF Publish
  <2>2. Len(kind') = Len(kind) + 1
    BY <2>1 DEF StreamInv
  <2>3. CASE rpc.state # "open"
    BY <1>1, <1>6, <2>1, <2>3
  <2>4. CASE rpc.state = "open"
    <3> DEFINE x == Len(kind) + 1
               q == Append(rpc.queue, x)
    <3>1. x \in Nat /\ q \in Seq(Nat) /\ Len(q) = Len(rpc.queue) + 1 /\ q[Len(rpc.queue) + 1] = x
          /\ \A k \in 1..Len(rpc.queue) : q[k] = rpc.queue[k]
      BY <1>1, <1>4
    <3>2. rpc' = [rpc EXCEPT !.queue = q]
      BY <2>1, <2>2, <2>4
    <3> HIDE DEF q
    <3>3. /\ rpc' \in RpcStream /\ rpc'.state = "open" /\ rpc'.start = rpc.start /\ rpc'.queue = q
          /\ rpc'.got = rpc.got /\ rpc'.chan = rpc.chan /\ rpc'.filter = rpc.filter
      <4>1. rpc \in RpcStream /\ q \in Seq(Nat)
        BY <1>1, <3>1
      <4> QED
        BY <2>4, <3>2, <4>1 DEF RpcStream
    <3>4. Taken' = Taken
      <4>1. Len(rpc'.queue) = Len(rpc.queue) + 1
        BY <3>1, <3>3
      <4> QED
        BY <1>4, <2>2, <4>1 DEF Taken
    <3>5. ASSUME NEW k \in 1..Len(q) PROVE q[k] = Taken + k
      <4>1. CASE k = Len(rpc.queue) + 1
        BY <1>4, <3>1, <4>1 DEF Taken
      <4>2. CASE k # Len(rpc.queue) + 1
        <5>1. k \in 1..Len(rpc.queue)
          BY <1>4, <3>1, <4>2
        <5> QED
          BY <1>2, <2>4, <3>1, <5>1
      <4> QED
        BY <4>1, <4>2
    <3>6. part' = part
      <4>1. \A n \in rpc.start + 1..Taken : n \in 1..Len(kind)
        BY <1>1, <1>4
      <4>2. \A n \in rpc.start + 1..Taken : kind'[n] = kind[n]
        BY <1>3, <4>1 DEF Grows
      <4> QED
        BY <3>3, <3>4, <4>2 DEF part, Matches
    <3>7. rpc'.got \o rpc'.chan = seen
      BY <3>3 DEF seen
    <3> QED
      BY <1>2, <1>7, <2>4, <3>3, <3>4, <3>5, <3>6, <3>7
  <2> QED
    BY <2>3, <2>4
<1>10. ASSUME NEW token \in Token, NEW asked \in Asked, RpcSubscribe(token, asked) PROVE RpcInv'
  <2>1. rpc' = [NoStream EXCEPT !.state = "calling", !.filter = asked]
    BY <1>10 DEF RpcSubscribe
  <2>3. rpc' = [state |-> "calling", filter |-> asked, start |-> 0, queue |-> <<>>,
                chan |-> <<>>, got |-> <<>>]
    BY <2>1 DEF NoStream
  <2>4. asked \in SUBSET (Inst \union {Junk}) /\ <<>> \in Seq(Nat) /\ 0 \in Nat
    BY DEF Asked
  <2>5. /\ rpc' \in RpcStream /\ rpc'.state = "calling" /\ rpc'.queue = <<>>
        /\ rpc'.got = <<>> /\ rpc'.chan = <<>>
    BY <2>3, <2>4 DEF RpcStream
  <2> QED
    BY <1>6, <2>5
<1>14. CASE RpcSubscribeFails
  <2>1. rpc.state = "calling" /\ rpc' = [rpc EXCEPT !.state = "unavailable"]
    BY <1>14 DEF RpcSubscribeFails
  <2>2. rpc' \in RpcStream /\ rpc'.state = "unavailable" /\ rpc'.queue = rpc.queue
    <3>1. rpc \in RpcStream
      BY <1>1
    <3> QED
      BY <2>1, <3>1 DEF RpcStream
  <2> QED
    BY <1>1, <1>6, <2>1, <2>2
<1>15. CASE RpcSubscribed
  <2>1. kind' = kind /\ rpc.state = "calling" /\ rpc' = [rpc EXCEPT !.state = "open", !.start = Len(kind)]
    BY <1>15 DEF RpcSubscribed
  <2>3. /\ rpc' \in RpcStream /\ rpc'.state = "open" /\ rpc'.start = Len(kind)
        /\ rpc'.queue = <<>> /\ rpc'.chan = <<>> /\ rpc'.got = <<>>
    <3>1. rpc \in RpcStream /\ Len(kind) \in Nat
      BY <1>1, <1>4
    <3>2. /\ rpc' \in RpcStream /\ rpc'.state = "open" /\ rpc'.start = Len(kind)
          /\ rpc'.queue = rpc.queue /\ rpc'.chan = rpc.chan /\ rpc'.got = rpc.got
      BY <2>1, <3>1 DEF RpcStream
    <3> QED
      BY <1>1, <2>1, <3>2
  <2>4. Taken' = Len(kind)
    <3>1. Len(rpc'.queue) = 0
      BY <2>3
    <3> QED
      BY <1>4, <2>1, <3>1 DEF Taken
  <2>5. rpc'.start + 1..Taken' = {}
    BY <1>4, <2>3, <2>4
  <2>6. part' = {}
    BY <2>5 DEF part
  <2>7. <<>> \o <<>> = <<>> /\ Increasing(<<>>) /\ Elements(<<>>) = {} /\ 1..Len(<<>>) = {}
    BY DEF Increasing, Elements
  <2>8. rpc'.got \o rpc'.chan = <<>> /\ rpc'.start <= Taken'
    BY <1>4, <2>3, <2>4, <2>7
  <2>9. \A k \in 1..Len(rpc'.queue) : rpc'.queue[k] = Taken' + k
    BY <2>3, <2>7
  <2> QED
    BY <1>7, <2>3, <2>6, <2>7, <2>8, <2>9, Zenon
<1>11. CASE RpcForwards
  <2> DEFINE h == Head(rpc.queue)
             t == Tail(rpc.queue)
  <2>1. rpc.queue # <<>> /\ kind' = kind /\ rpc.state = "open"
    BY <1>1, <1>11 DEF RpcForwards
  <2>2. /\ h = rpc.queue[1] /\ h \in Nat /\ t \in Seq(Nat) /\ Len(t) = Len(rpc.queue) - 1
        /\ \A k \in 1..Len(t) : t[k] = rpc.queue[k + 1]
        /\ 1 \in 1..Len(rpc.queue)
    BY <1>1, <2>1
  <2>3. IF Matches(rpc.filter, h)
        THEN rpc' = [rpc EXCEPT !.queue = t, !.chan = Append(rpc.chan, h)]
        ELSE rpc' = [rpc EXCEPT !.queue = t]
    BY <1>11 DEF RpcForwards
  <2> HIDE DEF h, t
  <2>4. h = Taken + 1
    BY <1>2, <2>1, <2>2
  <2>5. ASSUME rpc'.queue = t, rpc'.start = rpc.start, rpc'.filter = rpc.filter
        PROVE  /\ Taken' = Taken + 1 /\ rpc'.start <= Taken'
               /\ \A k \in 1..Len(rpc'.queue) : rpc'.queue[k] = Taken' + k
               /\ part' = {n \in rpc.start + 1..Taken + 1 : Matches(rpc.filter, n)}
    <3>1. Taken' = Taken + 1
      <4>1. Len(rpc'.queue) = Len(rpc.queue) - 1
        BY <2>2, <2>5
      <4> QED
        BY <1>4, <2>1, <4>1 DEF Taken
    <3>2. rpc'.start <= Taken'
      BY <1>1, <1>2, <1>4, <2>1, <2>5, <3>1
    <3>3. ASSUME NEW k \in 1..Len(t) PROVE t[k] = Taken + 1 + k
      <4>1. k + 1 \in 1..Len(rpc.queue)
        BY <1>4, <2>2
      <4>2. t[k] = Taken + (k + 1)
        BY <1>2, <2>1, <2>2, <4>1
      <4> QED
        BY <1>4, <4>2
    <3>4. part' = {n \in rpc.start + 1..Taken + 1 : Matches(rpc.filter, n)}
      BY <2>1, <2>5, <3>1 DEF part, Matches
    <3> QED
      BY <2>5, <3>1, <3>2, <3>3, <3>4
  <2>6. rpc.start + 1..Taken + 1 = (rpc.start + 1..Taken) \union {h}
    BY <1>1, <1>2, <1>4, <2>1, <2>4
  <2>7. CASE Matches(rpc.filter, h)
    <3> DEFINE c == Append(rpc.chan, h)
    <3>1. c \in Seq(Nat)
      BY <1>1, <2>2
    <3>2. rpc' = [rpc EXCEPT !.queue = t, !.chan = c]
      BY <2>3, <2>7
    <3> HIDE DEF c
    <3>3. /\ rpc' \in RpcStream /\ rpc'.state = "open" /\ rpc'.start = rpc.start /\ rpc'.queue = t
          /\ rpc'.got = rpc.got /\ rpc'.chan = c /\ rpc'.filter = rpc.filter
      <4>1. rpc \in RpcStream /\ rpc.state = "open" /\ t \in Seq(Nat)
        BY <1>1, <2>1, <2>2
      <4> QED
        BY <3>1, <3>2, <4>1 DEF RpcStream
    <3>4. part' = part \union {h}
      BY <2>5, <2>6, <2>7, <3>3 DEF part
    <3>5. rpc'.got \o rpc'.chan = Append(seen, h)
      <4>1. rpc.got \o Append(rpc.chan, h) = Append(rpc.got \o rpc.chan, h)
        <5>1. rpc.got \in Seq(Nat) /\ rpc.chan \in Seq(Nat) /\ h \in Nat
          BY <1>1, <2>2
        <5> QED
          BY <5>1, AppendJoined, Zenon
      <4> QED
        BY <3>3, <4>1 DEF seen, c
    <3>6. \A n \in Elements(seen) : n < h
      <4>1. Elements(seen) = part
        BY <1>2, <2>1
      <4> QED
        BY <1>1, <1>4, <2>4, <4>1 DEF part
    <3>7. Increasing(Append(seen, h)) /\ Elements(Append(seen, h)) = Elements(seen) \union {h}
      BY <1>2, <1>5, <2>1, <2>2, <3>6, AppendOne
    <3>8. Elements(Append(seen, h)) = part'
      BY <1>2, <2>1, <3>4, <3>7
    <3> QED
      BY <1>7, <2>5, <3>3, <3>5, <3>7, <3>8
  <2>8. CASE ~Matches(rpc.filter, h)
    <3>1. rpc' = [rpc EXCEPT !.queue = t]
      BY <2>3, <2>8
    <3>2. /\ rpc' \in RpcStream /\ rpc'.state = "open" /\ rpc'.start = rpc.start /\ rpc'.queue = t
          /\ rpc'.got = rpc.got /\ rpc'.chan = rpc.chan /\ rpc'.filter = rpc.filter
      <4>1. rpc \in RpcStream /\ rpc.state = "open" /\ t \in Seq(Nat)
        BY <1>1, <2>1, <2>2
      <4> QED
        BY <3>1, <4>1 DEF RpcStream
    <3>3. part' = part
      BY <2>5, <2>6, <2>8, <3>2 DEF part
    <3>4. rpc'.got \o rpc'.chan = seen
      BY <3>2 DEF seen
    <3> QED
      BY <1>2, <1>7, <2>1, <2>5, <3>2, <3>3, <3>4
  <2> QED
    BY <2>7, <2>8
<1>12. CASE RpcClientReads
  <2> DEFINE g == Append(rpc.got, Head(rpc.chan))
             t == Tail(rpc.chan)
  <2>1. rpc.chan # <<>> /\ kind' = kind /\ rpc' = [rpc EXCEPT !.got = g, !.chan = t]
    BY <1>12 DEF RpcClientReads
  <2>2. g \in Seq(Nat) /\ t \in Seq(Nat)
    <3>1. Head(rpc.chan) \in Nat /\ t \in Seq(Nat) /\ rpc.got \in Seq(Nat)
      BY <1>1, <2>1, TakeOne
    <3> QED
      BY <3>1
  <2>3. g \o t = seen
    BY <1>1, <2>1, Joined DEF seen
  <2> HIDE DEF g, t
  <2>4. /\ rpc' \in RpcStream /\ rpc'.state = rpc.state /\ rpc'.start = rpc.start
        /\ rpc'.queue = rpc.queue /\ rpc'.got = g /\ rpc'.chan = t /\ rpc'.filter = rpc.filter
    <3>1. rpc \in RpcStream /\ rpc' = [rpc EXCEPT !.got = g, !.chan = t]
      BY <1>1, <2>1
    <3> QED
      BY <2>2, <3>1 DEF RpcStream
  <2>5. Taken' = Taken /\ part' = part
    BY <2>1, <2>4 DEF Taken, part, Matches
  <2>6. CASE rpc.state = "open"
    BY <1>2, <1>7, <2>3, <2>4, <2>5, <2>6
  <2> QED
    BY <1>1, <1>6, <2>1, <2>4, <2>6
<1>13. CASE RpcStreamEnds
  <2>1. rpc' = [rpc EXCEPT !.state = "ended", !.queue = <<>>]
    BY <1>13 DEF RpcStreamEnds
  <2>2. rpc' \in RpcStream /\ rpc'.state = "ended" /\ rpc'.queue = <<>>
    <3>1. rpc \in RpcStream /\ <<>> \in Seq(Nat)
      BY <1>1
    <3> QED
      BY <2>1, <3>1 DEF RpcStream
  <2> QED
    BY <1>6, <2>2
<1> QED
  BY <1>8, <1>9, <1>10, <1>11, <1>12, <1>13, <1>14, <1>15, RpcElsewhere

\* What subscribers get is the stream, in order and without duplicates.  A WS
\* client gets every snapshot of its filter published since it came but those
\* the ring turned over under it and those published while the broadcaster had
\* no Redis connection; a gRPC stream every one its task has taken since its
\* SUBSCRIBE took effect: for any capacity of the ring and of the channel, any
\* pace of the clients and any number of broken connections.
THEOREM SubscribersInOrder == Spec => []SubscribersSeeTheStream
<1>1. Init => SubscriberInv
  <2> SUFFICES ASSUME Init PROVE SubscriberInv
    OBVIOUS
  <2>1. <<>> \o <<>> = <<>> /\ Increasing(<<>>) /\ Elements(<<>>) = {} /\ Len(<<>>) = 0
    BY DEF Increasing, Elements
  <2>2. StreamInv
    BY <2>1 DEF Init, StreamInv
  <2>3. WsInv
    <3>1. ws \in WsClient
      BY DEF Init, NoClient, WsClient
    <3>2. /\ ws.got = <<>> /\ ws.sending = <<>> /\ ws.start = 0 /\ ws.pos = 0 /\ ring = <<>>
      BY DEF Init, NoClient
    <3>3. RingPart(0, ws.pos) = {}
      BY <3>2 DEF RingPart
    <3> QED
      BY <2>1, <3>1, <3>2, <3>3 DEF WsInv
  <2>4. RpcInv
    BY DEF Init, NoStream, RpcStream, RpcInv
  <2> QED
    BY <2>2, <2>3, <2>4 DEF SubscriberInv
<1>2. SubscriberInv /\ [Next]_vars => SubscriberInv'
  BY StreamStep, WsStep, RpcStep DEF SubscriberInv
<1>3. SubscriberInv => SubscribersSeeTheStream
  <2> SUFFICES ASSUME SubscriberInv PROVE SubscribersSeeTheStream
    OBVIOUS
  <2>1. ws.got \in Seq(Nat) /\ ws.sending \in Seq(Nat)
    BY DEF SubscriberInv, WsInv, WsClient
  <2>2. Elements(ws.got) \subseteq Elements(ws.got \o ws.sending)
    BY <2>1, Joined
  <2>3. ASSUME NEW n \in ws.start + 1..Len(kind), Matches(ws.filter, n)
        PROVE  n \in Elements(ws.got \o ws.sending) \union OnItsWay \union ws.skipped \union missed
    <3>1. /\ ws.start \in Nat /\ ws.pos \in Nat /\ ws.pos <= Len(ring)
          /\ \A m \in {x \in RingPart(0, ws.pos) : Matches(ws.filter, x)} :
                m > ws.start => m \in Elements(ws.got \o ws.sending) \union ws.skipped
      BY DEF SubscriberInv, WsInv, WsClient
    <3>2. /\ ring \in Seq(Nat) /\ relay.queue \in Seq(Nat) /\ Len(kind) \in Nat /\ Len(ring) \in Nat
          /\ 1..Len(kind) \subseteq Elements(ring \o relay.queue) \union missed
      BY DEF SubscriberInv, StreamInv
    <3>3. n \in 1..Len(kind) /\ n > ws.start
      BY <3>1, <3>2
    <3>4. Elements(ring \o relay.queue) \subseteq Elements(ring) \union Elements(relay.queue)
      BY <3>2, Joined
    <3>5. CASE n \in Elements(ring)
      <4>1. PICK k \in 1..Len(ring) : n = ring[k]
        BY <3>5 DEF Elements
      <4>2. CASE k <= ws.pos
        <5>1. k \in 0 + 1..ws.pos
          BY <3>1, <3>2, <4>2
        <5>2. n \in RingPart(0, ws.pos)
          BY <4>1, <5>1 DEF RingPart
        <5> QED
          BY <2>3, <3>1, <3>3, <5>2
      <4>3. CASE ~(k <= ws.pos)
        <5>1. k \in ws.pos + 1..Len(ring)
          BY <3>1, <3>2, <4>3
        <5>2. n \in RingPart(ws.pos, Len(ring))
          BY <4>1, <5>1 DEF RingPart
        <5> QED
          BY <5>2 DEF OnItsWay
      <4> QED
        BY <4>2, <4>3
    <3> QED
      BY <3>2, <3>3, <3>4, <3>5 DEF OnItsWay
  <2>4. /\ Increasing(ws.got \o ws.sending) /\ \A n \in Elements(ws.got) : Matches(ws.filter, n)
    BY <2>2 DEF SubscriberInv, WsInv
  <2>5. rpc.state = "open" =>
          Delivers(rpc.got \o rpc.chan,
                   {n \in rpc.start + 1..Len(kind) - Len(rpc.queue) : Matches(rpc.filter, n)})
    BY DEF SubscriberInv, RpcInv, Taken
  <2> QED
    BY <2>3, <2>4, <2>5 DEF SubscribersSeeTheStream
<1> QED
  BY <1>1, <1>2, <1>3, PTL DEF Spec

=============================================================================
