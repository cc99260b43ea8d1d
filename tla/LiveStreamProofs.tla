-------------------------- MODULE LiveStreamProofs --------------------------
(***************************************************************************)
(* TLAPS proofs about the live feed: of an accepted subscription no value  *)
(* is lost, each value reaches the aggregator once and in order, and a     *)
(* bybit symbol keeps its mark price - for any symbols, channel capacity,  *)
(* timers and number of failures of the line.                              *)
(*                                                                         *)
(* The argument is about the pipe: the channel, the frame the supervisor   *)
(* is about to send, and the wire, as one queue from the venue to the      *)
(* shard.  Of each symbol its values never decrease along the pipe, start  *)
(* no lower than the shard's value and end no higher than the venue's.     *)
(***************************************************************************)
EXTENDS LiveStream, SequenceTheorems, TLAPS

USE LiveStreamAssumption

-----------------------------------------------------------------------------
(* The pipe and the invariant.                                             *)

Data == [kind : {"data"}, type : {"snapshot", "delta"}, sym : Symbol, oi : Nat,
         prices : SUBSET Price]
Note == [kind : {"ack", "wsping", "other", "garbage", "close"}]
Frame == Data \union Note

SymbolState == [oi : Nat, known : SUBSET Price]

\* A frame with a value of s.
Val(m, s) == m.kind = "data" /\ m.sym = s /\ m.oi # NoValue

\* Its values of s do not decrease along the queue and lie between two bounds.
Good(q, s, low, high) ==
    /\ low <= high
    /\ \A k \in 1..Len(q) : Val(q[k], s) => low <= q[k].oi /\ q[k].oi <= high
    /\ \A j, k \in 1..Len(q) : j < k /\ Val(q[j], s) /\ Val(q[k], s) => q[j].oi <= q[k].oi

\* The upper bound has been reached, or is in the queue.
Fresh(q, s, low, high) ==
    low = high \/ \E k \in 1..Len(q) : Val(q[k], s) /\ q[k].oi = high

Held == IF pc = "sending" THEN <<blocked>> ELSE <<>>
Pipe == chan \o (Held \o wire)

LiveType ==
    /\ venue \in {"bybit", "okx", "bitget", "hyperliquid"}
    /\ oi \in [Symbol -> Nat] /\ topics \subseteq Symbol /\ subs \subseteq Symbol
    /\ silent \in BOOLEAN
    /\ chan \in Seq(Frame) /\ wire \in Seq(Frame)
    /\ pc = "sending" => blocked \in Frame
    /\ state \in [Symbol -> SymbolState]
    /\ emitted \in [Symbol -> Nat] /\ samples \in [Symbol -> Nat]
    /\ priced \in [Symbol -> {"none", "mark", "last"}]

\* A mark price once used is remembered.
MarkInv ==
    venue = "bybit" => \A s \in Symbol : priced[s] = "mark" => "mark" \in state[s].known

EmittedInv == \A s \in Symbol : emitted[s] = state[s].oi

PipeInv ==
    /\ \A s \in Symbol : Good(Pipe, s, state[s].oi, oi[s])
    /\ \A s \in subs : ~silent => Fresh(Pipe, s, state[s].oi, oi[s])

LiveInv == LiveType /\ MarkInv /\ EmittedInv /\ PipeInv

-----------------------------------------------------------------------------
(* Queues of frames.                                                       *)

LEMMA Values ==
    ASSUME NEW m \in Frame
    PROVE  /\ m.kind = "data" => m \in Data
           /\ \A s : Val(m, s) => m.oi \in Nat
<1>1. ASSUME m \in Note PROVE m.kind # "data"
  BY <1>1 DEF Note
<1>2. ASSUME m \in Data PROVE m.oi \in Nat
  BY <1>2 DEF Data
<1> QED
  BY <1>1, <1>2 DEF Frame, Val

\* A frame at the end of a queue, with the newest value if it has one.
LEMMA PushFrame ==
    ASSUME NEW q \in Seq(Frame), NEW m \in Frame, NEW s,
           NEW low \in Nat, NEW high \in Nat, NEW top \in Nat,
           Good(q, s, low, high), high <= top, Val(m, s) => m.oi = top
    PROVE  /\ Good(Append(q, m), s, low, top)
           /\ Val(m, s) => Fresh(Append(q, m), s, low, top)
           /\ Fresh(q, s, low, high) /\ top = high => Fresh(Append(q, m), s, low, top)
<1> DEFINE r == Append(q, m)
<1>1. /\ Len(q) \in Nat /\ Len(r) = Len(q) + 1 /\ r[Len(q) + 1] = m
      /\ \A k \in 1..Len(q) : r[k] = q[k] /\ q[k] \in Frame
  OBVIOUS
<1>2. \A k \in 1..Len(q) : Val(q[k], s) => q[k].oi \in Nat /\ low <= q[k].oi /\ q[k].oi <= high
  BY <1>1, Values DEF Good
<1> HIDE DEF r
<1>3. ASSUME NEW k \in 1..Len(r) PROVE k = Len(q) + 1 \/ k \in 1..Len(q)
  BY <1>1
<1>4. low <= top
  BY DEF Good
<1>5. ASSUME NEW k \in 1..Len(r), Val(r[k], s) PROVE low <= r[k].oi /\ r[k].oi <= top
  <2>1. CASE k = Len(q) + 1
    BY <1>1, <1>4, <1>5, <2>1
  <2>2. CASE k \in 1..Len(q)
    BY <1>1, <1>2, <1>5, <2>2
  <2> QED
    BY <1>3, <2>1, <2>2
<1>6. ASSUME NEW j \in 1..Len(r), NEW k \in 1..Len(r), j < k, Val(r[j], s), Val(r[k], s)
      PROVE  r[j].oi <= r[k].oi
  <2>1. j \in 1..Len(q)
    BY <1>1, <1>6
  <2>2. CASE k = Len(q) + 1
    BY <1>1, <1>2, <1>6, <2>1, <2>2
  <2>3. CASE k \in 1..Len(q)
    BY <1>1, <1>6, <2>1, <2>3 DEF Good
  <2> QED
    BY <1>3, <2>2, <2>3
<1>7. Good(r, s, low, top)
  BY <1>4, <1>5, <1>6 DEF Good
<1>8. Len(q) + 1 \in 1..Len(r) /\ \A k \in 1..Len(q) : k \in 1..Len(r)
  BY <1>1
<1>9. Val(m, s) => Fresh(r, s, low, top)
  BY <1>1, <1>8 DEF Fresh
<1>10. Fresh(q, s, low, high) /\ top = high => Fresh(r, s, low, top)
  BY <1>1, <1>8 DEF Fresh
<1> QED
  BY <1>7, <1>9, <1>10 DEF r

\* The frames of r are frames of q in the same order.
LEMMA Selected ==
    ASSUME NEW q, NEW r, NEW s, NEW low \in Nat, NEW high \in Nat,
           NEW f \in [1..Len(r) -> 1..Len(q)],
           \A j, k \in 1..Len(r) : j < k => f[j] < f[k],
           \A k \in 1..Len(r) : r[k] = q[f[k]],
           Good(q, s, low, high)
    PROVE  Good(r, s, low, high)
<1>1. \A k \in 1..Len(r) : f[k] \in 1..Len(q)
  OBVIOUS
<1> QED
  BY <1>1 DEF Good

\* The first frame leaves; its value, if it has one, is the new lower bound.
LEMMA TakeFrame ==
    ASSUME NEW q \in Seq(Frame), q # <<>>, NEW s, NEW low \in Nat, NEW high \in Nat,
           Good(q, s, low, high), NEW new, new = IF Val(Head(q), s) THEN Head(q).oi ELSE low
    PROVE  /\ new \in Nat /\ low <= new
           /\ Good(Tail(q), s, new, high)
           /\ Fresh(q, s, low, high) => Fresh(Tail(q), s, new, high)
<1> DEFINE r == Tail(q)
<1>1. /\ Len(q) \in Nat \ {0} /\ Len(r) = Len(q) - 1 /\ Head(q) = q[1] /\ q[1] \in Frame
      /\ \A k \in 1..Len(r) : r[k] = q[k + 1]
  OBVIOUS
<1>2. \A k \in 1..Len(r) : k + 1 \in 1..Len(q) /\ 1 < k + 1
  BY <1>1
<1>3. 1 \in 1..Len(q)
  BY <1>1
<1> HIDE DEF r
<1>4. new \in Nat /\ low <= new /\ new <= high
  <2>1. CASE Val(q[1], s)
    BY <1>1, <1>3, <2>1, Values DEF Good
  <2>2. CASE ~Val(q[1], s)
    BY <1>1, <2>2 DEF Good
  <2> QED
    BY <2>1, <2>2
<1>5. ASSUME NEW k \in 1..Len(r), Val(r[k], s) PROVE new <= r[k].oi /\ r[k].oi <= high
  <2>1. Val(q[k + 1], s) /\ k + 1 \in 1..Len(q) /\ 1 < k + 1 /\ r[k].oi = q[k + 1].oi
    BY <1>1, <1>2, <1>5
  <2>2. CASE Val(q[1], s)
    BY <1>1, <1>3, <2>1, <2>2 DEF Good
  <2>3. CASE ~Val(q[1], s)
    BY <1>1, <2>1, <2>3 DEF Good
  <2> QED
    BY <2>2, <2>3
<1>6. ASSUME NEW j \in 1..Len(r), NEW k \in 1..Len(r), j < k, Val(r[j], s), Val(r[k], s)
      PROVE  r[j].oi <= r[k].oi
  <2>1. j + 1 \in 1..Len(q) /\ k + 1 \in 1..Len(q) /\ j + 1 < k + 1
    BY <1>2, <1>6
  <2> QED
    BY <1>1, <1>6, <2>1 DEF Good
<1>7. Good(r, s, new, high)
  BY <1>4, <1>5, <1>6 DEF Good
<1>8. ASSUME Fresh(q, s, low, high) PROVE Fresh(r, s, new, high)
  <2>1. CASE low = high
    BY <1>4, <2>1 DEF Fresh
  <2>2. CASE \E k \in 1..Len(q) : Val(q[k], s) /\ q[k].oi = high
    <3>1. PICK k \in 1..Len(q) : Val(q[k], s) /\ q[k].oi = high
      BY <2>2
    <3>2. CASE k = 1
      BY <1>1, <3>1, <3>2 DEF Fresh
    <3>3. CASE k # 1
      <4>1. k - 1 \in 1..Len(r) /\ r[k - 1] = q[k]
        BY <1>1, <3>3
      <4> QED
        BY <3>1, <4>1 DEF Fresh
    <3> QED
      BY <3>2, <3>3
  <2> QED
    BY <1>8, <2>1, <2>2 DEF Fresh
<1> QED
  BY <1>4, <1>7, <1>8 DEF r

\* The wire is cut: what is left is the front of the pipe.
LEMMA CutFrames ==
    ASSUME NEW a \in Seq(Frame), NEW b \in Seq(Frame), NEW s, NEW low \in Nat, NEW high \in Nat,
           Good(a \o b, s, low, high)
    PROVE  Good(a, s, low, high)
<1>1. Len(a) \in Nat /\ Len(a \o b) \in Nat /\ Len(a) <= Len(a \o b)
      /\ \A k \in 1..Len(a) : (a \o b)[k] = a[k]
  OBVIOUS
<1> DEFINE f == [k \in 1..Len(a) |-> k]
<1>2. f \in [1..Len(a) -> 1..Len(a \o b)]
  BY <1>1
<1> QED
  BY <1>1, <1>2, Selected

\* A frame without a value is taken out of the middle.
LEMMA DropFrame ==
    ASSUME NEW a \in Seq(Frame), NEW b \in Seq(Frame), b # <<>>, NEW s,
           NEW low \in Nat, NEW high \in Nat, Good(a \o b, s, low, high), ~Val(Head(b), s)
    PROVE  /\ Good(a \o Tail(b), s, low, high)
           /\ Fresh(a \o b, s, low, high) => Fresh(a \o Tail(b), s, low, high)
<1> DEFINE q == a \o b
           t == Tail(b)
           r == a \o t
           n == Len(a)
           f == [k \in 1..Len(r) |-> IF k <= n THEN k ELSE k + 1]
<1>1. /\ n \in Nat /\ Len(b) \in Nat \ {0} /\ t \in Seq(Frame) /\ Len(t) = Len(b) - 1
      /\ Head(b) = b[1] /\ \A k \in 1..Len(t) : t[k] = b[k + 1]
  OBVIOUS
<1>2. /\ Len(q) = n + Len(b)
      /\ \A k \in 1..Len(q) : q[k] = IF k <= n THEN a[k] ELSE b[k - n]
  BY <1>1, ConcatProperties
<1>3. /\ Len(r) = n + Len(b) - 1
      /\ \A k \in 1..Len(r) : r[k] = IF k <= n THEN a[k] ELSE t[k - n]
  BY <1>1, ConcatProperties
<1> HIDE DEF q, t, r, n
<1>4. ASSUME NEW k \in 1..Len(r)
      PROVE  f[k] \in 1..Len(q) /\ r[k] = q[f[k]]
  <2>1. CASE k <= n
    BY <1>1, <1>2, <1>3, <2>1
  <2>2. CASE k > n
    <3>1. k - n \in 1..Len(t) /\ k + 1 \in 1..Len(q) /\ ~(k + 1 <= n) /\ k - n + 1 = k + 1 - n
      BY <1>1, <1>2, <1>3, <2>2
    <3>2. t[k - n] = b[k + 1 - n]
      BY <1>1, <3>1
    <3>3. f[k] = k + 1
      BY <1>1, <1>3, <2>2
    <3> QED
      BY <1>1, <1>2, <1>3, <2>2, <3>1, <3>2, <3>3
  <2> QED
    BY <1>1, <2>1, <2>2
<1>5. \A j, k \in 1..Len(r) : j < k => f[j] < f[k]
  BY <1>1, <1>3
<1>6. f \in [1..Len(r) -> 1..Len(q)]
  BY <1>4
<1> HIDE DEF f
<1>7. Good(r, s, low, high)
  BY <1>4, <1>5, <1>6, Selected DEF q
<1>8. ASSUME Fresh(q, s, low, high) PROVE Fresh(r, s, low, high)
  <2>1. CASE low = high
    BY <2>1 DEF Fresh
  <2>2. CASE \E k \in 1..Len(q) : Val(q[k], s) /\ q[k].oi = high
    <3>1. PICK k \in 1..Len(q) : Val(q[k], s) /\ q[k].oi = high
      BY <2>2
    <3>2. k # n + 1
      BY <1>1, <1>2, <3>1
    <3>3. CASE k <= n
      <4>1. k \in 1..Len(r) /\ r[k] = q[k]
        BY <1>1, <1>2, <1>3, <3>3
      <4> QED
        BY <3>1, <4>1 DEF Fresh
    <3>4. CASE k > n + 1
      <4>1. k - 1 \in 1..Len(r) /\ ~(k - 1 <= n) /\ k - 1 - n \in 1..Len(t) /\ k - 1 - n + 1 = k - n
        BY <1>1, <1>2, <1>3, <3>4
      <4>2. r[k - 1] = t[k - 1 - n] /\ t[k - 1 - n] = b[k - n]
        BY <1>1, <1>3, <4>1
      <4>3. q[k] = b[k - n]
        BY <1>1, <1>2, <3>4
      <4> QED
        BY <3>1, <4>1, <4>2, <4>3 DEF Fresh
    <3> QED
      BY <1>1, <3>2, <3>3, <3>4
  <2> QED
    BY <1>8, <2>1, <2>2 DEF Fresh
<1> QED
  BY <1>7, <1>8 DEF q, r, t

-----------------------------------------------------------------------------
(* The shard.                                                              *)

\* What every shard makes of a frame with data: the symbol takes the frame's
\* value if there is one, and a sample is emitted exactly if that changed it.
LEMMA ShardStep ==
    ASSUME LiveType, NEW m \in Data
    PROVE  /\ Shard(m).st \in SymbolState
           /\ Shard(m).st.oi = IF m.oi # NoValue THEN m.oi ELSE state[m.sym].oi
           /\ Shard(m).emit <=> Shard(m).st.oi # state[m.sym].oi
           /\ Shard(m).price \in {"none", "mark", "last"}
           /\ venue = "bybit" => /\ state[m.sym].known \subseteq Shard(m).st.known
                                 /\ "mark" \in Shard(m).st.known => Shard(m).price = "mark"
                                 /\ Shard(m).price = "mark" => "mark" \in Shard(m).st.known
<1>1. /\ m.sym \in Symbol /\ m.oi \in Nat /\ m.prices \subseteq Price
      /\ state[m.sym] \in SymbolState
      /\ state[m.sym].oi \in Nat /\ state[m.sym].known \subseteq Price
  BY DEF Data, LiveType, SymbolState
<1>2. CASE venue = "bybit"
  <2> DEFINE st == Merge(state[m.sym], m)
  <2>1. /\ st \in SymbolState /\ st.known = state[m.sym].known \union m.prices
        /\ st.oi = IF m.oi # NoValue THEN m.oi ELSE state[m.sym].oi
    BY <1>1 DEF Merge, SymbolState
  <2>2. /\ Shard(m).st = st /\ Shard(m).price = PriceOf(st)
        /\ Shard(m).emit <=> st.oi # state[m.sym].oi
    BY <1>2 DEF Shard, BybitShard
  <2> HIDE DEF st
  <2>3. PriceOf(st) = IF "mark" \in st.known THEN "mark" ELSE IF "last" \in st.known THEN "last" ELSE "none"
    BY DEF PriceOf
  <2> QED
    BY <2>1, <2>2, <2>3
<1>3. CASE venue # "bybit"
  <2>1. PICK upd \in [oi : Nat, price : {"none", "mark", "last"}] :
           upd.oi = m.oi /\ Shard(m) = EmitOnChange(m.sym, upd)
    <3>1. CASE venue = "okx"
      BY <1>1, <3>1 DEF Shard, OkxShard, OkxExtract
    <3>2. CASE venue = "bitget"
      BY <1>1, <3>2 DEF Shard, BitgetShard, BitgetExtract
    <3>3. CASE venue = "hyperliquid"
      BY <1>1, <3>3 DEF Shard, HyperliquidShard, HyperliquidExtract
    <3> QED
      BY <1>3, <3>1, <3>2, <3>3 DEF LiveType
  <2> DEFINE res == EmitOnChange(m.sym, upd)
  <2>2. /\ res.st = IF upd.oi = NoValue THEN state[m.sym] ELSE [state[m.sym] EXCEPT !.oi = upd.oi]
        /\ res.price = upd.price
    BY DEF EmitOnChange
  <2>3. res.emit <=> upd.oi \notin {NoValue, state[m.sym].oi}
    BY DEF EmitOnChange
  <2>4. Shard(m) = res
    BY <2>1
  <2> HIDE DEF res
  <2>5. /\ res.st \in SymbolState
        /\ res.st.oi = IF m.oi # NoValue THEN m.oi ELSE state[m.sym].oi
    BY <1>1, <2>1, <2>2 DEF SymbolState
  <2>6. res.emit <=> res.st.oi # state[m.sym].oi
    BY <1>1, <2>1, <2>3, <2>5
  <2>7. res.price \in {"none", "mark", "last"}
    BY <2>1, <2>2
  <2> QED
    BY <1>3, <2>4, <2>5, <2>6, <2>7
<1> QED
  BY <1>2, <1>3

-----------------------------------------------------------------------------
(* The steps.                                                              *)

LEMMA PipeType ==
    ASSUME LiveType
    PROVE  /\ chan \in Seq(Frame) /\ wire \in Seq(Frame) /\ Held \in Seq(Frame)
           /\ Held \o wire \in Seq(Frame) /\ Pipe \in Seq(Frame)
           /\ \A s \in Symbol : state[s].oi \in Nat /\ oi[s] \in Nat
<1>1. chan \in Seq(Frame) /\ wire \in Seq(Frame) /\ Held \in Seq(Frame)
  BY DEF LiveType, Held
<1>2. Held \o wire \in Seq(Frame)
  BY <1>1, ConcatProperties
<1>3. Pipe \in Seq(Frame)
  BY <1>1, <1>2, ConcatProperties DEF Pipe
<1>4. \A s \in Symbol : state[s].oi \in Nat /\ oi[s] \in Nat
  BY DEF LiveType, SymbolState
<1> QED
  BY <1>1, <1>2, <1>3, <1>4

\* A step that leaves the shard alone needs to be looked at for the pipe only.
LEMMA Kept ==
    ASSUME LiveInv, LiveType', UNCHANGED <<venue, state, emitted, priced>>,
           NEW q, Pipe' = q,
           \A s \in Symbol : Good(q, s, state[s].oi, oi'[s]),
           \A s \in subs' : ~silent' => Fresh(q, s, state[s].oi, oi'[s])
    PROVE  LiveInv'
<1>1. MarkInv' /\ EmittedInv'
  BY DEF LiveInv, MarkInv, EmittedInv
<1>2. PipeInv'
  BY DEF PipeInv, Good, Fresh, Val
<1> QED
  BY <1>1, <1>2 DEF LiveInv

\* Nothing moves in the pipe.
LEMMA StillStep ==
    ASSUME LiveInv,
           \/ LiveTask \/ Wake \/ Connect \/ Subscribed \/ PingTick \/ Tick \/ Published
           \/ (\E s \in Symbol : OnConnect(s)) \/ UNCHANGED vars
    PROVE  LiveInv'
<1> USE DEF market, calls, link, timers, shard
<1>1. /\ UNCHANGED <<venue, oi, subs, wire, silent, blocked, chan, state, emitted, priced, samples>>
      /\ topics' = topics \/ topics' \subseteq Symbol
      /\ pc' = pc \/ (pc # "sending" /\ pc' # "sending")
  BY DEF LiveTask, SpawnLive, Wake, Connect, Subscribed, PingTick, Tick, Published,
         OnConnect, vars
<1>2. Held' = Held
  BY <1>1 DEF Held
<1>3. Pipe' = Pipe
  BY <1>1, <1>2 DEF Pipe
<1>4. LiveType'
  BY <1>1 DEF LiveInv, LiveType
<1>6. /\ \A s \in Symbol : Good(Pipe, s, state[s].oi, oi'[s])
      /\ \A s \in subs' : ~silent' => Fresh(Pipe, s, state[s].oi, oi'[s])
  <2>1. oi' = oi /\ subs' = subs /\ silent' = silent /\ PipeInv
    BY <1>1 DEF LiveInv
  <2> QED
    BY <2>1 DEF PipeInv
<1> QED
  BY <1>1, <1>3, <1>4, <1>6, Kept

\* A frame enters the wire at the venue's end.
LEMMA WirePushed ==
    ASSUME LiveType, NEW m \in Frame, wire' = Append(wire, m), UNCHANGED <<pc, blocked, chan>>
    PROVE  Pipe' = Append(Pipe, m)
<1>1. Held' = Held
  BY DEF Held
<1>2. \A a \in Seq(Frame), b \in Seq(Frame) : a \o Append(b, m) = Append(a \o b, m)
  OBVIOUS
<1>3. Held \o Append(wire, m) = Append(Held \o wire, m)
  BY <1>2, PipeType
<1>4. chan \o Append(Held \o wire, m) = Append(chan \o (Held \o wire), m)
  BY <1>2, PipeType
<1> QED
  BY <1>1, <1>3, <1>4 DEF Pipe

LEMMA AcceptStep == ASSUME LiveInv, NEW u \in Symbol, VenueAccepts(u) PROVE LiveInv'
<1> USE DEF market, calls, link, timers, shard
<1>1. PICK prices \in SUBSET Price : wire' = Append(wire, Push(u, "snapshot", prices))
  BY DEF VenueAccepts, Quoted, Price
<1> DEFINE m == Push(u, "snapshot", prices)
<1>2. /\ UNCHANGED <<venue, oi, pc, topics, silent, blocked, chan, state, emitted, priced, samples>>
      /\ subs' = subs \union {u}
  BY DEF VenueAccepts
<1>3. m \in Frame /\ m.kind = "data" /\ m.sym = u /\ m.oi = oi[u]
  BY DEF Push, Frame, Data, LiveInv, LiveType
<1> HIDE DEF m
<1>4. LiveType /\ PipeInv
  BY DEF LiveInv
<1>5. Pipe' = Append(Pipe, m)
  BY <1>1, <1>2, <1>3, <1>4, WirePushed DEF m
<1>6. LiveType'
  <2>1. wire' \in Seq(Frame)
    BY <1>1, <1>3, <1>4 DEF m, LiveType
  <2> QED
    BY <1>2, <1>4, <2>1 DEF LiveType
<1>8. ASSUME NEW s \in Symbol
      PROVE  /\ Good(Append(Pipe, m), s, state[s].oi, oi[s])
             /\ s \in subs' /\ ~silent' => Fresh(Append(Pipe, m), s, state[s].oi, oi[s])
  <2>1. Good(Pipe, s, state[s].oi, oi[s]) /\ (s \in subs /\ ~silent => Fresh(Pipe, s, state[s].oi, oi[s]))
    BY <1>4 DEF PipeInv
  <2>2. Val(m, s) => m.oi = oi[s]
    BY <1>3 DEF Val
  <2>3. Pipe \in Seq(Frame) /\ state[s].oi \in Nat /\ oi[s] \in Nat /\ oi[s] <= oi[s]
    BY <1>4, PipeType
  <2>4. /\ Good(Append(Pipe, m), s, state[s].oi, oi[s])
        /\ Val(m, s) => Fresh(Append(Pipe, m), s, state[s].oi, oi[s])
        /\ Fresh(Pipe, s, state[s].oi, oi[s]) => Fresh(Append(Pipe, m), s, state[s].oi, oi[s])
    BY <1>3, <2>1, <2>2, <2>3, PushFrame
  <2>5. CASE s = u
    <3>1. oi[u] = 0 => state[u].oi = oi[u]
      BY <2>1, <2>3, <2>5 DEF Good
    <3>2. oi[u] # 0 => Val(m, s)
      BY <1>3, <2>5 DEF Val, NoValue
    <3> QED
      BY <2>4, <2>5, <3>1, <3>2 DEF Fresh
  <2>6. CASE s # u
    BY <1>2, <2>1, <2>4, <2>6
  <2> QED
    BY <2>5, <2>6
<1>9. subs' \subseteq Symbol
  BY <1>6 DEF LiveType
<1> QED
  BY <1>2, <1>5, <1>6, <1>8, <1>9, Kept

\* A frame without a value changes nothing but the pipe's length.
LEMMA NoteStep ==
    ASSUME LiveInv, NEW m \in Frame, \A s : ~Val(m, s), wire' = Append(wire, m),
           UNCHANGED <<venue, oi, pc, topics, subs, silent, blocked, chan, state, emitted, priced,
                       samples>>
    PROVE  LiveInv'
<1>1. LiveType /\ PipeInv
  BY DEF LiveInv
<1>2. Pipe' = Append(Pipe, m)
  BY <1>1, WirePushed
<1>3. LiveType'
  <2>1. wire' \in Seq(Frame)
    BY <1>1 DEF LiveType
  <2> QED
    BY <1>1, <2>1 DEF LiveType
<1>4. ASSUME NEW s \in Symbol
      PROVE  /\ Good(Append(Pipe, m), s, state[s].oi, oi[s])
             /\ s \in subs' /\ ~silent' => Fresh(Append(Pipe, m), s, state[s].oi, oi[s])
  <2>1. Good(Pipe, s, state[s].oi, oi[s]) /\ (s \in subs /\ ~silent => Fresh(Pipe, s, state[s].oi, oi[s]))
    BY <1>1 DEF PipeInv
  <2>2. Pipe \in Seq(Frame) /\ state[s].oi \in Nat /\ oi[s] \in Nat /\ oi[s] <= oi[s]
    BY <1>1, PipeType
  <2>3. /\ Good(Append(Pipe, m), s, state[s].oi, oi[s])
        /\ Fresh(Pipe, s, state[s].oi, oi[s]) => Fresh(Append(Pipe, m), s, state[s].oi, oi[s])
    BY <2>1, <2>2, PushFrame
  <2> QED
    BY <2>1, <2>3
<1>5. subs' \subseteq Symbol
  BY <1>3 DEF LiveType
<1> QED
  BY <1>2, <1>3, <1>4, <1>5, Kept

LEMMA RefuseStep == ASSUME LiveInv, NEW u \in Symbol, VenueRefuses(u) PROVE LiveInv'
<1>1. [kind |-> "ack"] \in Frame /\ \A s : ~Val([kind |-> "ack"], s)
  BY DEF Frame, Note, Val
<1> QED
  BY <1>1, NoteStep DEF VenueRefuses, market, timers, shard

LEMMA ChatterStep == ASSUME LiveInv, Chatter PROVE LiveInv'
<1> USE DEF market, calls, link, timers, shard
<1>1. UNCHANGED <<venue, oi, pc, topics, subs, silent, blocked, chan, state, emitted, priced, samples>>
  BY DEF Chatter
<1>2. LiveType /\ PipeInv /\ wire = <<>>
  BY DEF LiveInv, Chatter
<1>3. PICK m \in Frame : wire' = <<m>> /\ \A s : ~Val(m, s)
  <2>0. PICK q \in SUBSET Price : q = UNION Quoted
    BY DEF Quoted, Price
  <2>1. ASSUME NEW s \in subs,
               wire' = <<[Push(s, "delta", UNION Quoted) EXCEPT !.oi = NoValue]>>
        PROVE  \E m \in Frame : wire' = <<m>> /\ \A x : ~Val(m, x)
    <3> DEFINE m == [kind |-> "data", type |-> "delta", sym |-> s, oi |-> NoValue,
                     prices |-> q]
    <3>1. [Push(s, "delta", q) EXCEPT !.oi = NoValue] = m
      BY DEF Push
    <3>2. m \in Frame
      BY <1>2 DEF Frame, Data, LiveType, NoValue
    <3>3. \A x : ~Val(m, x)
      BY DEF Val
    <3> QED
      BY <2>0, <2>1, <3>1, <3>2, <3>3
  <2>2. ASSUME NEW k \in {"ack", "wsping", "other", "garbage", "close"}, wire' = <<[kind |-> k]>>
        PROVE  \E m \in Frame : wire' = <<m>> /\ \A x : ~Val(m, x)
    <3>1. [kind |-> k] \in Frame
      BY DEF Frame, Note
    <3>2. \A x : ~Val([kind |-> k], x)
      BY DEF Val
    <3> QED
      BY <2>2, <3>1, <3>2
  <2> QED
    BY <2>1, <2>2 DEF Chatter
<1>4. wire' = Append(wire, m)
  BY <1>2, <1>3
<1> QED
  BY <1>1, <1>3, <1>4, NoteStep

LEMMA UpdateStep == ASSUME LiveInv, NEW u \in Symbol, VenueUpdate(u) PROVE LiveInv'
<1> USE DEF market, calls, link, timers, shard
<1>1. /\ UNCHANGED <<venue, pc, topics, subs, silent, blocked, chan, state, emitted, priced, samples>>
      /\ oi' = [oi EXCEPT ![u] = @ + 1]
      /\ wire' = IF u \in subs /\ ~silent
                 THEN Append(wire, [Push(u, "delta", {}) EXCEPT !.oi = oi'[u]]) ELSE wire
  BY DEF VenueUpdate
<1>2. LiveType /\ PipeInv
  BY DEF LiveInv
<1>3. /\ oi' \in [Symbol -> Nat] /\ oi'[u] = oi[u] + 1 /\ oi[u] \in Nat
      /\ \A s \in Symbol : s # u => oi'[s] = oi[s]
  BY <1>1, <1>2 DEF LiveType
<1>5. Pipe \in Seq(Frame) /\ \A s \in Symbol : /\ state[s].oi \in Nat /\ oi[s] \in Nat
                                               /\ oi'[s] \in Nat /\ oi[s] <= oi'[s]
  <2>1. Pipe \in Seq(Frame) /\ \A s \in Symbol : state[s].oi \in Nat /\ oi[s] \in Nat
    BY <1>2, PipeType
  <2>2. \A s \in Symbol : oi'[s] \in Nat /\ oi[s] <= oi'[s]
    BY <1>3, <2>1
  <2> QED
    BY <2>1, <2>2
<1>6. CASE u \in subs /\ ~silent
  <2> DEFINE m == [kind |-> "data", type |-> "delta", sym |-> u, oi |-> oi'[u], prices |-> {}]
  <2>1. wire' = Append(wire, m)
    <3>1. [Push(u, "delta", {}) EXCEPT !.oi = oi'[u]] = m
      BY DEF Push
    <3> QED
      BY <1>1, <1>6, <3>1
  <2>2. m \in Frame /\ m.kind = "data" /\ m.sym = u /\ m.oi = oi'[u]
    BY <1>3 DEF Frame, Data
  <2> HIDE DEF m
  <2>3. Pipe' = Append(Pipe, m)
    BY <1>1, <1>2, <2>1, <2>2, WirePushed
  <2>4. LiveType'
    <3>1. wire' \in Seq(Frame)
      BY <1>2, <2>1, <2>2 DEF LiveType
    <3> QED
      BY <1>1, <1>2, <1>3, <3>1 DEF LiveType
  <2>5. ASSUME NEW s \in Symbol
        PROVE  /\ Good(Append(Pipe, m), s, state[s].oi, oi'[s])
               /\ s \in subs /\ ~silent => Fresh(Append(Pipe, m), s, state[s].oi, oi'[s])
    <3>1. Good(Pipe, s, state[s].oi, oi[s]) /\ (s \in subs /\ ~silent => Fresh(Pipe, s, state[s].oi, oi[s]))
      BY <1>2 DEF PipeInv
    <3>2. Val(m, s) => m.oi = oi'[s]
      BY <2>2 DEF Val
    <3>3. /\ Good(Append(Pipe, m), s, state[s].oi, oi'[s])
          /\ Val(m, s) => Fresh(Append(Pipe, m), s, state[s].oi, oi'[s])
          /\ Fresh(Pipe, s, state[s].oi, oi[s]) /\ oi'[s] = oi[s]
                => Fresh(Append(Pipe, m), s, state[s].oi, oi'[s])
      BY <1>5, <2>2, <3>1, <3>2, PushFrame
    <3>4. s = u => Val(m, s)
      BY <1>3, <2>2 DEF Val, NoValue
    <3> QED
      BY <1>3, <3>1, <3>3, <3>4
  <2>6. subs' = subs /\ silent' = silent /\ subs \subseteq Symbol
    BY <1>1, <1>2 DEF LiveType
  <2>7. \A s \in subs' : ~silent' => Fresh(Append(Pipe, m), s, state[s].oi, oi'[s])
    BY <2>5, <2>6
  <2>8. \A s \in Symbol : Good(Append(Pipe, m), s, state[s].oi, oi'[s])
    BY <2>5
  <2> QED
    BY <1>1, <2>3, <2>4, <2>7, <2>8, Kept, Zenon
<1>7. CASE ~(u \in subs /\ ~silent)
  <2>1. wire' = wire
    BY <1>1, <1>7
  <2>2. Pipe' = Pipe
    BY <1>1, <2>1 DEF Pipe, Held
  <2>3. LiveType'
    BY <1>1, <1>2, <1>3, <2>1 DEF LiveType
  <2>4. ASSUME NEW s \in Symbol PROVE Good(Pipe, s, state[s].oi, oi'[s])
    <3>1. Good(Pipe, s, state[s].oi, oi[s])
      BY <1>2 DEF PipeInv
    <3>2. \A k \in 1..Len(Pipe) : Val(Pipe[k], s) => Pipe[k].oi \in Nat
      BY <1>5, Values
    <3> QED
      BY <1>5, <3>1, <3>2 DEF Good
  <2>5. ASSUME NEW s \in subs', ~silent' PROVE Fresh(Pipe, s, state[s].oi, oi'[s])
    <3>1. s \in subs /\ ~silent
      BY <1>1, <2>5
    <3>2. s # u /\ s \in Symbol
      BY <1>2, <1>7, <3>1 DEF LiveType
    <3>3. Fresh(Pipe, s, state[s].oi, oi[s])
      BY <1>2, <3>1 DEF PipeInv
    <3> QED
      BY <1>3, <3>2, <3>3
  <2> QED
    BY <1>1, <2>2, <2>3, <2>4, <2>5, Kept
<1> QED
  BY <1>6, <1>7

\* The connection is gone, and with it what was unread on the wire.
LEMMA CutStep ==
    ASSUME LiveInv, pc # "sending", pc' # "sending", wire' = <<>>, silent' \in BOOLEAN,
           subs' = {} \/ (silent' /\ subs' = subs),
           UNCHANGED <<venue, oi, topics, blocked, chan, state, emitted, priced, samples>>
    PROVE  LiveInv'
<1>1. subs' = {} \/ (silent' /\ subs' = subs)
  OBVIOUS
<1>2. LiveType /\ PipeInv
  BY DEF LiveInv
<1>3. LiveType'
  <2>1. wire' \in Seq(Frame)
    BY <1>1
  <2> QED
    BY <1>1, <1>2, <2>1 DEF LiveType
<1>5. Pipe' = chan
  <2>1. Held' = <<>>
    BY <1>1 DEF Held
  <2>2. <<>> \o <<>> = <<>> /\ chan \o <<>> = chan
    BY <1>2 DEF LiveType
  <2> QED
    BY <1>1, <2>1, <2>2 DEF Pipe
<1>6. ASSUME NEW s \in Symbol PROVE Good(chan, s, state[s].oi, oi'[s])
  <2>1. Good(chan \o (Held \o wire), s, state[s].oi, oi[s])
    BY <1>2 DEF PipeInv, Pipe
  <2>2. /\ chan \in Seq(Frame) /\ Held \o wire \in Seq(Frame)
        /\ state[s].oi \in Nat /\ oi[s] \in Nat
    BY <1>2, PipeType
  <2> QED
    BY <2>1, <2>2, CutFrames
<1> QED
  BY <1>1, <1>3, <1>5, <1>6, Kept

LEMMA ReconnectStep ==
    ASSUME LiveInv, pc # "sending", Reconnect,
           UNCHANGED <<venue, oi, blocked, chan, state, emitted, priced, samples>>
    PROVE  LiveInv'
BY CutStep DEF Reconnect

LEMMA SilentStep == ASSUME LiveInv, GoesSilent PROVE LiveInv'
BY CutStep DEF GoesSilent, market, calls, link, shard

\* The supervisor reads a message.
LEMMA ReadStep == ASSUME LiveInv, ReadMessage PROVE LiveInv'
<1> USE DEF market, calls, link, timers, shard
<1> DEFINE m == Head(wire)
<1>1. /\ pc = "open" /\ wire # <<>>
      /\ UNCHANGED <<venue, oi, chan, state, emitted, priced, samples>>
  BY DEF ReadMessage
<1>2. LiveType /\ PipeInv
  BY DEF LiveInv
<1>3. m \in Frame /\ Tail(wire) \in Seq(Frame) /\ <<m>> \o Tail(wire) = wire
  BY <1>1, <1>2 DEF LiveType
<1>4. Held = <<>> /\ <<>> \o wire = wire
  BY <1>1, <1>2 DEF Held, LiveType
<1>5. Pipe = chan \o wire
  BY <1>4 DEF Pipe
<1>6. CASE /\ m.kind = "close" \/ (m.kind # "wsping" /\ OnMessage(m) = "err")
           /\ Reconnect /\ UNCHANGED blocked
  BY <1>1, <1>6, ReconnectStep
<1>7. CASE /\ m.kind = "wsping" \/ (m.kind # "close" /\ OnMessage(m) = "none")
           /\ wire' = Tail(wire) /\ quiet' = 0
           /\ UNCHANGED <<pc, topics, calls, silent, sincePing, wait, delay, blocked>>
  <2>1. m.kind # "data"
    BY <1>7 DEF OnMessage, BybitOnMessage, OkxOnMessage, BitgetOnMessage, HyperliquidOnMessage
  <2>2. LiveType'
    <3>1. wire' \in Seq(Frame)
      BY <1>3, <1>7
    <3> QED
      BY <1>1, <1>2, <1>7, <3>1 DEF LiveType
  <2>4. Pipe' = chan \o Tail(wire)
    <3>1. Held' = <<>> /\ <<>> \o Tail(wire) = Tail(wire)
      BY <1>1, <1>3, <1>7 DEF Held
    <3> QED
      BY <1>1, <1>7, <3>1 DEF Pipe
  <2> HIDE DEF m
  <2>5. ASSUME NEW s \in Symbol
        PROVE  /\ Good(chan \o Tail(wire), s, state[s].oi, oi[s])
               /\ s \in subs /\ ~silent => Fresh(chan \o Tail(wire), s, state[s].oi, oi[s])
    <3>1. /\ Good(chan \o wire, s, state[s].oi, oi[s])
          /\ s \in subs /\ ~silent => Fresh(chan \o wire, s, state[s].oi, oi[s])
      BY <1>2, <1>5 DEF PipeInv
    <3>2. chan \in Seq(Frame) /\ wire \in Seq(Frame) /\ state[s].oi \in Nat /\ oi[s] \in Nat
      BY <1>2, PipeType
    <3>3. ~Val(Head(wire), s)
      BY <2>1 DEF Val, m
    <3> QED
      BY <1>1, <3>1, <3>2, <3>3, DropFrame
  <2>6. subs' = subs /\ silent' = silent /\ oi' = oi /\ subs \subseteq Symbol
    BY <1>1, <1>2, <1>7 DEF LiveType
  <2> QED
    BY <1>1, <2>2, <2>4, <2>5, <2>6, Kept
<1>8. CASE /\ m.kind \notin {"wsping", "close"} /\ OnMessage(m) \in {"payload", "raw"}
           /\ wire' = Tail(wire) /\ blocked' = m /\ pc' = "sending" /\ quiet' = 0
           /\ UNCHANGED <<topics, calls, silent, sincePing, wait, delay>>
  <2>1. LiveType'
    <3>1. wire' \in Seq(Frame) /\ blocked' \in Frame
      BY <1>3, <1>8
    <3> QED
      BY <1>1, <1>2, <1>8, <3>1 DEF LiveType
  <2>3. Pipe' = Pipe
    <3>1. Held' = <<m>>
      BY <1>8 DEF Held
    <3>2. Pipe' = chan \o (<<m>> \o Tail(wire))
      BY <1>1, <1>8, <3>1 DEF Pipe
    <3> QED
      BY <1>3, <1>5, <3>2
  <2>4. /\ \A s \in Symbol : Good(Pipe, s, state[s].oi, oi'[s])
        /\ \A s \in subs' : ~silent' => Fresh(Pipe, s, state[s].oi, oi'[s])
    BY <1>1, <1>2, <1>8 DEF PipeInv
  <2> QED
    BY <1>1, <2>1, <2>3, <2>4, Kept
<1> QED
  BY <1>6, <1>7, <1>8 DEF ReadMessage

LEMMA DeliverStep == ASSUME LiveInv, Deliver PROVE LiveInv'
<1> USE DEF market, calls, link, timers, shard
<1>1. /\ pc = "sending" /\ chan' = Append(chan, blocked) /\ pc' = "open"
      /\ UNCHANGED <<venue, oi, topics, subs, wire, silent, state, emitted, priced, samples>>
  BY DEF Deliver
<1>2. LiveType /\ PipeInv /\ blocked \in Frame
  BY <1>1 DEF LiveInv, LiveType
<1>3. chan \in Seq(Frame) /\ wire \in Seq(Frame) /\ <<blocked>> \in Seq(Frame)
  BY <1>2 DEF LiveType
<1>4. LiveType'
  <2>1. chan' \in Seq(Frame)
    BY <1>1, <1>2, <1>3
  <2> QED
    BY <1>1, <1>2, <2>1 DEF LiveType
<1>6. Pipe' = Pipe
  <2>1. Held = <<blocked>> /\ Held' = <<>> /\ <<>> \o wire = wire
    BY <1>1, <1>3 DEF Held
  <2>2. Append(chan, blocked) = chan \o <<blocked>>
    BY <1>2, <1>3, AppendIsConcat
  <2>3. (chan \o <<blocked>>) \o wire = chan \o (<<blocked>> \o wire)
    BY <1>3, ConcatAssociative
  <2> QED
    BY <1>1, <2>1, <2>2, <2>3 DEF Pipe
<1>7. /\ \A s \in Symbol : Good(Pipe, s, state[s].oi, oi'[s])
      /\ \A s \in subs' : ~silent' => Fresh(Pipe, s, state[s].oi, oi'[s])
  BY <1>1, <1>2 DEF PipeInv
<1> QED
  BY <1>1, <1>4, <1>6, <1>7, Kept

\* What the shard task makes of a frame.
LEMMA RecvShard ==
    ASSUME LiveInv, Recv
    PROVE  /\ state' \in [Symbol -> SymbolState] /\ emitted' \in [Symbol -> Nat]
           /\ samples' \in [Symbol -> Nat] /\ priced' \in [Symbol -> {"none", "mark", "last"}]
           /\ \A s \in Symbol :
                /\ state'[s].oi = IF Val(Head(chan), s) THEN Head(chan).oi ELSE state[s].oi
                /\ emitted'[s] = state'[s].oi
                /\ samples'[s] # samples[s] => emitted'[s] # emitted[s]
                /\ venue = "bybit" => /\ priced[s] = "mark" => priced'[s] = "mark"
                                      /\ priced'[s] = "mark" => "mark" \in state'[s].known
<1> DEFINE m == Head(chan)
           st == Shard(m).st
<1>1. LiveType /\ EmittedInv /\ MarkInv
  BY DEF LiveInv
<1>2. chan # <<>> /\ chan \in Seq(Frame) /\ m \in Frame
  BY <1>1 DEF Recv, LiveType
<1>3. /\ state \in [Symbol -> SymbolState] /\ emitted \in [Symbol -> Nat]
      /\ samples \in [Symbol -> Nat] /\ priced \in [Symbol -> {"none", "mark", "last"}]
  BY <1>1 DEF LiveType
<1> HIDE DEF m
<1>4. CASE m.kind # "data"
  <2>1. UNCHANGED shard
    BY <1>4 DEF Recv, m
  <2>2. \A s \in Symbol : ~Val(Head(chan), s)
    BY <1>4 DEF Val, m
  <2> QED
    BY <1>1, <1>3, <2>1, <2>2 DEF shard, EmittedInv, MarkInv
<1>5. CASE m.kind = "data"
  <2>1. m \in Data /\ m.sym \in Symbol /\ m.oi \in Nat
    BY <1>2, <1>5, Values DEF Data
  <2>2. /\ st \in SymbolState /\ st.oi \in Nat
        /\ st.oi = IF m.oi # NoValue THEN m.oi ELSE state[m.sym].oi
        /\ Shard(m).emit <=> st.oi # state[m.sym].oi
        /\ Shard(m).price \in {"none", "mark", "last"}
        /\ venue = "bybit" => /\ state[m.sym].known \subseteq st.known
                              /\ "mark" \in st.known => Shard(m).price = "mark"
                              /\ Shard(m).price = "mark" => "mark" \in st.known
    BY <1>1, <2>1, ShardStep DEF SymbolState
  <2>3. /\ state' = [state EXCEPT ![m.sym] = st]
        /\ IF Shard(m).emit
           THEN /\ emitted' = [emitted EXCEPT ![m.sym] = st.oi]
                /\ priced' = [priced EXCEPT ![m.sym] = Shard(m).price]
                /\ samples' = [samples EXCEPT ![m.sym] = @ + 1]
           ELSE UNCHANGED <<emitted, priced, samples>>
    BY <1>5 DEF Recv, m
  <2> HIDE DEF st
  <2>4. /\ state' \in [Symbol -> SymbolState] /\ state'[m.sym] = st
        /\ \A s \in Symbol : s # m.sym => state'[s] = state[s]
    BY <1>3, <2>1, <2>2, <2>3
  <2>5. \A s \in Symbol : emitted[s] = state[s].oi
    BY <1>1 DEF EmittedInv
  <2>6. \A s \in Symbol : state'[s].oi = IF Val(m, s) THEN m.oi ELSE state[s].oi
    BY <1>5, <2>2, <2>4 DEF Val
  <2>7. CASE st.oi # state[m.sym].oi
    <3>1. /\ emitted' = [emitted EXCEPT ![m.sym] = st.oi]
          /\ priced' = [priced EXCEPT ![m.sym] = Shard(m).price]
          /\ samples' = [samples EXCEPT ![m.sym] = @ + 1]
      BY <2>2, <2>3, <2>7
    <3>2. /\ emitted' \in [Symbol -> Nat] /\ samples' \in [Symbol -> Nat]
          /\ emitted'[m.sym] = st.oi
          /\ \A s \in Symbol : s # m.sym => emitted'[s] = emitted[s] /\ samples'[s] = samples[s]
      BY <1>3, <2>1, <2>2, <3>1
    <3>3. /\ priced' \in [Symbol -> {"none", "mark", "last"}]
          /\ priced'[m.sym] = Shard(m).price
          /\ \A s \in Symbol : s # m.sym => priced'[s] = priced[s]
      BY <1>3, <2>1, <2>2, <3>1
    <3>4. \A s \in Symbol : /\ emitted'[s] = state'[s].oi
                            /\ samples'[s] # samples[s] => emitted'[s] # emitted[s]
      BY <2>1, <2>4, <2>5, <2>7, <3>2
    <3>5. ASSUME venue = "bybit", NEW s \in Symbol
          PROVE  /\ priced[s] = "mark" => priced'[s] = "mark"
                 /\ priced'[s] = "mark" => "mark" \in state'[s].known
      BY <1>1, <2>2, <2>4, <3>3, <3>5 DEF MarkInv
    <3> QED
      BY <2>4, <2>6, <3>2, <3>3, <3>4, <3>5 DEF m
  <2>8. CASE st.oi = state[m.sym].oi
    <3>1. UNCHANGED <<emitted, priced, samples>>
      BY <2>2, <2>3, <2>8
    <3>2. \A s \in Symbol : emitted'[s] = state'[s].oi
      BY <2>4, <2>5, <2>8, <3>1
    <3>3. ASSUME venue = "bybit", NEW s \in Symbol, priced[s] = "mark"
          PROVE  "mark" \in state'[s].known
      BY <1>1, <2>2, <2>4, <3>3 DEF MarkInv
    <3> QED
      BY <1>3, <2>4, <2>6, <3>1, <3>2, <3>3 DEF m
  <2> QED
    BY <2>7, <2>8
<1> QED
  BY <1>4, <1>5

\* The first frame of the channel is the first of the pipe.
LEMMA RecvPipe ==
    ASSUME LiveType, Recv
    PROVE  Pipe # <<>> /\ Head(Pipe) = Head(chan) /\ Pipe' = Tail(Pipe)
<1>1. chan # <<>> /\ chan' = Tail(chan) /\ UNCHANGED <<pc, blocked, wire>>
  BY DEF Recv, link
<1> DEFINE b == Held \o wire
<1>2. chan \in Seq(Frame) /\ b \in Seq(Frame)
  BY PipeType
<1>3. b' = b
  BY <1>1 DEF Held
<1>4. Pipe = chan \o b /\ Pipe' = chan' \o b'
  BY DEF Pipe
<1> HIDE DEF b
<1>5. chan \o b # <<>> /\ Head(chan \o b) = Head(chan) /\ Tail(chan \o b) = Tail(chan) \o b
  BY <1>1, <1>2
<1> QED
  BY <1>1, <1>3, <1>4, <1>5

LEMMA RecvStep == ASSUME LiveInv, Recv PROVE LiveInv'
<1> USE DEF market, calls, link, timers
<1>1. LiveType /\ PipeInv
  BY DEF LiveInv
<1>2. UNCHANGED <<venue, oi, pc, topics, subs, wire, silent, blocked>> /\ chan' = Tail(chan) /\ chan # <<>>
  BY DEF Recv
<1>3. LiveType'
  <2>1. chan' \in Seq(Frame)
    BY <1>1, <1>2 DEF LiveType
  <2>2. /\ state' \in [Symbol -> SymbolState] /\ emitted' \in [Symbol -> Nat]
        /\ samples' \in [Symbol -> Nat] /\ priced' \in [Symbol -> {"none", "mark", "last"}]
    BY RecvShard
  <2> QED
    BY <1>1, <1>2, <2>1, <2>2 DEF LiveType
<1>5. EmittedInv'
  BY RecvShard DEF EmittedInv
<1>6. MarkInv'
  BY <1>2, RecvShard DEF MarkInv
<1>7. ASSUME NEW s \in Symbol
      PROVE  /\ Good(Tail(Pipe), s, state'[s].oi, oi[s])
             /\ s \in subs /\ ~silent => Fresh(Tail(Pipe), s, state'[s].oi, oi[s])
  <2>1. /\ Good(Pipe, s, state[s].oi, oi[s])
        /\ s \in subs /\ ~silent => Fresh(Pipe, s, state[s].oi, oi[s])
    BY <1>1 DEF PipeInv
  <2>2. Pipe \in Seq(Frame) /\ state[s].oi \in Nat /\ oi[s] \in Nat
    BY <1>1, PipeType
  <2>3. state'[s].oi = IF Val(Head(Pipe), s) THEN Head(Pipe).oi ELSE state[s].oi
    BY <1>1, RecvShard, RecvPipe
  <2>4. Pipe # <<>>
    BY <1>1, RecvPipe
  <2> QED
    BY <2>1, <2>2, <2>3, <2>4, TakeFrame
<1>8. PipeInv'
  <2>1. Pipe' = Tail(Pipe)
    BY <1>1, RecvPipe
  <2>2. subs' = subs /\ silent' = silent /\ oi' = oi /\ subs \subseteq Symbol
    BY <1>1, <1>2 DEF LiveType
  <2> QED
    BY <1>7, <2>1, <2>2 DEF PipeInv, Good, Fresh, Val
<1> QED
  BY <1>3, <1>5, <1>6, <1>8 DEF LiveInv

LEMMA LiveStep == ASSUME LiveInv, [Next]_vars PROVE LiveInv'
<1>1. CASE LineFails \/ IdleFires
  <2>1. /\ pc # "sending" /\ Reconnect
        /\ UNCHANGED <<venue, oi, blocked, chan, state, emitted, priced, samples>>
    BY <1>1 DEF LineFails, IdleFires, market, shard
  <2> QED
    BY <2>1, ReconnectStep
<1>2. CASE \E s \in Symbol : VenueAccepts(s) \/ VenueRefuses(s) \/ VenueUpdate(s)
  BY <1>2, AcceptStep, RefuseStep, UpdateStep
<1> QED
  BY <1>1, <1>2, StillStep, SilentStep, ChatterStep, ReadStep, DeliverStep, RecvStep
  DEF Next, Proceed, ShardTask

LEMMA LiveInit == Init => LiveInv
<1> SUFFICES ASSUME Init PROVE LiveInv
  OBVIOUS
<1>1. LiveType
  <2>1. [oi |-> NoValue, known |-> {}] \in SymbolState
    BY DEF SymbolState, NoValue
  <2>2. state \in [Symbol -> SymbolState]
    BY <2>1 DEF Init
  <2>3. chan \in Seq(Frame) /\ wire \in Seq(Frame) /\ pc # "sending"
    BY DEF Init
  <2>4. venue \in {"bybit", "okx", "bitget", "hyperliquid"}
    BY DEF Init
  <2>5. /\ oi \in [Symbol -> Nat] /\ emitted \in [Symbol -> Nat] /\ samples \in [Symbol -> Nat]
        /\ priced \in [Symbol -> {"none", "mark", "last"}]
        /\ topics = {} /\ subs = {} /\ silent \in BOOLEAN
    BY DEF Init, NoValue
  <2> QED
    BY <2>2, <2>3, <2>4, <2>5 DEF LiveType
<1>2. MarkInv /\ EmittedInv
  BY DEF Init, MarkInv, EmittedInv, NoValue
<1>3. Pipe = <<>> /\ subs = {}
  BY DEF Init, Pipe, Held
<1>4. \A s \in Symbol : state[s].oi = 0 /\ oi[s] = 1
  BY DEF Init, NoValue
<1>5. PipeInv
  BY <1>3, <1>4 DEF PipeInv, Good
<1> QED
  BY <1>1, <1>2, <1>5 DEF LiveInv

-----------------------------------------------------------------------------
(* The results.                                                            *)

\* Of every subscription the venue has accepted the shard holds the venue's
\* value, unless a frame of it is on its way - whatever happened before:
\* reconnects, refusals, full channels, frames without a value, a slow
\* publish().
THEOREM NoValueLost == Spec => []CaughtUp
<1>1. LiveInv => CaughtUp
  <2> SUFFICES ASSUME LiveInv, NEW s \in subs, ~silent, ~Underway(s)
               PROVE  state[s].oi = oi[s]
    BY DEF CaughtUp
  <2>1. Fresh(Pipe, s, state[s].oi, oi[s])
    BY DEF LiveInv, PipeInv
  <2>2. ASSUME NEW k \in 1..Len(Pipe) PROVE ~Val(Pipe[k], s)
    <3>1. chan \in Seq(Frame) /\ wire \in Seq(Frame) /\ Held \in Seq(Frame) /\ Held \o wire \in Seq(Frame)
      BY PipeType DEF LiveInv
    <3>2. ASSUME NEW i \in 1..Len(chan) PROVE ~Val(chan[i], s)
      BY DEF Underway, Val
    <3>3. ASSUME NEW i \in 1..Len(wire) PROVE ~Val(wire[i], s)
      BY DEF Underway, Val
    <3>4. ASSUME NEW i \in 1..Len(Held) PROVE ~Val(Held[i], s)
      BY DEF Underway, Val, Held
    <3>5. ASSUME NEW i \in 1..Len(Held \o wire) PROVE ~Val((Held \o wire)[i], s)
      BY <3>1, <3>3, <3>4
    <3> DEFINE b == Held \o wire
    <3>6. k \in 1..Len(chan \o b)
      BY DEF Pipe
    <3>7. b \in Seq(Frame) /\ \A i \in 1..Len(b) : ~Val(b[i], s)
      BY <3>1, <3>5
    <3> HIDE DEF b
    <3>8. ~Val((chan \o b)[k], s)
      BY <3>1, <3>2, <3>6, <3>7
    <3> QED
      BY <3>8 DEF b, Pipe
  <2> QED
    BY <2>1, <2>2 DEF Fresh
<1> QED
  BY <1>1, LiveInit, LiveStep, PTL DEF Spec

\* Only the shard task takes samples.
LEMMA OthersTakeNoSample ==
    ASSUME [Next]_vars, ~Recv PROVE UNCHANGED <<emitted, priced, samples>>
BY DEF Next, Proceed, ShardTask, LiveTask, LineFails, Tick, Published, Chatter, GoesSilent, VenueUpdate,
       Wake, Connect, Subscribed, PingTick, IdleFires, ReadMessage, Deliver, OnConnect,
       VenueAccepts, VenueRefuses, vars, shard

\* No value is counted twice and none after a newer one, across reconnects with
\* frames of the old connection still queued.
THEOREM ValuesCountedOnce == Spec => EachValueOnce
<1>1. ASSUME LiveInv, [Next]_vars, NEW s \in Symbol, samples'[s] # samples[s]
      PROVE  emitted'[s] > emitted[s]
  <2>1. Recv
    BY <1>1, OthersTakeNoSample
  <2>2. /\ state'[s].oi = IF Val(Head(Pipe), s) THEN Head(Pipe).oi ELSE state[s].oi
        /\ emitted'[s] = state'[s].oi /\ emitted'[s] # emitted[s] /\ emitted[s] = state[s].oi
    BY <1>1, <2>1, RecvShard, RecvPipe DEF LiveInv, EmittedInv
  <2>3. /\ Pipe \in Seq(Frame) /\ Pipe # <<>> /\ state[s].oi \in Nat /\ oi[s] \in Nat
        /\ Good(Pipe, s, state[s].oi, oi[s])
    BY <1>1, <2>1, PipeType, RecvPipe DEF LiveInv, PipeInv
  <2>4. state'[s].oi \in Nat /\ state[s].oi <= state'[s].oi
    BY <2>2, <2>3, TakeFrame
  <2> QED
    BY <2>2, <2>3, <2>4
<1>2. LiveInv /\ [Next]_vars
        => [\A s \in Symbol : samples'[s] # samples[s] => emitted'[s] > emitted[s]]_vars
  BY <1>1
<1> QED
  BY <1>2, LiveInit, LiveStep, PTL DEF Spec, EachValueOnce

\* A bybit symbol once priced by its mark stays so, whatever snapshots follow.
THEOREM MarkNeverForgotten == Spec => MarkPriceKept
<1>1. ASSUME LiveInv, [Next]_vars, NEW s \in Symbol, venue = "bybit", priced[s] = "mark"
      PROVE  priced'[s] = "mark"
  <2>1. CASE Recv
    BY <1>1, <2>1, RecvShard
  <2>2. CASE ~Recv
    BY <1>1, <2>2, OthersTakeNoSample
  <2> QED
    BY <2>1, <2>2
<1>2. LiveInv /\ [Next]_vars
        => [\A s \in Symbol : venue = "bybit" /\ priced[s] = "mark" => priced'[s] = "mark"]_vars
  BY <1>1
<1> QED
  BY <1>2, LiveInit, LiveStep, PTL DEF Spec, MarkPriceKept

=============================================================================
