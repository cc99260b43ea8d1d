-------------------------------- MODULE Api --------------------------------
(***************************************************************************)
(* The API server: the WebSocket fan-out (ws.rs), the gRPC subscription    *)
(* and lookups (grpc.rs), the REST handlers with the batch endpoints       *)
(* (rest.rs), and the token check at each of the three doors (auth.rs,     *)
(* server.rs).                                                             *)
(*                                                                         *)
(* One task per process relays Redis pub/sub into a broadcast ring; every  *)
(* WS client reads the ring at its own pace.  A gRPC subscriber has its    *)
(* own Redis subscription and a bounded channel.  The n-th snapshot        *)
(* published is the number n; kind[n] is its instrument.                   *)
(*                                                                         *)
(* WS clients, gRPC subscribers and requests share no state but the        *)
(* snapshots, so a behaviour exercises one of them: `load`.                *)
(***************************************************************************)
EXTENDS Integers, Sequences, FiniteSetsExt

CONSTANTS
    Inst,              \* instruments
    BroadcastCapacity, \* snapshots the ring keeps
    ChannelCapacity,   \* of the mpsc channel of a gRPC subscriber
    BatchMaxItems,
    BatchConcurrency,
    MaxPublished,      \* bound on snapshots
    MaxFaults          \* bound on broken connections and stalled clients

ASSUME ApiAssumption ==
    /\ BroadcastCapacity \in Nat \ {0} /\ ChannelCapacity \in Nat \ {0}
    /\ BatchMaxItems \in Nat \ {0} /\ BatchConcurrency \in Nat \ {0}
    /\ MaxPublished \in Nat /\ MaxFaults \in Nat

VARIABLES
    load,      \* "ws", "rpc" or "requests"; never changes
    auth,      \* cfg.auth.enabled; never changes
    kind,      \* instruments of the snapshots published so far
    relay,     \* the broadcaster: [up, queue], queue received from Redis
    missed,    \* snapshots the broadcaster was not connected for (history)
    ring,      \* the snapshots sent into the broadcast channel
    ws,        \* the WS client
    rpc,       \* the gRPC subscriber
    batch,     \* the batch request in work
    reply,     \* status of the last plain request
    faults

streams == <<kind, relay, missed, ring, ws, rpc>>
requests == <<batch, reply>>
vars == <<load, auth, streams, requests, faults>>

Fault == faults < MaxFaults /\ faults' = faults + 1

Token == {"none", "wrong", "valid"}
Junk == "junk"

NoClient == [state |-> "off", filter |-> {}, pos |-> 0, start |-> 0, sending |-> <<>>,
             got |-> <<>>, skipped |-> {}]
NoStream == [state |-> "off", filter |-> {}, start |-> 0, queue |-> <<>>, chan |-> <<>>,
             got |-> <<>>]
NoBatch == [state |-> "none", fmt |-> "row", total |-> 0, next |-> 1, inflight |-> {},
            results |-> <<>>, outcome |-> <<>>]

Init ==
    /\ load \in {"ws", "rpc", "requests"}
    /\ auth \in BOOLEAN
    /\ kind = <<>>
    /\ relay = [up |-> FALSE, queue |-> <<>>]
    /\ missed = {}
    /\ ring = <<>>
    /\ ws = NoClient
    /\ rpc = NoStream
    /\ batch = NoBatch
    /\ reply = 0
    /\ faults = 0

-----------------------------------------------------------------------------
(* The doors.                                                              *)

Accepts(token) == token = "valid"

\* Probes, metrics and the WS upgrade pass the REST middleware unchecked.
IsPublicPath(path) == path \in {"health", "metrics", "ws"}

RestAuthMiddleware(path, token) == auth => IsPublicPath(path) \/ Accepts(token)

\* The WS handler checks the token of the query string itself.
WsHandlerAccepts(token) == auth => Accepts(token)

GrpcAuthInterceptor(token) == auth => Accepts(token)

Elements(seq) == {seq[k] : k \in 1..Len(seq)}

-----------------------------------------------------------------------------
(* Redis pub/sub and the broadcaster.                                      *)

\* Pub/sub keeps nothing: who is not connected misses the snapshot.
Publish(i) ==
    /\ load # "requests" /\ Len(kind) < MaxPublished
    /\ kind' = Append(kind, i)
    /\ relay' = IF relay.up THEN [relay EXCEPT !.queue = Append(@, Len(kind'))] ELSE relay
    /\ missed' = IF relay.up THEN missed ELSE missed \union {Len(kind')}
    /\ rpc' = IF rpc.state = "open" THEN [rpc EXCEPT !.queue = Append(@, Len(kind'))] ELSE rpc
    /\ UNCHANGED <<load, auth, ring, ws, requests, faults>>

BroadcasterSubscribesOnce ==
    /\ load = "ws" /\ ~relay.up /\ faults = 0
    /\ relay' = [relay EXCEPT !.up = TRUE]
    /\ UNCHANGED <<load, auth, kind, missed, ring, ws, rpc, requests, faults>>

\* The first time, or two seconds after a failure.
BroadcasterSubscribes ==
    /\ load = "ws" /\ ~relay.up
    /\ relay' = [relay EXCEPT !.up = TRUE]
    /\ UNCHANGED <<load, auth, kind, missed, ring, ws, rpc, requests, faults>>

\* A snapshot of the stream goes into the ring, whoever listens.
BroadcasterSends ==
    /\ relay.queue # <<>>
    /\ ring' = Append(ring, Head(relay.queue))
    /\ relay' = [relay EXCEPT !.queue = Tail(@)]
    /\ UNCHANGED <<load, auth, kind, missed, ws, rpc, requests, faults>>

\* The stream ends, with what was not read of it; after two seconds the loop
\* subscribes again.
RedisStreamEnds ==
    /\ relay.up
    /\ Fault
    /\ relay' = [up |-> FALSE, queue |-> <<>>]
    /\ missed' = missed \union Elements(relay.queue)
    /\ UNCHANGED <<load, auth, kind, ring, ws, rpc, requests>>

-----------------------------------------------------------------------------
(* ws_subscribe_handler and handle_socket.                                 *)

\* What does not parse is dropped; an empty filter is the firehose.
ParseFilter(asked) == asked \ {Junk}

Matches(filter, n) == filter = {} \/ kind[n] \in filter

\* A receiver sees what is sent into the ring from now on.
WsConnect(token, asked) ==
    /\ load = "ws" /\ ws.state = "off"
    /\ RestAuthMiddleware("ws", token) /\ WsHandlerAccepts(token)
    /\ ws' = [NoClient EXCEPT !.state = "open", !.filter = ParseFilter(asked),
                              !.pos = Len(ring), !.start = Len(kind)]
    /\ UNCHANGED <<load, auth, kind, relay, missed, ring, rpc, requests, faults>>

Ready == ws.state = "open" /\ ws.sending = <<>> /\ ws.pos < Len(ring)

\* The ring's snapshots between two positions.
RingPart(from, to) == {ring[k] : k \in from + 1..to}

Oldest == IF Len(ring) > BroadcastCapacity THEN Len(ring) - BroadcastCapacity ELSE 0

\* The ring has turned over: go on with the oldest snapshot it still holds.
WsLagged ==
    /\ Ready /\ ws.pos < Oldest
    /\ ws' = [ws EXCEPT !.pos = Oldest, !.skipped = @ \union RingPart(ws.pos, Oldest)]
    /\ UNCHANGED <<load, auth, kind, relay, missed, ring, rpc, requests, faults>>

WsRecvLeavesHole ==
    /\ Ready /\ ws.pos >= Oldest
    /\ ws' = [ws EXCEPT !.pos = Len(ring),
                        !.sending = IF Matches(ws.filter, ring[Len(ring)])
                                    THEN <<ring[Len(ring)]>> ELSE <<>>]
    /\ UNCHANGED <<load, auth, kind, relay, missed, ring, rpc, requests, faults>>

\* The next snapshot: skipped by the filter, or on its way to the socket.
WsRecv ==
    /\ Ready /\ ws.pos >= Oldest
    /\ LET snap == ring[ws.pos + 1] IN
       ws' = [ws EXCEPT !.pos = @ + 1,
                        !.sending = IF Matches(ws.filter, snap) THEN <<snap>> ELSE <<>>]
    /\ UNCHANGED <<load, auth, kind, relay, missed, ring, rpc, requests, faults>>

WsFlushed ==
    /\ ws.state = "open" /\ ws.sending # <<>>
    /\ ws' = [ws EXCEPT !.got = @ \o ws.sending, !.sending = <<>>]
    /\ UNCHANGED <<load, auth, kind, relay, missed, ring, rpc, requests, faults>>

\* SEND_TIMEOUT on a frame or a ping, an error of the socket, a close frame.
WsCloses ==
    /\ ws.state = "open"
    /\ Fault
    /\ ws' = [ws EXCEPT !.state = "closed"]
    /\ UNCHANGED <<load, auth, kind, relay, missed, ring, rpc, requests>>

-----------------------------------------------------------------------------
(* The gRPC Subscribe call.                                                *)

\* One instrument that does not parse fails the call.  The call returns its
\* stream at once; a client whose stream ended may call again.
RpcSubscribe(token, asked) ==
    /\ load = "rpc" /\ rpc.state \in {"off", "ended", "unavailable"}
    /\ GrpcAuthInterceptor(token)
    /\ Junk \notin asked
    /\ rpc' = [NoStream EXCEPT !.state = "calling", !.filter = asked]
    /\ UNCHANGED <<load, auth, kind, relay, missed, ring, ws, requests, faults>>

\* The spawned task's SUBSCRIBE takes effect, some time after the call.
RpcSubscribed ==
    /\ rpc.state = "calling"
    /\ rpc' = [rpc EXCEPT !.state = "open", !.start = Len(kind)]
    /\ UNCHANGED <<load, auth, kind, relay, missed, ring, ws, requests, faults>>

\* Or it fails, and Status::unavailable ends the stream.
RpcSubscribeFails ==
    /\ rpc.state = "calling"
    /\ Fault
    /\ rpc' = [rpc EXCEPT !.state = "unavailable"]
    /\ UNCHANGED <<load, auth, kind, relay, missed, ring, ws, requests>>

\* A full channel holds the task up.
RpcForwards ==
    /\ rpc.queue # <<>>
    /\ IF Matches(rpc.filter, Head(rpc.queue))
       THEN /\ Len(rpc.chan) < ChannelCapacity
            /\ rpc' = [rpc EXCEPT !.queue = Tail(@), !.chan = Append(@, Head(rpc.queue))]
       ELSE rpc' = [rpc EXCEPT !.queue = Tail(@)]
    /\ UNCHANGED <<load, auth, kind, relay, missed, ring, ws, requests, faults>>

RpcClientReads ==
    /\ rpc.chan # <<>>
    /\ rpc' = [rpc EXCEPT !.got = Append(@, Head(rpc.chan)), !.chan = Tail(@)]
    /\ UNCHANGED <<load, auth, kind, relay, missed, ring, ws, requests, faults>>

\* No reconnect here: the task ends and the client sees the end of the stream.
RpcStreamEnds ==
    /\ rpc.state = "open"
    /\ Fault
    /\ rpc' = [rpc EXCEPT !.state = "ended", !.queue = <<>>]
    /\ UNCHANGED <<load, auth, kind, relay, missed, ring, ws, requests>>

-----------------------------------------------------------------------------
(* Plain requests.  `found` is what the repository answers.                *)

Found == {"some", "none", "error"}

\* REST: one instrument.
Lookup(ok, found) ==
    IF ~ok THEN 400
    ELSE CASE found = "some"  -> 200
           [] found = "none"  -> 404
           [] found = "error" -> 500

RestLatest(ok, found) == Lookup(ok, found)
RestFundingLatest(ok, found) == Lookup(ok, found)
RestFundingEventLatest(ok, found) == Lookup(ok, found)

\* REST: a window; no rows are an answer too.
Window(ok, found) ==
    IF ~ok THEN 400 ELSE IF found = "error" THEN 500 ELSE 200

RestRange(ok, found) == Window(ok, found)
RestFundingRange(ok, found) == Window(ok, found)
RestFundingEventRange(ok, found) == Window(ok, found)

\* gRPC: the first item that does not parse or fails ends the call; an item
\* without data is left out.
GrpcLatest(ok, found) == IF ok /\ found = "none" THEN 200 ELSE Lookup(ok, found)
GrpcLatestFunding(ok, found) == GrpcLatest(ok, found)
GrpcLatestFundingEvent(ok, found) == GrpcLatest(ok, found)
GrpcRange(ok, found) == Window(ok, found)
GrpcFundingRange(ok, found) == Window(ok, found)
GrpcFundingEventRange(ok, found) == Window(ok, found)

\* /health/ready probes both stores.
ReadyProbe(clickhouse, redis) == IF clickhouse /\ redis THEN 200 ELSE 503

RestGet(token) ==
    /\ load = "requests"
    /\ IF RestAuthMiddleware("data", token)
       THEN \E ok \in BOOLEAN, found \in Found :
                  reply' \in {RestLatest(ok, found), RestFundingLatest(ok, found),
                              RestFundingEventLatest(ok, found), RestRange(ok, found),
                              RestFundingRange(ok, found), RestFundingEventRange(ok, found)}
       ELSE reply' = 401
    /\ UNCHANGED <<load, auth, streams, batch, faults>>

GrpcCall(token) ==
    /\ load = "requests"
    /\ IF GrpcAuthInterceptor(token)
       THEN \E ok \in BOOLEAN, found \in Found :
                  reply' \in {GrpcLatest(ok, found), GrpcLatestFunding(ok, found),
                              GrpcLatestFundingEvent(ok, found), GrpcRange(ok, found),
                              GrpcFundingRange(ok, found), GrpcFundingEventRange(ok, found)}
       ELSE reply' = 401
    /\ UNCHANGED <<load, auth, streams, batch, faults>>

Health(token) ==
    /\ load = "requests"
    /\ RestAuthMiddleware("health", token)
    /\ \E clickhouse, redis \in BOOLEAN : reply' = ReadyProbe(clickhouse, redis)
    /\ UNCHANGED <<load, auth, streams, batch, faults>>

-----------------------------------------------------------------------------
(* Batch requests.  A bar has a value and perhaps one in coins and one in  *)
(* USD (0: none).                                                          *)

Bar(coins, usd) == [coins |-> coins, usd |-> usd]

\* What the query of one item may answer.
Answers == {<<>>, <<Bar(0, 7)>>, <<Bar(0, 0), Bar(3, 0)>>}

\* A column of one field, left out if none of the rows has a value in it.
Optional(rows, field) ==
    IF \E k \in 1..Len(rows) : rows[k][field] # 0 THEN {[k \in 1..Len(rows) |-> rows[k][field]]} ELSE {}

FromSnapshots(rows) ==
    [fmt |-> "col", n |-> Len(rows), coins |-> Optional(rows, "coins"), usd |-> Optional(rows, "usd")]

RowPayload(rows) == [fmt |-> "row", bars |-> rows]

Finalize(fmt, rows) == IF fmt = "col" THEN FromSnapshots(rows) ELSE RowPayload(rows)

\* The entry of an item: its payload, or an error with the empty payload.
\* OiColumns::default() has an empty fmt.
Entry(fmt, out) ==
    IF out.ok THEN [error |-> FALSE, payload |-> Finalize(fmt, out.rows)]
    ELSE [error |-> TRUE, payload |-> IF fmt = "col"
                                      THEN [FromSnapshots(<<>>) EXCEPT !.fmt = ""]
                                      ELSE RowPayload(<<>>)]

\* Empty and oversized batches are refused, and so is a whole batch for one
\* item that does not parse.
ParseBatch(items) ==
    /\ Len(items) \in 1..BatchMaxItems
    /\ \A k \in 1..Len(items) : items[k] = "good"

\* A batch handler: parse, then prime the queries.
BatchPost(token, formats) ==
    /\ load = "requests" /\ batch.state = "none"
    /\ RestAuthMiddleware("data", token)
    /\ \E total \in 0..BatchMaxItems + 1, fmt \in formats :
       \E items \in [1..total -> {"good", "bad"}] :
          LET asked == [NoBatch EXCEPT !.fmt = fmt, !.total = total,
                                       !.results = [k \in 1..total |-> {}],
                                       !.outcome = [k \in 1..total |-> {}]]
              primed == Min({total, BatchConcurrency})
          IN  batch' = IF ParseBatch(items)
                       THEN [asked EXCEPT !.state = "run", !.next = primed + 1,
                                          !.inflight = 1..primed]
                       ELSE [asked EXCEPT !.state = "refused"]
    /\ UNCHANGED <<load, auth, streams, reply, faults>>

RangeBatch(token) == BatchPost(token, {"row", "col"})
FundingRangeBatch(token) == BatchPost(token, {"row", "col"})

\* Settlement events come as rows only.
FundingEventRangeBatch(token) == BatchPost(token, {"row"})

Refill(b) ==
    IF b.next <= b.total
    THEN [b EXCEPT !.inflight = @ \union {b.next}, !.next = @ + 1] ELSE b

FirstEmpty == CHOOSE k \in 1..batch.total :
    batch.results[k] = {} /\ \A j \in 1..(k - 1) : batch.results[j] # {}

BatchItemPushed(k) ==
    /\ k \in batch.inflight
    /\ \E out \in [ok : {TRUE}, rows : Answers] \union [ok : {FALSE}, rows : {<<>>}] :
          batch' = Refill([batch EXCEPT !.inflight = @ \ {k},
                                        !.results[FirstEmpty] = {Entry(batch.fmt, out)},
                                        !.outcome[k] = {out}])
    /\ UNCHANGED <<load, auth, streams, reply, faults>>

\* Queries end in any order; each fills the slot of its item.
BatchItemDone(k) ==
    /\ k \in batch.inflight
    /\ \E out \in [ok : {TRUE}, rows : Answers] \union [ok : {FALSE}, rows : {<<>>}] :
          batch' = Refill([batch EXCEPT !.inflight = @ \ {k},
                                        !.results[k] = {Entry(batch.fmt, out)},
                                        !.outcome[k] = {out}])
    /\ UNCHANGED <<load, auth, streams, reply, faults>>

BatchAnswers ==
    /\ batch.state = "run" /\ batch.inflight = {}
    /\ batch' = [batch EXCEPT !.state = "answered"]
    /\ UNCHANGED <<load, auth, streams, reply, faults>>

-----------------------------------------------------------------------------

Asked == SUBSET (Inst \union {Junk})

Broadcaster == BroadcasterSubscribes \/ BroadcasterSends
WsTask == WsLagged \/ WsRecv \/ WsFlushed
RpcTask == RpcSubscribed \/ RpcForwards \/ RpcClientReads
BatchTask == BatchAnswers \/ \E k \in 1..BatchMaxItems : BatchItemDone(k)

Next ==
    \/ \E i \in Inst : Publish(i)
    \/ Broadcaster \/ RedisStreamEnds
    \/ \E token \in Token, asked \in Asked : WsConnect(token, asked) \/ RpcSubscribe(token, asked)
    \/ WsTask \/ WsCloses
    \/ RpcTask \/ RpcSubscribeFails \/ RpcStreamEnds
    \/ \E token \in Token :
         \/ RestGet(token) \/ GrpcCall(token) \/ Health(token)
         \/ RangeBatch(token) \/ FundingRangeBatch(token) \/ FundingEventRangeBatch(token)
    \/ BatchTask

Spec == Init /\ [][Next]_vars

\* Tasks are scheduled, Redis takes a SUBSCRIBE once the faults are over, a
\* client reads or is evicted, queries end.
FairSpec ==
    /\ Spec
    /\ WF_vars(Broadcaster) /\ WF_vars(WsTask) /\ WF_vars(RpcTask) /\ WF_vars(BatchTask)

-----------------------------------------------------------------------------
(* Properties.                                                             *)

Increasing(seq) == \A j, k \in 1..Len(seq) : j < k => seq[j] < seq[k]

\* seq is exactly these snapshots, in order and without duplicates.
Delivers(seq, snapshots) == Increasing(seq) /\ Elements(seq) = snapshots

\* Not delivered yet: received by the broadcaster, or in the ring.
OnItsWay == Elements(relay.queue) \union RingPart(ws.pos, Len(ring))

\* ws.rs:95-121, 229-246 and grpc.rs:106-158 - a subscriber receives matching
\* snapshots in order and without duplicates.  A WS client's stream has every
\* snapshot published since it came, whatever its pace, except what it was
\* made to skip when the ring turned over and what the broadcaster missed
\* while it had no Redis connection.  A gRPC stream has every one published
\* since its SUBSCRIBE took effect, except what is still queued there; what
\* was published before, the latest bar included, it never gets, on a
\* reconnect neither (docs/terminal-integration.md:289-291 has it otherwise).
SubscribersSeeTheStream ==
    /\ Increasing(ws.got \o ws.sending)
    /\ \A n \in Elements(ws.got) : Matches(ws.filter, n)
    /\ ws.state # "off" =>
          \A n \in ws.start + 1..Len(kind) :
              Matches(ws.filter, n) =>
                  n \in Elements(ws.got \o ws.sending) \union OnItsWay \union ws.skipped \union missed
    /\ rpc.state = "open" =>
          Delivers(rpc.got \o rpc.chan,
                   {n \in rpc.start + 1..Len(kind) - Len(rpc.queue) : Matches(rpc.filter, n)})

\* ws.rs:98-100 - after every outage the WS clients that stayed connected
\* resume: whatever the broadcaster received reaches them or was skipped as lag.
WsResumes ==
    <>[](load = "ws" =>
            relay.up /\ relay.queue = <<>> /\
            (ws.state = "open" => ws.pos = Len(ring) /\ ws.sending = <<>>))

\* What the client reads out of an entry.
Decoded(entry) ==
    LET p == entry.payload
        At(col, k) == IF col = {} THEN 0 ELSE (CHOOSE c \in col : TRUE)[k]
    IN  IF entry.error THEN {}
        ELSE IF p.fmt = "row" THEN {p.bars}
        ELSE {[k \in 1..p.n |-> Bar(At(p.coins, k), At(p.usd, k))]}

\* rest.rs:566-569, 679-755 - the results are in the order of the items, in
\* either format with the rows of exactly that item's query, however the
\* queries interleaved; and a failed query does not touch the other items.
\* Only queries: an item that does not parse refuses the batch as a whole
\* (rest.rs:644-652), which rest.rs:569-571 has otherwise.
BatchInOrder ==
    batch.state = "answered" =>
        \A k \in 1..batch.total :
            \E entry \in batch.results[k], out \in batch.outcome[k] :
                Decoded(entry) = IF out.ok THEN {out.rows} ELSE {}
=============================================================================
