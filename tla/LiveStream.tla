----------------------------- MODULE LiveStream -----------------------------
(***************************************************************************)
(* One live feed of the collector: the supervised WebSocket of             *)
(* oi-exchanges/common/ws.rs, the venue's handler (bybit, okx, bitget,     *)
(* hyperliquid), the bounded channel between them, and the shard task of   *)
(* oi-collector/live.rs that turns frames into samples.                    *)
(*                                                                         *)
(* The venue is the environment.  It numbers the open-interest values of   *)
(* each symbol; a frame carries a number and says which prices it quotes.  *)
(* It may accept a subscription, refuse it, or never answer it.            *)
(* The supervisor's timers count units of the ping interval's order.       *)
(* Nothing ever closes the receiver (the shard loops for ever), so the     *)
(* supervisor's is_closed() exit is unreachable and left out.              *)
(***************************************************************************)
EXTENDS Integers, Sequences

CONSTANTS
    Symbol,
    Venue,         \* which of the four feeds
    PingInterval,  \* WsHandler::ping_interval
    IdleTimeout,   \* WsHandler::idle_timeout
    MaxDelay,      \* cap of the exponential backoff
    ChanCap,       \* capacity of the frame channel
    WireCap,       \* bound on unread messages of a connection
    MaxUpdates,    \* bound on value changes at the venue
    MaxFaults      \* bound on failures of the line

ASSUME LiveStreamAssumption ==
    /\ Venue \subseteq {"bybit", "okx", "bitget", "hyperliquid"}
    /\ PingInterval \in Nat \ {0} /\ IdleTimeout \in Nat \ {0}
    /\ MaxDelay \in Nat \ {0} /\ ChanCap \in Nat \ {0}
    /\ WireCap \in Nat /\ MaxUpdates \in Nat /\ MaxFaults \in Nat

NoValue == 0
Price == {"mark", "last"}

VARIABLES
    venue,      \* the feed this behaviour is about
    oi,         \* the venue's current value of each symbol
    updates,    \* value changes so far
    pc,         \* where the supervisor stands
    topics,     \* symbols the task was started for
    asked,      \* subscriptions sent on this connection
    subs,       \* those the venue has accepted
    refused,    \* those it has refused
    wire,       \* messages sent by the venue and not read yet
    silent,     \* the peer holds the connection but sends nothing any more
    sincePing,  \* time since the last ping tick
    quiet,      \* time since the current idle timeout was armed
    wait,       \* rest of the backoff sleep
    delay,      \* next delay of the backoff
    blocked,    \* the frame tx.send is waiting to deliver
    chan,       \* the mpsc channel
    task,       \* where the shard task stands
    state,      \* SymbolState (bybit) or `last` (the others) of each symbol
    emitted,    \* last value folded into the aggregator, per symbol
    priced,     \* which price that sample carried
    samples,    \* number of samples folded, per symbol
    faults

market == <<oi, updates>>
calls == <<asked, subs, refused>>
link == <<topics, calls, wire, silent>>
timers == <<sincePing, quiet, wait, delay>>
shard == <<task, state, emitted, priced, samples>>
vars == <<venue, market, pc, link, timers, blocked, chan, shard, faults>>

Fault == faults < MaxFaults /\ faults' = faults + 1
NoFrame == [kind |-> "none"]

Init ==
    /\ venue \in Venue
    /\ oi = [s \in Symbol |-> 1] /\ updates = 0
    /\ pc = "starting" /\ topics = {} /\ wire = <<>> /\ silent = FALSE
    /\ asked = {} /\ subs = {} /\ refused = {}
    /\ sincePing = 0 /\ quiet = 0 /\ wait = 0 /\ delay = 1
    /\ blocked = NoFrame /\ chan = <<>> /\ task = "recv"
    /\ state = [s \in Symbol |-> [oi |-> NoValue, known |-> {}]]
    /\ emitted = [s \in Symbol |-> NoValue]
    /\ priced = [s \in Symbol |-> "none"]
    /\ samples = [s \in Symbol |-> 0]
    /\ faults = 0

-----------------------------------------------------------------------------
(* Start-up: one discovery, then the tasks run for ever.                   *)

\* spawn_*_live: without symbols the task exits.
SpawnLive(symbols) ==
    /\ topics' = symbols
    /\ pc' = IF symbols = {} THEN "dead" ELSE "connecting"

\* The side task discovers the active symbols; if that fails it gives up.
LiveTask ==
    /\ pc = "starting"
    /\ \/ \E active \in SUBSET Symbol : SpawnLive(active) /\ UNCHANGED faults
       \/ Fault /\ pc' = "dead" /\ UNCHANGED topics
    /\ UNCHANGED <<venue, market, calls, wire, silent, timers, blocked, chan, shard>>

-----------------------------------------------------------------------------
(* The venue.                                                              *)

\* The sets of prices a frame may quote, of those the venue's parser reads (a
\* bybit frame with the mark price alone tells no more than one with both).
Quoted ==
    CASE venue = "bybit" -> {{}, {"last"}, Price}
      [] venue = "okx"   -> {{}}
      [] OTHER           -> {{}, {"mark"}}

\* Bybit answers a subscription with a snapshot, which may lack prices, and
\* sends what changed afterwards; the others always push the value.
Push(s, type, prices) ==
    [kind |-> "data", type |-> type, sym |-> s, oi |-> oi[s], prices |-> prices]

\* The venue has a subscription to answer.
Unanswered(s) == s \in asked \ (subs \union refused) /\ ~silent

\* It accepts, and answers with the current value.
VenueAccepts(s) ==
    /\ Unanswered(s)
    /\ subs' = subs \union {s}
    /\ \E prices \in Quoted : wire' = Append(wire, Push(s, "snapshot", prices))
    /\ UNCHANGED <<venue, market, pc, topics, asked, refused, silent, timers, blocked, chan,
                   shard, faults>>

\* It refuses (a delisted coin, a rate limit) with a control frame.
VenueRefuses(s) ==
    /\ Unanswered(s)
    /\ refused' = refused \union {s}
    /\ wire' = Append(wire, [kind |-> "ack"])
    /\ UNCHANGED <<venue, market, pc, topics, asked, subs, silent, timers, blocked, chan,
                   shard, faults>>

VenueUpdate(s) ==
    /\ updates < MaxUpdates
    /\ Len(wire) < WireCap
    /\ updates' = updates + 1
    /\ oi' = [oi EXCEPT ![s] = @ + 1]
    /\ wire' = IF s \in subs /\ ~silent
               THEN Append(wire, [Push(s, "delta", {}) EXCEPT !.oi = oi'[s]])
               ELSE wire
    /\ UNCHANGED <<venue, pc, topics, calls, silent, timers, blocked, chan, shard, faults>>

\* Anything else a venue sends: frames without a value (bybit's price-only
\* deltas), acks and application pings and pongs ("ack"), WS pings, frames of
\* another shape, undecodable text, a close frame.
Chatter ==
    /\ asked # {} /\ ~silent /\ wire = <<>>
    /\ \/ \E s \in subs :
            wire' = <<[Push(s, "delta", UNION Quoted) EXCEPT !.oi = NoValue]>> /\ UNCHANGED faults
       \/ \E k \in {"ack", "wsping", "other"} :
            wire' = <<[kind |-> k]>> /\ UNCHANGED faults
       \/ Fault /\ \E k \in {"garbage", "close"} : wire' = <<[kind |-> k]>>
    /\ UNCHANGED <<venue, market, pc, topics, calls, silent, timers, blocked, chan, shard>>

\* The peer hangs: the connection stays up and swallows our pings; what was
\* sent before and not read yet is lost with it.
GoesSilent ==
    /\ pc = "open" /\ ~silent
    /\ Fault
    /\ silent' = TRUE /\ wire' = <<>>
    /\ UNCHANGED <<venue, market, pc, topics, calls, timers, blocked, chan, shard>>

-----------------------------------------------------------------------------
(* The handlers: what on_message makes of a message.                       *)

\* Frames that carry a value; a bybit delta may carry prices only.
BybitOnMessage(m) ==
    CASE m.kind = "garbage" -> "err"
      [] m.kind = "ack"     -> "none"
      [] m.kind = "data"    -> "payload"
      [] OTHER              -> "raw"

OkxOnMessage(m) ==
    CASE m.kind = "garbage" -> "err"
      [] m.kind = "data"    -> "payload"
      [] OTHER              -> "none"

BitgetOnMessage(m) ==
    CASE m.kind = "garbage" -> "err"
      [] m.kind = "data"    -> "payload"
      [] OTHER              -> "none"

\* A frame of an unknown channel is surfaced too; the parser drops it.
HyperliquidOnMessage(m) ==
    CASE m.kind = "garbage"            -> "err"
      [] m.kind \in {"data", "other"} -> "payload"
      [] OTHER                         -> "none"

OnMessage(m) ==
    CASE venue = "bybit"  -> BybitOnMessage(m)
      [] venue = "okx"    -> OkxOnMessage(m)
      [] venue = "bitget" -> BitgetOnMessage(m)
      [] OTHER            -> HyperliquidOnMessage(m)

-----------------------------------------------------------------------------
(* run_supervisor and connect_once.                                        *)

ReconnectGivesUp ==
    /\ pc' = "dead"
    /\ asked' = {} /\ subs' = {} /\ refused' = {} /\ wire' = <<>> /\ silent' = FALSE
    /\ sincePing' = 0 /\ quiet' = 0
    /\ UNCHANGED <<topics, wait, delay>>

\* connect_once returns for whatever reason: sleep, a bit longer each time.
\* The backoff is never reset; its jitter adds up to the delay itself.
Reconnect ==
    /\ pc' = "backoff"
    /\ wait' \in delay..(2 * delay)
    /\ delay' = IF 2 * delay > MaxDelay THEN MaxDelay ELSE 2 * delay
    /\ asked' = {} /\ subs' = {} /\ refused' = {} /\ wire' = <<>> /\ silent' = FALSE
    /\ sincePing' = 0 /\ quiet' = 0
    /\ UNCHANGED topics

Wake ==
    /\ pc = "backoff" /\ wait = 0
    /\ pc' = "connecting"
    /\ UNCHANGED <<venue, market, link, timers, blocked, chan, shard, faults>>

Connect ==
    /\ pc = "connecting"
    /\ pc' = "subscribing"
    /\ UNCHANGED <<venue, market, link, timers, blocked, chan, shard, faults>>

\* on_connect sends the subscriptions in chunks, here one symbol each.  The
\* answers are not awaited, and the handlers swallow a refusal.
OnConnect(s) ==
    /\ pc = "subscribing" /\ s \in topics \ asked
    /\ asked' = asked \union {s}
    /\ UNCHANGED <<venue, market, pc, topics, subs, refused, wire, silent, timers, blocked,
                   chan, shard, faults>>

Subscribed ==
    /\ pc = "subscribing" /\ asked = topics
    /\ pc' = "open" /\ sincePing' = 0 /\ quiet' = 0
    /\ UNCHANGED <<venue, market, link, wait, delay, blocked, chan, shard, faults>>

\* The connect times out, a send fails, the read fails or the stream ends.
LineFails ==
    /\ pc \in {"connecting", "subscribing", "open"}
    /\ Fault
    /\ Reconnect
    /\ UNCHANGED <<venue, market, blocked, chan, shard>>

\* The ping branch of the select: the loop goes round and arms a new timeout.
PingTick ==
    /\ pc = "open" /\ sincePing >= PingInterval
    /\ sincePing' = 0 /\ quiet' = 0
    /\ UNCHANGED <<venue, market, pc, link, wait, delay, blocked, chan, shard, faults>>

\* The idle timeout of the select fires before anything else.
IdleFires ==
    /\ pc = "open" /\ quiet >= IdleTimeout
    /\ wire = <<>> \/ silent
    /\ Reconnect
    /\ UNCHANGED <<venue, market, blocked, chan, shard, faults>>

\* The read branch: pings are answered, a close frame or a handler error
\* ends the connection, a frame is surfaced through the channel.
ReadMessage ==
    /\ pc = "open" /\ ~silent /\ wire # <<>>
    /\ LET m == Head(wire) IN
         \/ /\ m.kind = "close" \/ (m.kind # "wsping" /\ OnMessage(m) = "err")
            /\ Reconnect /\ UNCHANGED blocked
         \/ /\ m.kind = "wsping" \/ (m.kind # "close" /\ OnMessage(m) = "none")
            /\ wire' = Tail(wire) /\ quiet' = 0
            /\ UNCHANGED <<pc, topics, calls, silent, sincePing, wait, delay, blocked>>
         \/ /\ m.kind \notin {"wsping", "close"} /\ OnMessage(m) \in {"payload", "raw"}
            /\ wire' = Tail(wire) /\ blocked' = m /\ pc' = "sending" /\ quiet' = 0
            /\ UNCHANGED <<topics, calls, silent, sincePing, wait, delay>>
    /\ UNCHANGED <<venue, market, chan, shard, faults>>

DeliverLossy ==
    /\ pc = "sending"
    /\ chan' = IF Len(chan) < ChanCap THEN Append(chan, blocked) ELSE chan
    /\ blocked' = NoFrame /\ pc' = "open" /\ quiet' = 0
    /\ UNCHANGED <<venue, market, link, sincePing, wait, delay, shard, faults>>

\* tx.send waits for room: meanwhile neither pings nor reads happen.
Deliver ==
    /\ pc = "sending" /\ Len(chan) < ChanCap
    /\ chan' = Append(chan, blocked)
    /\ blocked' = NoFrame /\ pc' = "open" /\ quiet' = 0
    /\ UNCHANGED <<venue, market, link, sincePing, wait, delay, shard, faults>>

\* Time passes; a stalled runtime may let it pass beyond a due ping.
Tick ==
    \/ /\ pc = "backoff" /\ wait > 0
       /\ wait' = wait - 1
       /\ UNCHANGED <<venue, market, pc, link, sincePing, quiet, delay, blocked, chan, shard, faults>>
    \/ /\ pc = "open" /\ quiet < IdleTimeout
       /\ quiet' = quiet + 1
       /\ sincePing' = IF sincePing < PingInterval THEN sincePing + 1 ELSE sincePing
       /\ UNCHANGED <<venue, market, pc, link, wait, delay, blocked, chan, shard, faults>>

-----------------------------------------------------------------------------
(* The shard tasks.                                                        *)

MergeReplacing(st, m) ==
    IF m.type = "snapshot" THEN [oi |-> m.oi, known |-> m.prices]
    ELSE [oi |-> IF m.oi # NoValue THEN m.oi ELSE st.oi, known |-> st.known \union m.prices]

\* SymbolState::merge: present fields overwrite, absent ones stay; so for a
\* snapshot as for a delta.
Merge(st, m) ==
    [oi |-> IF m.oi # NoValue THEN m.oi ELSE st.oi, known |-> st.known \union m.prices]

\* to_raw and enrich_bybit: the mark price if ever seen, else the last price.
PriceOf(st) ==
    IF "mark" \in st.known THEN "mark" ELSE IF "last" \in st.known THEN "last" ELSE "none"

\* run_bybit_shard: merge, and emit when the value changed.
BybitShard(m) ==
    LET st == Merge(state[m.sym], m) IN
      [st |-> st, emit |-> st.oi # state[m.sym].oi, price |-> PriceOf(st)]

\* extract_oi_update and enrich_okx: a frame without a value is dropped; the
\* live path has no price.
OkxExtract(m) == [oi |-> m.oi, price |-> "none"]

BitgetExtract(m) == [oi |-> m.oi, price |-> IF "mark" \in m.prices THEN "mark" ELSE "none"]

HyperliquidExtract(m) == [oi |-> m.oi, price |-> IF "mark" \in m.prices THEN "mark" ELSE "none"]

EmitOnChange(s, upd) ==
    [st    |-> IF upd.oi = NoValue THEN state[s] ELSE [state[s] EXCEPT !.oi = upd.oi],
     emit  |-> upd.oi \notin {NoValue, state[s].oi},
     price |-> upd.price]

\* The other shards: a repeated value is dropped before the aggregator.
OkxShard(m) == EmitOnChange(m.sym, OkxExtract(m))
BitgetShard(m) == EmitOnChange(m.sym, BitgetExtract(m))
HyperliquidShard(m) == EmitOnChange(m.sym, HyperliquidExtract(m))

ShardEmitsAlways(m) ==
    IF venue = "bybit" THEN [BybitShard(m) EXCEPT !.emit = m.oi # NoValue]
    ELSE [OkxShard(m) EXCEPT !.emit = m.oi # NoValue]

Shard(m) ==
    CASE venue = "bybit"  -> BybitShard(m)
      [] venue = "okx"    -> OkxShard(m)
      [] venue = "bitget" -> BitgetShard(m)
      [] OTHER            -> HyperliquidShard(m)

\* One frame: skip what is not data, fold a sample, and publish the bar if
\* this collector leads.
Recv ==
    /\ task = "recv" /\ chan # <<>>
    /\ chan' = Tail(chan)
    /\ LET m == Head(chan) IN
         IF m.kind # "data" THEN UNCHANGED shard
         ELSE LET r == Shard(m) IN
                /\ state' = [state EXCEPT ![m.sym] = r.st]
                /\ IF r.emit
                   THEN /\ emitted' = [emitted EXCEPT ![m.sym] = r.st.oi]
                        /\ priced' = [priced EXCEPT ![m.sym] = r.price]
                        /\ samples' = [samples EXCEPT ![m.sym] = @ + 1]
                        /\ task' \in {"recv", "publish"}
                   ELSE UNCHANGED <<emitted, priced, samples, task>>
    /\ UNCHANGED <<venue, market, pc, link, timers, blocked, faults>>

\* publish() returns, with success or an error that is only logged.
Published ==
    /\ task = "publish"
    /\ task' = "recv"
    /\ UNCHANGED <<venue, market, pc, link, timers, blocked, chan, state, emitted, priced,
                   samples, faults>>

\* What the supervisor does where it has no choice.
Proceed ==
    \/ LiveTask \/ Wake \/ Connect \/ Subscribed \/ Deliver
    \/ \E s \in Symbol : OnConnect(s)

ShardTask == Recv \/ Published

Next ==
    \/ Proceed \/ PingTick \/ IdleFires \/ ReadMessage
    \/ LineFails \/ Tick
    \/ ShardTask
    \/ Chatter \/ GoesSilent
    \/ \E s \in Symbol : VenueAccepts(s) \/ VenueRefuses(s) \/ VenueUpdate(s)

Spec == Init /\ [][Next]_vars

\* Time passes, the runtime polls both tasks (the select branches in turn),
\* and publish() returns.  The venue owes nothing, not even an answer.
FairSpec ==
    /\ Spec
    /\ WF_vars(Proceed) /\ WF_vars(Tick) /\ WF_vars(ShardTask)
    /\ SF_vars(PingTick) /\ SF_vars(IdleFires) /\ SF_vars(ReadMessage)

-----------------------------------------------------------------------------
(* Properties.                                                             *)

\* A value of s is on its way to the shard.
Underway(s) ==
    LET Carries(m) == m.kind = "data" /\ m.sym = s
    IN  \/ \E i \in 1..Len(wire) : Carries(wire[i])
        \/ \E i \in 1..Len(chan) : Carries(chan[i])
        \/ Carries(blocked)

\* Of an accepted subscription the shard's view is the venue's value unless a
\* frame is still on its way: neither a full channel, a reconnect (whose
\* missed deltas only the next snapshot brings back) nor a price-only or
\* undecodable frame loses a value (ws.rs:140-170, bybit/stream.rs:40-72).
CaughtUp ==
    \A s \in subs : ~silent /\ ~Underway(s) => state[s].oi = oi[s]

\* Each value reaches the aggregator at most once and in the venue's order,
\* across reconnects and the frames still queued from the old connection
\* (live.rs:213-222: repeats must not bump the bar's counter).
EachValueOnce ==
    [][\A s \in Symbol : samples'[s] # samples[s] => emitted'[s] > emitted[s]]_vars

\* A bybit symbol once priced by its mark stays so: a reconnect whose snapshot
\* lacks the mark does not turn samples back to unpriced ones.
MarkPriceKept ==
    [][\A s \in Symbol : venue = "bybit" /\ priced[s] = "mark" => priced'[s] = "mark"]_vars

\* However many failures there were and however far the backoff has grown, the
\* supervisor comes back to a connection on which it has asked for every symbol
\* it was started for; and once failures and value changes stop, the shard
\* holds every value of the subscriptions the venue accepts - unless the peer
\* hangs.
EventuallyCaughtUp ==
    /\ []<>(silent \/ asked = topics)
    /\ <>[](silent \/ \A s \in subs : state[s].oi = oi[s])

\* ws.rs:8 - dead connections are detected by absence of traffic over
\* idle_timeout: a peer that has gone silent is given up.
SilentPeerReconnected == silent ~> ~silent
=============================================================================
