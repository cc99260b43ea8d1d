----------------------------- MODULE Collector -----------------------------
(***************************************************************************)
(* One exchange of the collector: the minute loop of runner.rs with its    *)
(* MinuteScheduler (scheduler.rs), the OiAggregator it shares with the     *)
(* exchange's WS tasks (aggregator.rs, live.rs), and the hand-over of the  *)
(* flushed bars to storage.                                                *)
(*                                                                         *)
(* What a bar computes is the subject of Ohlc; here a bar is its minute    *)
(* and the set of samples folded into it, so that the properties can speak *)
(* about which sample ended up where.  Minutes are numbered; the clock     *)
(* advances in slots, MinuteLen to a minute.                               *)
(***************************************************************************)
EXTENDS Integers, FiniteSets

CONSTANTS
    Instrument,
    MinuteLen,    \* slots per minute
    Offset,       \* settle offset of the scheduler, in slots
    Live,         \* instruments that have a WS feed beside the REST poll
    MaxTime,      \* bound on the clock
    MaxSamples,   \* bound on the samples observed
    MaxFaults     \* bound on failed fetches and failed writes

ASSUME CollectorAssumption ==
    /\ MinuteLen \in Nat \ {0} /\ Offset \in Nat /\ Live \subseteq Instrument
    /\ MaxTime \in Nat /\ MaxSamples \in Nat /\ MaxFaults \in Nat

NoMinute == -1
NoBar == [bucket |-> NoMinute, ids |-> {}, last |-> 0]

VARIABLES
    now,      \* the wall clock
    pc,       \* where run_exchange_loop stands
    last,     \* MinuteScheduler::last_bucket, also the tick being processed
    wake,     \* when the scheduler's sleep ends
    rest,     \* instruments of the REST answer not yet observed
    bars,     \* OiAggregator::bars, at most one bar per instrument
    keys,     \* flush_through: the instruments collected for removal
    out,      \* flush_through: the bars drained so far
    store,    \* rows handed to storage; a later one replaces an earlier one
    got,      \* every sample observed (history)
    fetched,  \* minutes whose REST sample was observed (history)
    failed,   \* rows whose write failed (history)
    first,    \* the minute of the first tick (history)
    missed,   \* what no REST answer brought: instrument and minute (history)
    faults

loop == <<pc, last, wake, rest>>
flush == <<keys, out>>
schedule == <<first, missed>>
vars == <<now, loop, bars, flush, store, got, fetched, failed, schedule, faults>>

Minute(t) == t \div MinuteLen
Fault == faults < MaxFaults /\ faults' = faults + 1

Init ==
    /\ now \in MinuteLen..(2 * MinuteLen - 1)
    /\ pc = "next" /\ last = NoMinute /\ wake = 0 /\ rest = {}
    /\ bars = [i \in Instrument |-> NoBar]
    /\ keys = {} /\ out = {} /\ store = {}
    /\ got = {} /\ fetched = {} /\ failed = {} /\ first = NoMinute /\ missed = {} /\ faults = 0

-----------------------------------------------------------------------------
(* scheduler.rs                                                            *)

PlanFromClock(prev, t) == Minute(t) - 1

\* The minute to process: the one after the previous, or on the first call
\* the last one that has closed.
Plan(prev, t) == IF prev # NoMinute THEN prev + 1 ELSE Minute(t) - 1

\* When the data of a minute is due.
Deadline(target) == (target + 1) * MinuteLen + Offset

\* next(): decide, then sleep until the deadline, or not at all when late.
NextTick ==
    /\ pc = "next"
    /\ last' = Plan(last, now)
    /\ wake' = Deadline(last')
    /\ pc' = "sleep"
    /\ first' = IF first = NoMinute THEN last' ELSE first
    /\ UNCHANGED <<now, rest, bars, flush, store, got, fetched, failed, missed, faults>>

Wake ==
    /\ pc = "sleep"
    /\ now >= wake
    /\ pc' = "fetch"
    /\ UNCHANGED <<now, last, wake, rest, bars, flush, store, got, fetched, failed, schedule, faults>>

-----------------------------------------------------------------------------
(* aggregator.rs                                                           *)

Start(s) == [bucket |-> s.bucket, ids |-> {s}, last |-> s.at]

ObserveAnyBucket(b, s, sameRecv) ==
    IF b = NoBar THEN Start(s)
    ELSE [b EXCEPT !.ids = @ \union {s}, !.last = s.at]

\* observe(): start a bar, fold into the bar of the same minute, or replace a
\* bar of any other minute.  A second sample with the recv_ts of the first is
\* taken for the one that started the bar.
Observe(b, s, sameRecv) ==
    IF b = NoBar \/ b.bucket # s.bucket THEN Start(s)
    ELSE IF sameRecv /\ Cardinality(b.ids) = 1 THEN b
    ELSE [b EXCEPT !.ids = @ \union {s}, !.last = s.at]

\* A sample of instrument i for minute m is observed now.
Sample(i, m) ==
    /\ Cardinality(got) < MaxSamples
    /\ \E sameRecv \in BOOLEAN :
         LET s == [inst |-> i, bucket |-> m, at |-> now, n |-> Cardinality(got)]
         IN  /\ sameRecv => bars[i].last = now
             /\ got' = got \union {s}
             /\ bars' = [bars EXCEPT ![i] = Observe(@, s, sameRecv)]

-----------------------------------------------------------------------------
(* run_exchange_loop, after the tick                                       *)

\* fetch_oi answers for some of the instruments.
FetchOk ==
    /\ pc = "fetch"
    /\ rest' \in SUBSET Instrument
    /\ missed' = missed \union ((Instrument \ rest') \X {last})
    /\ pc' = "observe"
    /\ UNCHANGED <<now, last, wake, bars, flush, store, got, fetched, failed, first, faults>>

\* fetch_oi fails: `continue`, so nothing is flushed either.
FetchErr ==
    /\ pc = "fetch"
    /\ Fault
    /\ missed' = missed \union (Instrument \X {last})
    /\ pc' = "next"
    /\ UNCHANGED <<now, last, wake, rest, bars, flush, store, got, fetched, failed, first>>

ObserveRestAtClock(i) ==
    /\ pc = "observe"
    /\ i \in rest
    /\ Sample(i, Minute(now))
    /\ rest' = rest \ {i}
    /\ fetched' = fetched \union {<<i, last>>}
    /\ UNCHANGED <<now, pc, last, wake, flush, store, failed, schedule, faults>>

\* The samples carry the minute of the tick, not the minute of the clock.
ObserveRest(i) ==
    /\ pc = "observe"
    /\ i \in rest
    /\ Sample(i, last)
    /\ rest' = rest \ {i}
    /\ fetched' = fetched \union {<<i, last>>}
    /\ UNCHANGED <<now, pc, last, wake, flush, store, failed, schedule, faults>>

CollectBefore ==
    /\ pc = "observe"
    /\ rest = {}
    /\ keys' = {i \in Instrument : bars[i] # NoBar /\ bars[i].bucket < last}
    /\ pc' = "remove"
    /\ UNCHANGED <<now, last, wake, rest, bars, out, store, got, fetched, failed, schedule, faults>>

\* flush_through, first step: which bars are due.
Collect ==
    /\ pc = "observe"
    /\ rest = {}
    /\ keys' = {i \in Instrument : bars[i] # NoBar /\ bars[i].bucket <= last}
    /\ pc' = "remove"
    /\ UNCHANGED <<now, last, wake, rest, bars, out, store, got, fetched, failed, schedule, faults>>

\* flush_through, second step: drain one, whatever its bar is by now.
Remove(i) ==
    /\ pc = "remove"
    /\ i \in keys
    /\ keys' = keys \ {i}
    /\ out' = IF bars[i] = NoBar THEN out ELSE out \union {<<i, bars[i]>>}
    /\ bars' = [bars EXCEPT ![i] = NoBar]
    /\ UNCHANGED <<now, loop, store, got, fetched, failed, schedule, faults>>

Rows == {[inst |-> r[1], bucket |-> r[2].bucket, ids |-> r[2].ids] : r \in out}

\* upsert_snapshots: the rows are in the WAL or in ClickHouse from here on,
\* replacing an earlier row of the same instrument and minute ...
Write ==
    /\ pc = "remove" /\ keys = {}
    /\ store' = {r \in store : \A q \in Rows : q.inst # r.inst \/ q.bucket # r.bucket}
                  \union Rows
    /\ out' = {} /\ pc' = "next"
    /\ UNCHANGED <<now, last, wake, rest, bars, keys, got, fetched, failed, schedule, faults>>

\* ... or, when the WAL append fails, gone: the loop only logs the error.
WriteErr ==
    /\ pc = "remove" /\ keys = {} /\ out # {}
    /\ Fault
    /\ failed' = failed \union {<<r.inst, r.bucket>> : r \in Rows}
    /\ out' = {} /\ pc' = "next"
    /\ UNCHANGED <<now, last, wake, rest, bars, keys, store, got, fetched, schedule>>

-----------------------------------------------------------------------------
(* live.rs: a WS frame is observed into the minute of its arrival.         *)

WsFrame(i) ==
    /\ i \in Live
    /\ Sample(i, Minute(now))
    /\ UNCHANGED <<now, loop, flush, store, fetched, failed, schedule, faults>>

Tick ==
    /\ now < MaxTime
    /\ now' = now + 1
    /\ UNCHANGED <<loop, bars, flush, store, got, fetched, failed, schedule, faults>>

Next ==
    \/ NextTick \/ Wake \/ FetchOk \/ FetchErr
    \/ (\E i \in Instrument : ObserveRest(i) \/ Remove(i) \/ WsFrame(i))
    \/ Collect \/ Write \/ WriteErr \/ Tick

Spec == Init /\ [][Next]_vars

-----------------------------------------------------------------------------
(* Properties.                                                             *)

SampleType == [inst : Instrument, bucket : Nat, at : Nat, n : Nat]

BarType == [bucket : Int, ids : SUBSET SampleType, last : Nat]

\* Types of the loop, the aggregator and the rows; only before the first tick
\* is there no minute.
TypeOK ==
    /\ now \in Nat /\ now >= MinuteLen /\ wake \in Int
    /\ pc \in {"next", "sleep", "fetch", "observe", "remove"}
    /\ last \in Int /\ last >= NoMinute
    /\ pc # "next" => last \in Nat
    /\ first \in Int /\ first >= NoMinute /\ missed \subseteq Instrument \X Int
    /\ rest \subseteq Instrument /\ keys \subseteq Instrument
    /\ got \subseteq SampleType /\ IsFiniteSet(got)
    /\ bars \in [Instrument -> BarType]
    /\ out \subseteq Instrument \X BarType
    /\ store \subseteq [inst : Instrument, bucket : Int, ids : SUBSET SampleType]

\* A bar never mixes minutes or instruments, in the aggregator, on its way
\* out or in storage, whoever observed the samples and when.
NoMinutesMixed ==
    /\ \A i \in Instrument : \A s \in bars[i].ids : s.inst = i /\ s.bucket = bars[i].bucket
    /\ \A r \in out : \A s \in r[2].ids : s.inst = r[1] /\ s.bucket = r[2].bucket
    /\ \A r \in store : \A s \in r.ids : s.inst = r.inst /\ s.bucket = r.bucket

\* Every minute of a REST-only instrument whose sample arrived has a row once
\* the loop has moved on, unless its write failed: processed late rather than
\* dropped (scheduler.rs:21-26).
FetchedMinuteStored ==
    \A f \in fetched :
        \/ f[1] \in Live
        \/ f \in failed
        \/ f[2] = last /\ pc # "next"
        \/ \E r \in store : r.inst = f[1] /\ r.bucket = f[2]

\* The history of a polled instrument has no holes from the first tick on:
\* however iterations overrun, each minute behind the loop has a row, sampled
\* after the minute had closed and settled, unless the venue did not answer
\* for it or its write failed (scheduler.rs:3-6, 65-66).
HistoryWithoutHoles ==
    \A i \in Instrument \ Live, m \in first..(IF pc = "next" THEN last ELSE last - 1) :
        \/ first = NoMinute
        \/ <<i, m>> \in missed \union failed
        \/ \E r \in store :
              /\ r.inst = i /\ r.bucket = m /\ r.ids # {}
              /\ \A s \in r.ids : s.at >= (m + 1) * MinuteLen + Offset

Complete(r) == r.ids = {s \in got : s.inst = r.inst /\ s.bucket = r.bucket}

\* A stored row of a REST-only instrument holds every sample observed for its
\* minute, and a late tick does not put it under another minute.
RestRowComplete == \A r \in store : r.inst \notin Live => Complete(r)

\* A stored row holds every sample observed for its minute, the WS samples of
\* the minute included (README.md:16-19).
StoredRowComplete == \A r \in store : Complete(r)
=============================================================================
