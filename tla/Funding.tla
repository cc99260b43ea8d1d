------------------------------ MODULE Funding ------------------------------
(***************************************************************************)
(* Settlement events of one instrument.  Two producers feed the same table *)
(* on every collector: run_exchange_loop derives an event whenever the     *)
(* venue's next_funding_ts rolls forward (runner.rs), and the sweep of     *)
(* funding_sweep.rs pulls the venue's history from the newest stored event *)
(* on.  Only the lease holder's writes reach ClickHouse.                   *)
(*                                                                         *)
(* Time is counted in slots of ten minutes.  In each slot every node polls *)
(* at least once, starts its sweep if its sleep has ended, and a free      *)
(* lease finds an owner (failover takes seconds).  A sweep walks every     *)
(* instrument at one request a second; this one is visited, and its events *)
(* are written, somewhere on the way.  Rates and prices are left out: an   *)
(* event is its settlement time.  The venue is one of Venue, and its       *)
(* adapter (FundingFeeds) decides what an answer is worth.                 *)
(***************************************************************************)
EXTENDS FundingFeeds

CONSTANTS
    Node,
    Venue,         \* the exchanges looked at
    NoNode,        \* nobody holds the lease
    Interval,      \* slots between two settlements
    SweepInterval, \* slots a sweep task sleeps between two sweeps
    SweepTime,     \* slots a sweep takes at most
    NotDueBefore,  \* the due-gate of the sweep
    Cooldown,      \* WAF_COOLDOWN, in slots
    MaxTime,       \* bound on the clock
    MaxFaults      \* bound on failed calls, lost leases and crashes

ASSUME FundingAssumption ==
    /\ NoNode \notin Node /\ Venue \subseteq Exchange
    /\ Interval \in Nat \ {0} /\ SweepInterval \in Nat \ {0} /\ SweepTime \in Nat
    /\ NotDueBefore \in Nat /\ Cooldown \in Nat
    /\ MaxTime \in Nat \ {0} /\ MaxFaults \in Nat

\* From one visit of the instrument to the end of the next sweep.
Cycle == SweepInterval + 2 * SweepTime

\* The settings sweep_once relies on: a cycle ends between any two
\* settlements, the due-gate opens before the next one, and a banned venue is
\* left alone for longer than the usual sleep (30 min of sleep and 10 of
\* sweeping, 50 min and 4 h, with settlements an hour apart or more).
SweepBudget ==
    /\ Cycle < Interval
    /\ NotDueBefore <= Interval
    /\ SweepInterval <= Cooldown

VARIABLES
    venue,    \* whose instrument this is; never changes
    now,
    lead,     \* the node whose is_leader() is true, or NoNode
    stored,   \* settlement times in oi.funding_events
    cursor,   \* funding_cursor of each node: the next settlement last seen
    event,    \* the event a poll derived and has not written yet
    polled,   \* has the node polled in this slot?
    spc,      \* where each node's sweep stands
    wake,     \* when its sleep ends; while it sweeps, when the sweep ends at the latest
    since,    \* the cursor it looked up
    batch,    \* the events it fetched
    faults

poll == <<cursor, event, polled>>
sweep == <<spc, wake, since, batch>>
vars == <<venue, now, lead, stored, poll, sweep, faults>>

Fault == faults < MaxFaults /\ faults' = faults + 1

\* The venue: when it settles, and what it announces.
Settlement == {t \in 1..MaxTime : t % Interval = 0}
Settled == {s \in Settlement : s <= now}
NextFunding == (now \div Interval + 1) * Interval

GoodTicker == [rate |-> "ok", next |-> NextFunding, after |-> NextFunding + Interval]
OddTicker ==
    [rate : Field, next : {NoTime, NextFunding}, after : {NoTime, NextFunding + Interval}]
        \ {GoodTicker}

GoodRow(s) == [ts |-> s, rate |-> "ok", realized |-> "ok"]
GoodHistory == {GoodRow(s) : s \in Settled}
OddRow(s) == [ts : {s}, rate : Field, realized : Field] \ {GoodRow(s)}

Init ==
    /\ venue \in Venue
    /\ now = 1
    /\ lead = NoNode
    /\ stored = {}
    /\ cursor = [n \in Node |-> NoTime]
    /\ event = [n \in Node |-> NoTime]
    /\ polled = [n \in Node |-> FALSE]
    /\ spc = [n \in Node |-> "sleep"]
    /\ wake = [n \in Node |-> 1]
    /\ since = [n \in Node |-> NoTime]
    /\ batch = [n \in Node |-> {}]
    /\ faults = 0

-----------------------------------------------------------------------------
(* run_exchange_loop: the funding part of an iteration.                    *)

DeriveAtNewBoundary(prev, next) ==
    IF prev # NoTime /\ next > prev THEN next ELSE NoTime

\* A roll-over means that the OLD boundary has settled.
Derive(prev, next) == IF prev # NoTime /\ next > prev THEN prev ELSE NoTime

\* A bar without a next settlement neither derives nor moves the cursor.
Polled(n, bar) ==
    IF bar.next = NoTime THEN UNCHANGED <<cursor, event>>
    ELSE /\ event' = [event EXCEPT ![n] = Derive(cursor[n], bar.next)]
         /\ cursor' = [cursor EXCEPT ![n] = bar.next]

\* fetch_funding answers, now and then with a ticker that is not complete.
PollFetch(n) ==
    /\ event[n] = NoTime
    /\ \/ Polled(n, FetchFunding(venue, GoodTicker)) /\ UNCHANGED faults
       \/ Fault /\ \E r \in OddTicker : Polled(n, FetchFunding(venue, r))
    /\ polled' = [polled EXCEPT ![n] = TRUE]
    /\ UNCHANGED <<venue, now, lead, stored, sweep>>

PollFails(n) ==
    /\ event[n] = NoTime
    /\ Fault
    /\ polled' = [polled EXCEPT ![n] = TRUE]
    /\ UNCHANGED <<venue, now, lead, stored, cursor, event, sweep>>

\* upsert_funding_events through the gate; an event not written is dropped.
PollWrite(n) ==
    /\ event[n] # NoTime
    /\ event' = [event EXCEPT ![n] = NoTime]
    /\ \/ lead = n /\ stored' = stored \union {event[n]} /\ UNCHANGED faults
       \/ lead = n /\ Fault /\ UNCHANGED stored
       \/ lead # n /\ UNCHANGED <<stored, faults>>
    /\ UNCHANGED <<venue, now, lead, cursor, polled, sweep>>

-----------------------------------------------------------------------------
(* spawn_funding_sweep and sweep_once.                                     *)

DueAfterTwoIntervals(s, t) == s = NoTime \/ t - s > 2 * Interval

\* The due-gate: a fresh event cannot have a successor yet.
Due(s, t) == s = NoTime \/ t - s >= NotDueBefore

Latest == IF stored = {} THEN NoTime ELSE CHOOSE s \in stored : \A t \in stored : t <= s

Sleep(n, slots) ==
    /\ spc' = [spc EXCEPT ![n] = "sleep"]
    /\ wake' = [wake EXCEPT ![n] = now + slots]

\* The rest of the sweep is about other instruments; then the task sleeps.
SleepAfterSweep(n, slots) == \E rest \in 0..(wake[n] - now) : Sleep(n, rest + slots)

\* The sleep is over: a follower skips, the leader walks its instruments.
SweepWakes(n) ==
    /\ spc[n] = "sleep" /\ now >= wake[n]
    /\ IF lead # n THEN Sleep(n, SweepInterval)
       ELSE /\ spc' = [spc EXCEPT ![n] = "visit"]
            /\ wake' = [wake EXCEPT ![n] = now + SweepTime]
    /\ UNCHANGED <<venue, now, lead, stored, poll, since, batch, faults>>

\* It is this instrument's turn: look its cursor up (a failed lookup means no
\* cursor) and ask the venue only when it is due.
SweepVisits(n) ==
    /\ spc[n] = "visit"
    /\ \/ since' = [since EXCEPT ![n] = Latest] /\ UNCHANGED faults
       \/ since' = [since EXCEPT ![n] = NoTime] /\ Fault
    /\ IF Due(since'[n], now)
       THEN spc' = [spc EXCEPT ![n] = "fetch"] /\ UNCHANGED wake
       ELSE SleepAfterSweep(n, SweepInterval)
    /\ UNCHANGED <<venue, now, lead, stored, poll, batch>>

\* The history from the cursor on, perhaps with a row that is not complete.
SweepFetch(n) ==
    /\ spc[n] = "fetch"
    /\ \/ /\ batch' = [batch EXCEPT ![n] = History(venue, GoodHistory, since[n])]
          /\ UNCHANGED faults
       \/ \E s \in Settled : \E r \in OddRow(s) :
              /\ Fault
              /\ batch' = [batch EXCEPT ![n] =
                              History(venue, (GoodHistory \ {GoodRow(s)}) \union {r}, since[n])]
    /\ IF batch'[n] = {} THEN SleepAfterSweep(n, SweepInterval)
       ELSE spc' = [spc EXCEPT ![n] = "write"] /\ UNCHANGED wake
    /\ UNCHANGED <<venue, now, lead, stored, poll, since>>

\* The fetch fails; enough auth failures back the whole venue off.
SweepFetchFails(n) ==
    /\ spc[n] = "fetch"
    /\ Fault
    /\ \E status \in Status, code \in Code :
          LET err == Call(venue, status, code) IN
          /\ err # "ok"
          /\ SleepAfterSweep(n, SweepInterval)
             \/ (err = "auth" /\ SleepAfterSweep(n, Cooldown))
    /\ UNCHANGED <<venue, now, lead, stored, poll, since, batch>>

\* With a full chunk or at the end of the sweep the events are written; the
\* gate is read again.
SweepWrite(n) ==
    /\ spc[n] = "write"
    /\ \/ lead = n /\ stored' = stored \union batch[n] /\ UNCHANGED faults
       \/ lead = n /\ Fault /\ UNCHANGED stored
       \/ lead # n /\ UNCHANGED <<stored, faults>>
    /\ batch' = [batch EXCEPT ![n] = {}]
    /\ SleepAfterSweep(n, SweepInterval)
    /\ UNCHANGED <<venue, now, lead, poll, since>>

-----------------------------------------------------------------------------
(* The lease, the process and time.                                        *)

Acquire(n) ==
    /\ lead = NoNode
    /\ lead' = n
    /\ UNCHANGED <<venue, now, stored, poll, sweep, faults>>

LoseLease ==
    /\ lead # NoNode
    /\ Fault
    /\ lead' = NoNode
    /\ UNCHANGED <<venue, now, stored, poll, sweep>>

\* The process restarts: its cursor and its sweep start from nothing.
Crash(n) ==
    /\ Fault
    /\ lead' = IF lead = n THEN NoNode ELSE lead
    /\ cursor' = [cursor EXCEPT ![n] = NoTime]
    /\ event' = [event EXCEPT ![n] = NoTime]
    /\ polled' = [polled EXCEPT ![n] = FALSE]
    /\ batch' = [batch EXCEPT ![n] = {}]
    /\ Sleep(n, 0)
    /\ UNCHANGED <<venue, now, stored, since>>

\* Nothing of node n's is due in this slot.
Idle(n) == polled[n] /\ event[n] = NoTime /\ now < wake[n]

Tick ==
    /\ now < MaxTime
    /\ lead # NoNode
    /\ \A n \in Node : Idle(n)
    /\ now' = now + 1
    /\ polled' = [n \in Node |-> FALSE]
    /\ UNCHANGED <<venue, lead, stored, cursor, event, sweep, faults>>

Next ==
    \/ \E n \in Node : \/ PollFetch(n) \/ PollFails(n) \/ PollWrite(n)
                       \/ SweepWakes(n) \/ SweepVisits(n) \/ SweepFetch(n)
                       \/ SweepFetchFails(n) \/ SweepWrite(n) \/ Acquire(n) \/ Crash(n)
    \/ LoseLease \/ Tick

Spec == Init /\ [][Next]_vars

-----------------------------------------------------------------------------
(* Properties.                                                             *)

\* Types of the table, the two producers and the lease.
TypeOK ==
    /\ venue \in Venue
    /\ now \in 1..MaxTime
    /\ lead \in Node \union {NoNode}
    /\ stored \subseteq Nat \ {NoTime}
    /\ cursor \in [Node -> Nat] /\ event \in [Node -> Nat]
    /\ polled \in [Node -> BOOLEAN]
    /\ spc \in [Node -> {"sleep", "visit", "fetch", "write"}]
    /\ wake \in [Node -> Nat] /\ (\A n \in Node : now <= wake[n]) /\ since \in [Node -> Nat]
    /\ batch \in [Node -> SUBSET Settlement]
    /\ faults \in 0..MaxFaults

\* No marker is stored for a settlement that has not taken place, whichever
\* producer wrote it and however its clock, cursor and lease raced: a roll-over
\* of next_funding_ts means that the old boundary has settled
\* (runner.rs:453-455).
OnlySettledStored == stored \subseteq Settled

\* Venues whose adapters never announce a settlement live on the sweep alone.
Unannounced == {"hyperliquid", "mexc"}

\* A settlement reaches the table at most one sweep cycle late
\* (funding_sweep.rs:150-152) although one call fails, an answer is
\* incomplete, the lease changes hands or a node restarts: each producer makes
\* up for the other.  Without announcements there is only the sweep, and one
\* refused call may cost a cooldown and the sweeps around it - but never the
\* event.
StoredWithinOneCycle ==
    \A s \in Settled :
        now > s + Cycle
                + (IF venue \in Unannounced /\ faults > 0 THEN Cooldown + 2 * SweepTime ELSE 0)
            => s \in stored
=============================================================================
