----------------------------- MODULE HaStorage -----------------------------
(***************************************************************************)
(* The storage stack of a two-node deployment as runner.rs wires it: each  *)
(* collector writes through CompositeRepository (cache and pub/sub) over   *)
(* WalBacked over LeaderGatedRepo over ClickHouse, its drainer writes to   *)
(* the gated repository, and the resync tool of main.rs writes through an  *)
(* ungated CompositeRepository without a log.  One instrument; a bar is a  *)
(* minute and its author.                                                  *)
(*                                                                         *)
(* The lease is the abstract one of LeaderElection and each log is a       *)
(* DurableQueue (Wal refines it): a set of minutes taken oldest first.     *)
(* ClickHouse is the set of minutes that have a row: a repeated insert     *)
(* replaces it at the next merge (ReplacingMergeTree).                     *)
(***************************************************************************)
EXTENDS Integers, Sequences, FiniteSets, FiniteSetsExt

CONSTANTS
    Node,        \* the collectors
    NoNode,      \* nobody holds the lease
    MaxMinute,   \* bound on the minutes collected
    Poison,      \* minutes whose batch ClickHouse may reject for good
    MaxResync,   \* bound on the buckets resynced
    MaxHandover, \* bound on lost leases
    MaxFaults    \* bound on failed calls, crashes and expired files

ASSUME HaStorageAssumption ==
    /\ MaxMinute \in Nat /\ MaxResync \in Nat
    /\ MaxHandover \in Nat /\ MaxFaults \in Nat
    /\ NoNode \notin Node /\ "resync" \notin Node
    /\ Poison \subseteq 1..MaxMinute

Minute == 1..MaxMinute
Bar(m, by) == [minute |-> m, by |-> by]
NoBar == [minute |-> 0]

VARIABLES
    poison,     \* minutes whose batch is rejected whenever it is sent
    leader,     \* the node whose gate is open
    minute,     \* the minute each exchange loop is at
    pc,         \* where its upsert_snapshots stands
    wal,        \* minutes pending in each node's log
    dpc, dm,    \* where each drainer stands, and the minute it delivers
    stored,     \* minutes with a row in ClickHouse
    cache,      \* oi:latest in Redis
    rpc, rm,    \* where the resync tool stands, and its bucket
    resyncs,    \* buckets resynced so far
    lost,       \* bars whose author was told so, or that aged out (history)
    handovers, faults

loops == <<minute, pc>>
drainers == <<dpc, dm>>
tool == <<rpc, rm, resyncs>>
vars == <<poison, leader, loops, wal, drainers, stored, cache, tool, lost, handovers, faults>>

Fault == faults < MaxFaults /\ faults' = faults + 1

Init ==
    /\ poison \in SUBSET Poison
    /\ leader = NoNode
    /\ minute = [n \in Node |-> 0] /\ pc = [n \in Node |-> "idle"]
    /\ wal = [n \in Node |-> {}]
    /\ dpc = [n \in Node |-> "sleep"] /\ dm = [n \in Node |-> 0]
    /\ stored = {}
    /\ cache = NoBar
    /\ rpc = "off" /\ rm = 0 /\ resyncs = 0
    /\ lost = {} /\ handovers = 0 /\ faults = 0

-----------------------------------------------------------------------------
(* ClickHouse and Redis as the repositories use them.                      *)

\* ClickHouseRepo::upsert_snapshots: the batch is one insert.
Insert(m) == m \notin poison /\ stored' = stored \union {m}

\* The insert is refused, fails, or only its answer is lost.
InsertErr(m) ==
    IF m \in poison THEN UNCHANGED <<stored, faults>>
    ELSE Fault /\ (Insert(m) \/ UNCHANGED stored)

\* RedisCache::bulk_set_latest: SET EX, whatever the key holds.
BulkSetLatest(m, by) == cache' = Bar(m, by)

\* LATEST_TTL_SECS after the last SET.
CacheExpires ==
    /\ cache # NoBar
    /\ cache' = NoBar
    /\ UNCHANGED <<poison, handovers, leader, loops, wal, drainers, stored, tool, lost, faults>>

-----------------------------------------------------------------------------
(* CompositeRepository::upsert_snapshots of an exchange loop.              *)

\* WalBacked appends first; an append error skips the insert.  Right after
\* the append LeaderGatedRepo refuses a follower's insert: the file stays.
\* The loop takes its minutes in order.
WalAppend(n) ==
    /\ pc[n] = "idle" /\ minute[n] < MaxMinute
    /\ minute' = [minute EXCEPT ![n] = @ + 1]
    /\ \/ /\ wal' = [wal EXCEPT ![n] = @ \union {minute'[n]}]
          /\ pc' = [pc EXCEPT ![n] = IF leader = n THEN "insert" ELSE "regate"]
          /\ UNCHANGED <<lost, faults>>
       \/ /\ Fault
          /\ lost' = lost \union {Bar(minute'[n], n)}
          /\ pc' = [pc EXCEPT ![n] = "regate"]
          /\ UNCHANGED wal
    /\ UNCHANGED <<poison, handovers, leader, drainers, stored, cache, tool>>

\* The awaited insert: on success the file is acked, else it stays.
Upsert(n) ==
    /\ pc[n] = "insert"
    /\ \/ /\ Insert(minute[n])
          /\ wal' = [wal EXCEPT ![n] = @ \ {minute[n]}]
          /\ UNCHANGED faults
       \/ InsertErr(minute[n]) /\ UNCHANGED wal
    /\ pc' = [pc EXCEPT ![n] = "regate"]
    /\ UNCHANGED <<poison, handovers, leader, minute, drainers, cache, tool, lost>>

\* The gate is read again, after the awaited write, for cache and pub/sub.
Regate(n) ==
    /\ pc[n] = "regate"
    /\ pc' = [pc EXCEPT ![n] = IF leader = n THEN "cache" ELSE "idle"]
    /\ UNCHANGED <<poison, handovers, leader, minute, wal, drainers, stored, cache, tool, lost, faults>>

\* bulk_set_latest, then publish (whose message nobody keeps); an error of
\* either is only logged.  Both happen whatever the write returned.
SetCacheAndPublish(n) ==
    /\ pc[n] = "cache"
    /\ \/ BulkSetLatest(minute[n], n) /\ UNCHANGED faults
       \/ Fault /\ UNCHANGED cache
    /\ pc' = [pc EXCEPT ![n] = "idle"]
    /\ UNCHANGED <<poison, handovers, leader, minute, wal, drainers, stored, tool, lost>>

-----------------------------------------------------------------------------
(* The drainer: its target is the gated repository, so a replayed minute   *)
(* reaches neither the cache nor pub/sub.                                  *)

DrainerTakes(n) ==
    /\ dpc[n] = "sleep" /\ leader = n /\ wal[n] # {}
    /\ dpc' = [dpc EXCEPT ![n] = "insert"]
    /\ dm' = [dm EXCEPT ![n] = Min(wal[n])]
    /\ UNCHANGED <<poison, handovers, leader, loops, wal, stored, cache, tool, lost, faults>>

DrainAcksAnyway(n) ==
    /\ dpc[n] = "insert"
    /\ \/ Insert(dm[n]) /\ UNCHANGED faults
       \/ InsertErr(dm[n])
    /\ wal' = [wal EXCEPT ![n] = @ \ {dm[n]}]
    /\ dpc' = [dpc EXCEPT ![n] = "sleep"] /\ dm' = [dm EXCEPT ![n] = 0]
    /\ UNCHANGED <<poison, handovers, leader, loops, cache, tool, lost>>

DrainNeverAcks(n) ==
    /\ dpc[n] = "insert"
    /\ \/ Insert(dm[n]) /\ UNCHANGED faults
       \/ InsertErr(dm[n])
    /\ UNCHANGED wal
    /\ dpc' = [dpc EXCEPT ![n] = "sleep"] /\ dm' = [dm EXCEPT ![n] = 0]
    /\ UNCHANGED <<poison, handovers, leader, loops, cache, tool, lost>>

DrainThroughComposite(n) ==
    /\ dpc[n] = "insert"
    /\ \/ /\ Insert(dm[n])
          /\ wal' = [wal EXCEPT ![n] = @ \ {dm[n]}]
          /\ UNCHANGED faults
       \/ InsertErr(dm[n]) /\ UNCHANGED wal
    /\ BulkSetLatest(dm[n], n)
    /\ dpc' = [dpc EXCEPT ![n] = "sleep"] /\ dm' = [dm EXCEPT ![n] = 0]
    /\ UNCHANGED <<poison, handovers, leader, loops, tool, lost>>

\* stored and acked, or the cycle ends and the file stays the oldest one.
Drain(n) ==
    /\ dpc[n] = "insert"
    /\ \/ /\ Insert(dm[n])
          /\ wal' = [wal EXCEPT ![n] = @ \ {dm[n]}]
          /\ UNCHANGED faults
       \/ InsertErr(dm[n]) /\ UNCHANGED wal
    /\ dpc' = [dpc EXCEPT ![n] = "sleep"] /\ dm' = [dm EXCEPT ![n] = 0]
    /\ UNCHANGED <<poison, handovers, leader, loops, cache, tool, lost>>

\* A follower deletes files older than follower_max_age.
Reap(n) ==
    /\ leader # n /\ wal[n] # {}
    /\ Fault
    /\ wal' = [wal EXCEPT ![n] = @ \ {Min(wal[n])}]
    /\ lost' = lost \union {Bar(Min(wal[n]), n)}
    /\ UNCHANGED <<poison, handovers, leader, loops, drainers, stored, cache, tool>>

-----------------------------------------------------------------------------
(* oi-collector resync: rewrites past minutes, past the gate and the log.  *)

\* resync_recent and run_resync: any bucket up to the current minute.
Resync(m) ==
    /\ rpc = "off" /\ resyncs < MaxResync
    /\ \E n \in Node : m <= minute[n]
    /\ rm' = m /\ rpc' = "insert" /\ resyncs' = resyncs + 1
    /\ UNCHANGED <<poison, handovers, leader, loops, wal, drainers, stored, cache, lost, faults>>

\* resync_bucket: the insert's error is returned, but only after the
\* composite repository has set the cache and published.
ResyncUpsert ==
    /\ rpc = "insert"
    /\ \/ Insert(rm) /\ UNCHANGED <<lost, faults>>
       \/ InsertErr(rm) /\ lost' = lost \union {Bar(rm, "resync")}
    /\ rpc' = "cache"
    /\ UNCHANGED <<poison, handovers, leader, loops, wal, drainers, cache, rm, resyncs>>

ResyncCache ==
    /\ rpc = "cache"
    /\ \/ BulkSetLatest(rm, "resync") /\ UNCHANGED faults
       \/ Fault /\ UNCHANGED cache
    /\ rpc' = "off" /\ rm' = 0
    /\ UNCHANGED <<poison, handovers, leader, loops, wal, drainers, stored, resyncs, lost>>

-----------------------------------------------------------------------------
(* The lease and the processes.                                            *)

Acquire(n) ==
    /\ leader = NoNode
    /\ leader' = n
    /\ UNCHANGED <<poison, handovers, loops, wal, drainers, stored, cache, tool, lost, faults>>

LoseLease ==
    /\ leader # NoNode /\ handovers < MaxHandover
    /\ leader' = NoNode /\ handovers' = handovers + 1
    /\ UNCHANGED <<poison, loops, wal, drainers, stored, cache, tool, lost, faults>>

\* The process dies at any step and comes back at the current minute; an
\* insert in flight may have landed.  The log survives.
Crash(n) ==
    /\ Fault
    /\ leader' = IF leader = n THEN NoNode ELSE leader
    /\ minute' = [minute EXCEPT ![n] = Max({minute[k] : k \in Node})]
    /\ pc' = [pc EXCEPT ![n] = "idle"]
    /\ dpc' = [dpc EXCEPT ![n] = "sleep"] /\ dm' = [dm EXCEPT ![n] = 0]
    /\ \/ UNCHANGED stored
       \/ pc[n] = "insert" /\ Insert(minute[n])
       \/ dpc[n] = "insert" /\ Insert(dm[n])
    /\ UNCHANGED <<poison, handovers, wal, cache, tool, lost>>

LoopStep(n) == WalAppend(n) \/ Upsert(n) \/ Regate(n) \/ SetCacheAndPublish(n)

Next ==
    \/ \E n \in Node : \/ LoopStep(n) \/ DrainerTakes(n) \/ Drain(n) \/ Reap(n)
                       \/ Acquire(n) \/ Crash(n)
    \/ \E m \in Minute : Resync(m)
    \/ ResyncUpsert \/ ResyncCache \/ CacheExpires \/ LoseLease

Spec == Init /\ [][Next]_vars

\* Every call returns, the runtime polls the tasks, a standby takes a free
\* lease (Lease), Redis expires keys.
FairSpec ==
    /\ Spec
    /\ \A n \in Node :
         /\ WF_vars(LoopStep(n))
         /\ WF_vars(DrainerTakes(n)) /\ WF_vars(Drain(n))
         /\ WF_vars(Acquire(n))
    /\ WF_vars(ResyncUpsert) /\ WF_vars(ResyncCache) /\ WF_vars(CacheExpires)

-----------------------------------------------------------------------------
(* Properties.                                                             *)

BarType == [minute : Minute, by : Node \union {"resync"}]

\* Types of the loops, the logs, the drainers, the tool and the two stores.
TypeOK ==
    /\ poison \subseteq Minute
    /\ leader \in Node \union {NoNode}
    /\ minute \in [Node -> 0..MaxMinute]
    /\ pc \in [Node -> {"idle", "insert", "regate", "cache"}]
    /\ wal \in [Node -> SUBSET Minute]
    /\ dpc \in [Node -> {"sleep", "insert"}] /\ dm \in [Node -> 0..MaxMinute]
    /\ stored \subseteq Minute
    /\ cache \in BarType \union {NoBar}
    /\ rpc \in {"off", "insert", "cache"} /\ rm \in 0..MaxMinute
    /\ resyncs \in 0..MaxResync
    /\ lost \subseteq BarType
    /\ handovers \in 0..MaxHandover /\ faults \in 0..MaxFaults

\* A bar shown to clients through the cache is in ClickHouse or in the log of
\* the node that computed it, unless its author was told that it was not
\* kept: neither the second reading of the gate, a failover between append,
\* insert and cache, nor the drainer working on the same file shows a bar that
\* silently disappears (composite.rs:86-110).
ShownIsKept ==
    cache # NoBar =>
        \/ cache.minute \in stored
        \/ cache.by # "resync" /\ cache.minute \in wal[cache.by]
        \/ Bar(cache.minute, cache.by) \in lost

\* The cache entry goes back to an older minute only when somebody else than
\* the author of the newer bar sets it - a new leader that lags behind, a
\* deposed one whose SET comes late, the resync: SET has no guard of its own
\* (redis.rs:95), and a collector's own loop, its crashes and the replay of its
\* log never undo what it has shown.
OwnBarsAdvance ==
    [][\A n \in Node :
          cache # NoBar /\ cache' # NoBar /\ cache.by = n /\ cache'.by = n
              => cache.minute <= cache'.minute]_vars

\* A batch ClickHouse always rejects holds up the older-first drain, and only
\* that: every file still pending on a lasting leader is such a batch or
\* waits behind one (wal.rs:539-550).
HeldUpOnlyByPoison ==
    \A n \in Node : <>[](leader = n => \A m \in wal[n] : \E p \in poison \cap wal[n] : p <= m)
=============================================================================
