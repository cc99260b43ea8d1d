---------------------------- MODULE DurableQueue ----------------------------
(***************************************************************************)
(* What the write-ahead log promises for a batch that was accepted: it is  *)
(* queued until it has been delivered to ClickHouse at least once, unless  *)
(* an operator-visible policy (quarantine of a damaged file, reaping on a  *)
(* long-running follower) sets it aside.                                   *)
(***************************************************************************)
CONSTANT Batch

VARIABLES
    accepted,    \* batches handed over to the queue
    queued,      \* batches waiting for a (re)delivery
    delivered,   \* batches ClickHouse has
    setAside     \* batches quarantined or reaped

queueVars == <<accepted, queued, delivered, setAside>>

\* The queue may have been left full by an earlier process.
QueueInit ==
    /\ accepted \subseteq Batch /\ queued = accepted
    /\ delivered = {} /\ setAside = {}

Accept(b) ==
    /\ b \notin accepted
    /\ accepted' = accepted \union {b}
    /\ queued' = queued \union {b}
    /\ UNCHANGED <<delivered, setAside>>

\* Some accepted batches reach ClickHouse, perhaps not for the first time.
Deliver(S) ==
    /\ S \subseteq accepted
    /\ delivered' = delivered \union S
    /\ UNCHANGED <<accepted, queued, setAside>>

\* A batch leaves the queue only once it has been delivered ...
Release(b) ==
    /\ b \in queued /\ b \in delivered
    /\ queued' = queued \ {b}
    /\ UNCHANGED <<accepted, delivered, setAside>>

\* ... or by policy.
SetAside(b) ==
    /\ b \in queued
    /\ queued' = queued \ {b}
    /\ setAside' = setAside \union {b}
    /\ UNCHANGED <<accepted, delivered>>

QueueNext ==
    \/ \E b \in Batch : Accept(b) \/ Release(b) \/ SetAside(b)
    \/ \E S \in SUBSET Batch : Deliver(S)

QueueSpec == QueueInit /\ [][QueueNext]_queueVars
=============================================================================
