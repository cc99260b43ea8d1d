-------------------------------- MODULE Wal --------------------------------
(***************************************************************************)
(* The write-ahead log of one collector: FileWal, WalBacked and the gated  *)
(* drainer of crates/oi-storage/src/wal.rs over LeaderGatedRepo            *)
(* (leader_gated.rs) and ClickHouse, wired as runner.rs does.              *)
(*                                                                         *)
(* One writer per exchange loop and one drainer run concurrently; every    *)
(* await of the code is a step boundary here.  A batch is its file's       *)
(* timestamp, so "oldest first" is numeric order.  ClickHouse is a set: a  *)
(* repeated insert replaces the row (ReplacingMergeTree).                  *)
(***************************************************************************)
EXTENDS Integers

CONSTANTS
    Writer,       \* the exchange loops calling WalBacked::upsert_snapshots
    MaxBatch,     \* bound on the batches ever written
    MaxFaults,    \* bound on I/O errors, failed inserts, damage and crashes
    Reaping,      \* is wal.follower_max_age_secs configured?
    PowerLoss,    \* may the host lose power (not only the process die)?
    Legacy        \* bound on the files an older version left in the directory

ASSUME WalAssumption ==
    /\ MaxBatch \in Nat /\ MaxFaults \in Nat
    /\ Reaping \in BOOLEAN /\ PowerLoss \in BOOLEAN /\ Legacy \in 0..MaxBatch

Batch == 1..MaxBatch

VARIABLES
    file,      \* [Batch -> FileState]: the directory as the processes see it
    disk,      \* the directory as it would be found after a power loss
    damaged,   \* batches whose file content is corrupt
    unframed,  \* batches whose file does not begin with the magic (and CRC)
    ch,        \* batches inserted into ClickHouse, as they were read
    chUp,      \* is ClickHouse accepting inserts?
    leader,    \* the gate: LeaseManager::is_leader()
    last,      \* timestamp of the newest file
    aged,      \* batches up to this one are older than follower_max_age
    wpc, wb,   \* where each writer stands, and its batch
    dpc, db,   \* where the drainer stands, and its batch
    dq,        \* what is left of the listing the drainer walks
    cutoff,    \* age limit the reaper computed at the start of its cycle
    accepted,  \* batches whose append() returned (history)
    reaped,    \* batches deleted by the reaper (history)
    synced,    \* batches whose directory entry was once durable (history)
    faults

FileState == {"none", "tmp", "pending", "quarantined"}

files == <<file, disk, damaged, unframed>>
env == <<chUp, leader, aged>>
writers == <<wpc, wb>>
drainer == <<dpc, db, dq, cutoff>>
history == <<accepted, reaped, synced>>
vars == <<files, ch, env, writers, drainer, history, last, faults>>

Pending == {b \in Batch : file[b] = "pending"}
Fault == faults < MaxFaults /\ faults' = faults + 1
Oldest(b, S) == b \in S /\ \A c \in S : b <= c

\* An in-place upgrade may find unframed files of the version before.
Init ==
    /\ last \in 0..Legacy
    /\ unframed = 1..last /\ accepted = 1..last /\ synced = 1..last
    /\ file = [b \in Batch |-> IF b <= last THEN "pending" ELSE "none"] /\ disk = file
    /\ damaged = {} /\ ch = {}
    /\ chUp = TRUE /\ leader = FALSE
    /\ aged = 0
    /\ wpc = [w \in Writer |-> "idle"] /\ wb = [w \in Writer |-> 0]
    /\ dpc = "sleep" /\ db = 0 /\ dq = {} /\ cutoff = 0
    /\ reaped = {} /\ faults = 0

-----------------------------------------------------------------------------
(* WalBacked::upsert_snapshots, one batch at a time per writer.            *)

\* append: take the timestamp, write the dotfile.
BeginAppend(w) ==
    /\ wpc[w] = "idle"
    /\ last < MaxBatch
    /\ last' = last + 1
    /\ file' = [file EXCEPT ![last'] = "tmp"]
    /\ wb' = [wb EXCEPT ![w] = last']
    /\ wpc' = [wpc EXCEPT ![w] = "append"]
    /\ UNCHANGED <<disk, damaged, unframed, ch, env, drainer, history, faults>>

\* An I/O error before the rename: Err to the caller, the dotfile stays.
AppendFails(w) ==
    /\ wpc[w] = "append"
    /\ Fault
    /\ wpc' = [wpc EXCEPT ![w] = "idle"]
    /\ UNCHANGED <<files, ch, env, wb, drainer, history, last>>

\* The rename makes the batch visible to pending(); append() returns Ok.
FinishAppend(w) ==
    /\ wpc[w] = "append"
    /\ file' = [file EXCEPT ![wb[w]] = "pending"]
    /\ accepted' = accepted \union {wb[w]}
    /\ wpc' = [wpc EXCEPT ![w] = "gate"]
    /\ UNCHANGED <<disk, damaged, unframed, ch, env, wb, drainer, reaped, synced, last, faults>>

\* LeaderGatedRepo: a follower gets Err("not leader") and the file stays.
WriterGate(w) ==
    /\ wpc[w] = "gate"
    /\ wpc' = [wpc EXCEPT ![w] = IF leader THEN "insert" ELSE "idle"]
    /\ UNCHANGED <<files, ch, env, wb, drainer, history, last, faults>>

InsertErrAcks(w) ==
    /\ wpc[w] = "insert"
    /\ chUp => Fault
    /\ ~chUp => UNCHANGED faults
    /\ ch' \in {ch, ch \union {wb[w]}}
    /\ wpc' = [wpc EXCEPT ![w] = "ack"]
    /\ UNCHANGED <<files, env, wb, drainer, history, last>>

\* The insert returns; it was awaited while the gate may have changed.
InsertOk(w) ==
    /\ wpc[w] = "insert"
    /\ chUp
    /\ ch' = ch \union {wb[w]}
    /\ wpc' = [wpc EXCEPT ![w] = "ack"]
    /\ UNCHANGED <<files, env, wb, drainer, history, last, faults>>

\* The insert fails, or only its answer is lost: the file stays for the drainer.
InsertErr(w) ==
    /\ wpc[w] = "insert"
    /\ chUp => Fault
    /\ ~chUp => UNCHANGED faults
    /\ ch' \in {ch, ch \union {wb[w]}}
    /\ wpc' = [wpc EXCEPT ![w] = "idle"]
    /\ UNCHANGED <<files, env, wb, drainer, history, last>>

\* FileWal::ack: remove the file; that it is already gone is not an error.
Remove(b) == file' = IF file[b] = "pending" THEN [file EXCEPT ![b] = "none"] ELSE file

WriterAck(w) ==
    /\ wpc[w] = "ack"
    /\ \/ Remove(wb[w]) /\ UNCHANGED faults
       \/ Fault /\ UNCHANGED file
    /\ wpc' = [wpc EXCEPT ![w] = "idle"]
    /\ UNCHANGED <<disk, damaged, unframed, ch, env, wb, drainer, history, last>>

-----------------------------------------------------------------------------
(* spawn_drainer_with_gate and drain_once.                                 *)

\* The interval is over and the gate is read, once per cycle.
DrainerWakes ==
    /\ dpc = "sleep"
    /\ leader \/ Reaping
    /\ dpc' = IF leader THEN "list" ELSE "reaplist"
    /\ UNCHANGED <<files, ch, env, writers, db, dq, cutoff, history, last, faults>>

\* pending(): the walk uses this listing although files come and go; a failed
\* listing ends the cycle.
List ==
    /\ dpc = "list"
    /\ \/ dq' = Pending /\ UNCHANGED faults
       \/ dq' = {} /\ Fault
    /\ dpc' = IF dq' = {} THEN "sleep" ELSE "read"
    /\ UNCHANGED <<files, ch, env, writers, db, cutoff, history, last>>

\* The next path of the walk, or the end of the cycle.
Advance == dpc' = (IF dq' = {} THEN "sleep" ELSE "read") /\ db' = 0

EndCycle == dpc' = "sleep" /\ dq' = {} /\ db' = 0

\* What read() takes for a batch: the CRC vouches for framed files, while an
\* unframed one, written so or with its magic destroyed, is decoded as it is,
\* and damaged bytes may decode.
MayPass(b) == b \in damaged => b \in unframed

\* FileWal::read: a missing file or a CRC or decode error is an Err.
Read ==
    /\ dpc = "read"
    /\ \E b \in dq :
         /\ Oldest(b, dq)
         /\ db' = b
         /\ \/ file[b] = "pending" /\ MayPass(b) /\ dpc' = "gate"
            \/ (file[b] = "pending" => b \in damaged) /\ dpc' = "quarantine"
    /\ UNCHANGED <<files, ch, env, writers, dq, cutoff, history, last, faults>>

\* fs::read fails (EIO, EMFILE): to the drainer an Err like any other.
ReadFails ==
    /\ dpc = "read"
    /\ Fault
    /\ \E b \in dq : Oldest(b, dq) /\ db' = b
    /\ dpc' = "quarantine"
    /\ UNCHANGED <<files, ch, env, writers, dq, cutoff, history, last>>

\* quarantine: rename aside; if that fails (the file is gone, or an I/O
\* error) the walk goes on all the same.
Quarantine ==
    /\ dpc = "quarantine"
    /\ dq' = dq \ {db}
    /\ Advance
    /\ \/ /\ file[db] = "pending"
          /\ file' = [file EXCEPT ![db] = "quarantined"]
          /\ UNCHANGED faults
       \/ file[db] # "pending" /\ UNCHANGED <<file, faults>>
       \/ Fault /\ UNCHANGED file
    /\ UNCHANGED <<disk, damaged, unframed, ch, env, writers, cutoff, history, last>>

\* The drainer's target is the gated repository too: a demotion ends the cycle.
DrainerGate ==
    /\ dpc = "gate"
    /\ \/ leader /\ dpc' = "insert" /\ UNCHANGED <<db, dq>>
       \/ ~leader /\ EndCycle
    /\ UNCHANGED <<files, ch, env, writers, cutoff, history, last, faults>>

DrainOk ==
    /\ dpc = "insert"
    /\ chUp
    /\ ch' = ch \union {db}
    /\ dpc' = "ack"
    /\ UNCHANGED <<files, env, writers, db, dq, cutoff, history, last, faults>>

DrainErrKeepsWalking ==
    /\ dpc = "insert"
    /\ chUp => Fault
    /\ ~chUp => UNCHANGED faults
    /\ ch' \in {ch, ch \union {db}}
    /\ dpc' = "ack"
    /\ UNCHANGED <<files, env, writers, db, dq, cutoff, history, last>>

\* A failed insert aborts the cycle; the next one starts from the oldest file.
DrainErr ==
    /\ dpc = "insert"
    /\ chUp => Fault
    /\ ~chUp => UNCHANGED faults
    /\ ch' \in {ch, ch \union {db}}
    /\ EndCycle
    /\ UNCHANGED <<files, env, writers, cutoff, history, last>>

DrainerAckDropped ==
    /\ dpc = "ack"
    /\ dq' = dq \ {db}
    /\ Advance
    /\ UNCHANGED <<files, faults, ch, env, writers, cutoff, history, last>>

DrainerAck ==
    /\ dpc = "ack"
    /\ \/ Remove(db) /\ dq' = dq \ {db} /\ Advance /\ UNCHANGED faults
       \/ Fault /\ EndCycle /\ UNCHANGED file
    /\ UNCHANGED <<disk, damaged, unframed, ch, env, writers, cutoff, history, last>>

-----------------------------------------------------------------------------
(* reap_older_than, run by the drainer of a follower.                      *)

ReapListAnyAge ==
    /\ dpc = "reaplist"
    /\ dq' = Pending
    /\ cutoff' = last
    /\ dpc' = "reap"
    /\ UNCHANGED <<files, ch, env, writers, db, history, last, faults>>

\* The listing and the age limit; an unreadable directory leaves nothing to
\* reap.
ReapList ==
    /\ dpc = "reaplist"
    /\ \/ dq' = Pending /\ UNCHANGED faults
       \/ dq' = {} /\ Fault
    /\ cutoff' = aged
    /\ dpc' = "reap"
    /\ UNCHANGED <<files, ch, env, writers, db, history, last>>

ReapYoungToo(b) ==
    /\ dpc = "reap"
    /\ Oldest(b, dq)
    /\ Remove(b)
    /\ reaped' = IF file[b] = "pending" /\ b <= cutoff THEN reaped \union {b} ELSE reaped
    /\ dq' = dq \ {b}
    /\ UNCHANGED <<disk, damaged, unframed, ch, env, writers, dpc, db, cutoff, accepted, synced, last, faults>>

\* Delete the oldest file of the listing if it exceeds the age limit.
ReapNext(b) ==
    /\ dpc = "reap"
    /\ Oldest(b, dq)
    /\ b <= cutoff
    /\ Remove(b)
    /\ reaped' = IF file[b] = "pending" THEN reaped \union {b} ELSE reaped
    /\ dq' = dq \ {b}
    /\ UNCHANGED <<disk, damaged, unframed, ch, env, writers, dpc, db, cutoff, accepted, synced, last, faults>>

\* The first young file, the end of the listing or an I/O error ends it.
ReapEnds ==
    /\ dpc = "reap"
    /\ \/ (\A b \in dq : b > cutoff) /\ UNCHANGED faults
       \/ Fault
    /\ EndCycle
    /\ UNCHANGED <<files, ch, env, writers, cutoff, history, last>>

-----------------------------------------------------------------------------
(* The environment: lease, ClickHouse, time, disk and process.             *)

GateFlips ==
    /\ leader' = ~leader
    /\ UNCHANGED <<files, ch, chUp, aged, writers, drainer, history, last, faults>>

ClickHouseFlips ==
    /\ chUp' = ~chUp
    /\ UNCHANGED <<files, ch, leader, aged, writers, drainer, history, last, faults>>

TimePasses ==
    /\ Reaping
    /\ aged < last
    /\ aged' = aged + 1
    /\ UNCHANGED <<files, ch, chUp, leader, writers, drainer, history, last, faults>>

\* The content changes, the first bytes perhaps among it.
Damage(b) ==
    /\ file[b] = "pending"
    /\ b \notin damaged
    /\ Fault
    /\ damaged' = damaged \union {b}
    /\ unframed' \in {unframed, unframed \union {b}}
    /\ UNCHANGED <<file, disk, ch, env, writers, drainer, history, last>>

\* The file system makes its directory durable when it likes: append() syncs
\* the file but never the directory.
DirectorySync ==
    /\ PowerLoss
    /\ disk # file
    /\ disk' = file
    /\ synced' = synced \union Pending
    /\ UNCHANGED <<file, damaged, unframed, ch, env, writers, drainer, accepted, reaped, last, faults>>

InFlight == {wb[w] : w \in {v \in Writer : wpc[v] = "insert"}}

\* Any of the inserts in flight may have reached ClickHouse.
InsertsLand ==
    \E S \in SUBSET InFlight :
        \/ ch' = ch \union S
        \/ dpc = "insert" /\ ch' = ch \union S \union {db}

\* The process dies and starts again as a follower; inserts in flight may
\* have landed.  After a power loss any directory change not yet synced may
\* be undone.
Crash ==
    /\ Fault
    /\ InsertsLand
    /\ \/ UNCHANGED <<file, disk>>
       \/ /\ PowerLoss
          /\ \E undone \in SUBSET {b \in Batch : disk[b] # file[b]} :
               file' = [b \in Batch |-> IF b \in undone THEN disk[b] ELSE file[b]]
          /\ disk' = file'
    /\ wpc' = [w \in Writer |-> "idle"]
    /\ EndCycle
    /\ leader' = FALSE
    /\ UNCHANGED <<damaged, unframed, chUp, aged, wb, cutoff, history, last>>

WriterStep(w) ==
    \/ BeginAppend(w) \/ AppendFails(w) \/ FinishAppend(w)
    \/ WriterGate(w) \/ InsertOk(w) \/ InsertErr(w) \/ WriterAck(w)

DrainerStep ==
    \/ DrainerWakes \/ List \/ Read \/ ReadFails \/ Quarantine
    \/ DrainerGate \/ DrainOk \/ DrainErr \/ DrainerAck
    \/ ReapList \/ (\E b \in Batch : ReapNext(b)) \/ ReapEnds

Environment ==
    \/ GateFlips \/ ClickHouseFlips \/ TimePasses \/ DirectorySync \/ Crash
    \/ \E b \in Batch : Damage(b)

Next == (\E w \in Writer : WriterStep(w)) \/ DrainerStep \/ Environment

Spec == Init /\ [][Next]_vars

\* The runtime keeps polling both tasks and every insert returns.
FairSpec ==
    /\ Spec
    /\ WF_vars(DrainerStep)
    /\ \A w \in Writer :
         WF_vars(FinishAppend(w) \/ WriterGate(w) \/ InsertOk(w) \/ InsertErr(w) \/ WriterAck(w))

-----------------------------------------------------------------------------
(* Properties.                                                             *)

\* Types of the directory, the stores and the two tasks.
TypeOK ==
    /\ file \in [Batch -> FileState] /\ disk \in [Batch -> FileState]
    /\ damaged \subseteq Batch /\ unframed \subseteq Batch
    /\ ch \subseteq Batch
    /\ chUp \in BOOLEAN /\ leader \in BOOLEAN
    /\ last \in 0..MaxBatch /\ aged \in 0..last
    /\ wpc \in [Writer -> {"idle", "append", "gate", "insert", "ack"}]
    /\ wb \in [Writer -> 0..last]
    /\ \A w \in Writer : wpc[w] # "idle" => wb[w] \in Batch
    /\ dpc \in {"sleep", "list", "read", "quarantine", "gate", "insert", "ack",
                "reaplist", "reap"}
    /\ db \in 0..MaxBatch /\ dq \subseteq Batch /\ cutoff \in 0..aged
    /\ dpc \in {"quarantine", "gate", "insert", "ack"} => db \in Batch
    /\ accepted \subseteq Batch /\ reaped \subseteq Batch /\ synced \subseteq Batch
    /\ faults \in 0..MaxFaults

\* Where a batch that is not lost can be.
Kept(b) == file[b] \in {"pending", "quarantined"} \/ b \in ch \/ b \in reaped

\* Once append() has returned, the batch is in a file the drainer will find,
\* in ClickHouse (as what its file held by then), quarantined for inspection,
\* or reaped by the configured age limit: no interleaving of writer, drainer,
\* failed inserts and process crashes loses it (wal.rs:3-7).
NoSilentLoss == \A b \in accepted : Kept(b)

\* A power loss can only cost a batch whose directory entry was never made
\* durable; from then on the same guarantee as NoSilentLoss holds, undone
\* deletions and renames included.
SyncedSurvives == \A b \in synced : Kept(b)

\* No file younger than follower_max_age is deleted without being stored,
\* even if files are added while the reaper walks.
ReapedAreAged == \A b \in reaped : b <= aged

\* A leader whose ClickHouse stays up works off its whole backlog: nothing is
\* left waiting, however the queue was built up (outage, follower era, crash).
BacklogDrains ==
    (<>[](leader /\ chUp)) => <>[](Pending = {})

\* What each task knows about the batch it works on: an appending writer's
\* batch is new and its own, an ack is preceded by a successful insert.
TaskInv ==
    /\ \A w \in Writer :
         /\ wpc[w] = "append" => wb[w] \notin accepted
         /\ wpc[w] \in {"gate", "insert", "ack"} => wb[w] \in accepted
         /\ wpc[w] = "ack" => wb[w] \in ch
    /\ \A v, w \in Writer :
         wpc[v] = "append" /\ wpc[w] = "append" /\ wb[v] = wb[w] => v = w
    /\ dq \subseteq accepted
    /\ dpc \in {"quarantine", "gate", "insert", "ack"} => db \in accepted
    /\ dpc = "ack" => db \in ch
    /\ \A b \in Batch : file[b] \in {"pending", "quarantined"} => b \in accepted
    /\ \A b \in accepted : b <= last

\* The inductive strengthening of NoSilentLoss.
WalInv == NoSilentLoss /\ TaskInv

\* The inductive strengthening of SyncedSurvives: what the disk would bring
\* back after a power loss keeps the batch as well.
SyncedInv ==
    /\ SyncedSurvives
    /\ \A b \in synced : disk[b] \in {"pending", "quarantined"} \/ b \in ch \/ b \in reaped
    /\ \A b \in Batch : b \in synced \/ "pending" \in {file[b], disk[b]} => b <= last
    /\ \A w \in Writer : wpc[w] = "ack" => wb[w] \in ch
    /\ dpc = "ack" => db \in ch

\* Batches that a policy took out of the queue.
Aside == reaped \union {b \in Batch : file[b] = "quarantined"}

\* The log implements the abstract durable queue.
Queue == INSTANCE DurableQueue
    WITH queued <- Pending, delivered <- ch, setAside <- Aside
QueueSpec == Queue!QueueSpec
=============================================================================
