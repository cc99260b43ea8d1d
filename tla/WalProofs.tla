----------------------------- MODULE WalProofs -----------------------------
(***************************************************************************)
(* TLAPS proofs about the write-ahead log: types, no silent loss of an     *)
(* accepted batch when only processes crash, survival of synced batches    *)
(* through power losses, and the implementation of the durable queue.      *)
(***************************************************************************)
EXTENDS Wal, TLAPS

USE WalAssumption

\* Every step of the writers preserves the types.
LEMMA TypeWriter ==
    ASSUME TypeOK, NEW w \in Writer, WriterStep(w) PROVE TypeOK'
<1> USE DEF files, env, writers, drainer, history
<1>1. CASE BeginAppend(w)
  <2>1. last' = last + 1 /\ last' \in Batch /\ last' \in 0..MaxBatch
    BY <1>1 DEF TypeOK, BeginAppend, Batch
  <2>2. file' \in [Batch -> FileState] /\ wb' \in [Writer -> 0..last']
    BY <1>1, <2>1 DEF TypeOK, BeginAppend, FileState
  <2> QED
    BY <1>1, <2>1, <2>2 DEF TypeOK, BeginAppend
<1>2. CASE AppendFails(w)
  BY <1>2 DEF TypeOK, AppendFails, Fault
<1>3. CASE FinishAppend(w)
  <2>1. file' \in [Batch -> FileState]
    BY <1>3 DEF TypeOK, FinishAppend, FileState
  <2> QED
    BY <1>3, <2>1 DEF TypeOK, FinishAppend
<1>4. CASE WriterGate(w)
  BY <1>4 DEF TypeOK, WriterGate
<1>5. CASE InsertOk(w)
  BY <1>5 DEF TypeOK, InsertOk
<1>6. CASE InsertErr(w)
  BY <1>6 DEF TypeOK, InsertErr, Fault
<1>7. CASE WriterAck(w)
  BY <1>7 DEF TypeOK, WriterAck, Remove, FileState, Fault
<1> QED
  BY <1>1, <1>2, <1>3, <1>4, <1>5, <1>6, <1>7 DEF WriterStep

\* Between files and cycles the drainer holds no batch.
LEMMA Released ==
    ASSUME Advance \/ EndCycle
    PROVE  db' \in 0..MaxBatch /\ dpc' \in {"sleep", "read"}
BY DEF Advance, EndCycle

\* Every step of the drainer and the reaper preserves the types.
LEMMA TypeDrainer == ASSUME TypeOK, DrainerStep PROVE TypeOK'
<1> USE DEF files, env, writers, drainer, history
<1>1. CASE DrainerWakes
  BY <1>1 DEF TypeOK, DrainerWakes
<1>2. CASE List
  BY <1>2 DEF TypeOK, List, Pending, Fault
<1>3. CASE Read
  <2>1. PICK b \in dq : db' = b /\ dpc' \in {"gate", "quarantine"}
                       /\ Oldest(b, dq)
    BY <1>3 DEF Read
  <2>2. b \in Batch /\ b \in 0..MaxBatch
    BY <1>3, <2>1 DEF TypeOK, Batch
  <2> QED
    BY <1>3, <2>1, <2>2 DEF TypeOK, Read
<1>4. CASE ReadFails
  <2>1. db' \in Batch /\ db' \in 0..MaxBatch
    BY <1>4 DEF TypeOK, ReadFails, Batch
  <2> QED
    BY <1>4, <2>1 DEF TypeOK, ReadFails, Fault
<1>5. CASE Quarantine
  <2>1. file' \in [Batch -> FileState] /\ faults' \in 0..MaxFaults
    BY <1>5 DEF TypeOK, Quarantine, Fault, FileState
  <2> QED
    BY <1>5, <2>1, Released DEF TypeOK, Quarantine
<1>6. CASE DrainerGate
  <2>1. CASE leader
    BY <1>6, <2>1 DEF TypeOK, DrainerGate
  <2>2. CASE ~leader
    <3>1. EndCycle /\ UNCHANGED <<files, ch, env, writers, cutoff, history, last, faults>>
      BY <1>6, <2>2 DEF DrainerGate
    <3> QED
      BY <3>1, Released DEF TypeOK, EndCycle
  <2> QED
    BY <2>1, <2>2
<1>7. CASE DrainOk
  BY <1>7 DEF TypeOK, DrainOk
<1>8. CASE DrainErr
  <2>1. faults' \in 0..MaxFaults /\ dq' = {}
    BY <1>8 DEF TypeOK, DrainErr, EndCycle, Fault
  <2>2. ch' \subseteq Batch
    BY <1>8 DEF TypeOK, DrainErr
  <2> QED
    BY <1>8, <2>1, <2>2, Released DEF TypeOK, DrainErr
<1>9. CASE DrainerAck
  <2>1. faults' \in 0..MaxFaults /\ dq' \subseteq Batch
    BY <1>9 DEF TypeOK, DrainerAck, EndCycle, Fault
  <2>2. file' \in [Batch -> FileState]
    BY <1>9 DEF TypeOK, DrainerAck, Remove, FileState
  <2>3. Advance \/ EndCycle
    BY <1>9 DEF DrainerAck
  <2> QED
    BY <1>9, <2>1, <2>2, <2>3, Released DEF TypeOK, DrainerAck
<1>10. CASE ReapList
  BY <1>10 DEF TypeOK, ReapList, Pending, Fault
<1>11. ASSUME NEW b \in Batch, ReapNext(b) PROVE TypeOK'
  BY <1>11 DEF TypeOK, ReapNext, Remove, FileState
<1>12. CASE ReapEnds
  <2>1. faults' \in 0..MaxFaults /\ dq' = {}
    BY <1>12 DEF TypeOK, ReapEnds, EndCycle, Fault
  <2> QED
    BY <1>12, <2>1, Released DEF TypeOK, ReapEnds
<1> QED
  BY <1>1, <1>2, <1>3, <1>4, <1>5, <1>6, <1>7, <1>8, <1>9, <1>10, <1>11, <1>12 DEF DrainerStep

\* The lease, ClickHouse, time, damage, power losses and crashes preserve the types.
LEMMA TypeEnvironment == ASSUME TypeOK, Environment PROVE TypeOK'
<1> USE DEF files, env, writers, drainer, history
<1>1. CASE GateFlips
  BY <1>1 DEF TypeOK, GateFlips
<1>2. CASE ClickHouseFlips
  BY <1>2 DEF TypeOK, ClickHouseFlips
<1>3. CASE TimePasses
  BY <1>3 DEF TypeOK, TimePasses
<1>4. CASE DirectorySync
  BY <1>4 DEF TypeOK, DirectorySync, Pending
<1>5. CASE Crash
  <2>1. InFlight \subseteq Batch
    BY DEF TypeOK, InFlight
  <2>2. ch' \subseteq Batch
    BY <1>5, <2>1 DEF TypeOK, Crash, InsertsLand
  <2>3. file' \in [Batch -> FileState] /\ disk' \in [Batch -> FileState]
    BY <1>5 DEF TypeOK, Crash
  <2>4. /\ wpc' = [w \in Writer |-> "idle"] /\ dpc' = "sleep" /\ dq' = {}
        /\ db' \in 0..MaxBatch /\ leader' = FALSE
    BY <1>5, Released DEF Crash, EndCycle
  <2> QED
    <3>1. UNCHANGED <<damaged, unframed, chUp, aged, wb, cutoff, history, last>>
      BY <1>5 DEF Crash, EndCycle
    <3>2. faults' \in 0..MaxFaults
      BY <1>5 DEF TypeOK, Crash, Fault
    <3> QED
      BY <2>2, <2>3, <2>4, <3>1, <3>2 DEF TypeOK
<1>6. ASSUME NEW b \in Batch, Damage(b) PROVE TypeOK'
  BY <1>6 DEF TypeOK, Damage, Fault
<1> QED
  BY <1>1, <1>2, <1>3, <1>4, <1>5, <1>6 DEF Environment

\* The directory, the stores and the tasks' locals always have their types.
THEOREM TypeCorrect == Spec => []TypeOK
<1>1. Init => TypeOK
  <2> SUFFICES ASSUME Init PROVE TypeOK
    OBVIOUS
  <2>1. file \in [Batch -> FileState] /\ disk \in [Batch -> FileState]
    BY DEF Init, FileState
  <2>2. wpc \in [Writer -> {"idle", "append", "gate", "insert", "ack"}] /\ wb \in [Writer -> 0..last]
    BY DEF Init
  <2>3. \A w \in Writer : wpc[w] = "idle"
    BY DEF Init
  <2>4. chUp \in BOOLEAN /\ leader \in BOOLEAN
    BY DEF Init
  <2>5. last \in 0..MaxBatch /\ aged \in 0..last /\ db \in 0..MaxBatch /\ cutoff \in 0..aged
        /\ faults \in 0..MaxFaults
    BY DEF Init
  <2>6. /\ damaged = {} /\ ch = {} /\ dq = {} /\ dpc = "sleep" /\ reaped = {}
        /\ unframed \subseteq Batch /\ accepted \subseteq Batch /\ synced \subseteq Batch
    BY DEF Init, Batch
  <2> QED
    BY <2>1, <2>2, <2>3, <2>4, <2>5, <2>6 DEF TypeOK
<1>2. TypeOK /\ [Next]_vars => TypeOK'
  <2>1. ASSUME TypeOK, UNCHANGED vars PROVE TypeOK'
    BY <2>1 DEF TypeOK, vars, files, env, writers, drainer, history
  <2> QED
    BY <2>1, TypeWriter, TypeDrainer, TypeEnvironment DEF Next
<1> QED
  BY <1>1, <1>2, PTL DEF Spec
-----------------------------------------------------------------------------
(* No accepted batch is lost while only processes crash.                   *)

\* The writers preserve the invariant.
LEMMA WalInvWriter ==
    ASSUME TypeOK, WalInv, NEW w \in Writer, WriterStep(w) PROVE WalInv'
<1> USE DEF files, env, writers, drainer, history, WalInv, NoSilentLoss, TaskInv, Kept, Pending
<1>1. CASE BeginAppend(w)
  <2>1. last' = last + 1 /\ last' \in Batch /\ last' \notin accepted
    BY <1>1 DEF TypeOK, BeginAppend, Batch
  <2>2. file' = [file EXCEPT ![last'] = "tmp"] /\ wb' = [wb EXCEPT ![w] = last']
        /\ wpc' = [wpc EXCEPT ![w] = "append"]
    BY <1>1 DEF BeginAppend
  <2>3. UNCHANGED <<accepted, ch, reaped, dq, dpc, db>>
    BY <1>1 DEF BeginAppend
  <2>4. \A v \in Writer : wb[v] # last'
    BY <2>1 DEF TypeOK
  <2>5. NoSilentLoss'
    BY <2>1, <2>2, <2>3 DEF TypeOK
  <2>6. TaskInv'
    BY <2>1, <2>2, <2>3, <2>4 DEF TypeOK
  <2> QED
    BY <2>5, <2>6
<1>2. CASE AppendFails(w)
  BY <1>2 DEF TypeOK, AppendFails
<1>3. CASE FinishAppend(w)
  <2>1. wb[w] \in Batch /\ wb[w] <= last
    BY <1>3 DEF TypeOK, FinishAppend
  <2> QED
    BY <1>3, <2>1 DEF TypeOK, FinishAppend
<1>4. CASE WriterGate(w)
  BY <1>4 DEF TypeOK, WriterGate
<1>5. CASE InsertOk(w)
  BY <1>5 DEF TypeOK, InsertOk
<1>6. CASE InsertErr(w)
  BY <1>6 DEF TypeOK, InsertErr
<1>7. CASE WriterAck(w)
  BY <1>7 DEF TypeOK, WriterAck, Remove
<1> QED
  BY <1>1, <1>2, <1>3, <1>4, <1>5, <1>6, <1>7 DEF WriterStep

\* The drainer and the reaper preserve the invariant.
LEMMA WalInvDrainer == ASSUME TypeOK, WalInv, DrainerStep PROVE WalInv'
<1> USE DEF files, env, writers, drainer, history, WalInv, NoSilentLoss, TaskInv, Kept, Pending
<1>1. CASE DrainerWakes
  BY <1>1 DEF TypeOK, DrainerWakes
<1>2. CASE List
  BY <1>2 DEF TypeOK, List
<1>3. CASE Read
  BY <1>3 DEF TypeOK, Read
<1>4. CASE ReadFails
  BY <1>4 DEF TypeOK, ReadFails
<1>5. CASE Quarantine
  BY <1>5 DEF TypeOK, Quarantine, Advance
<1>6. CASE DrainerGate
  BY <1>6 DEF TypeOK, DrainerGate, EndCycle
<1>7. CASE DrainOk
  BY <1>7 DEF TypeOK, DrainOk
<1>8. CASE DrainErr
  BY <1>8 DEF TypeOK, DrainErr, EndCycle
<1>9. CASE DrainerAck
  BY <1>9 DEF TypeOK, DrainerAck, EndCycle, Remove, Advance
<1>10. CASE ReapList
  BY <1>10 DEF TypeOK, ReapList
<1>11. ASSUME NEW b \in Batch, ReapNext(b) PROVE WalInv'
  BY <1>11 DEF TypeOK, ReapNext, Remove
<1>12. CASE ReapEnds
  BY <1>12 DEF TypeOK, ReapEnds, EndCycle
<1> QED
  BY <1>1, <1>2, <1>3, <1>4, <1>5, <1>6, <1>7, <1>8, <1>9, <1>10, <1>11, <1>12 DEF DrainerStep

\* The environment preserves the invariant as long as the host keeps its power.
LEMMA WalInvEnvironment ==
    ASSUME ~PowerLoss, TypeOK, WalInv, Environment PROVE WalInv'
<1> USE DEF files, env, writers, drainer, history, WalInv, NoSilentLoss, TaskInv, Kept, Pending
<1>1. CASE GateFlips
  BY <1>1 DEF TypeOK, GateFlips
<1>2. CASE ClickHouseFlips
  BY <1>2 DEF TypeOK, ClickHouseFlips
<1>3. CASE TimePasses
  BY <1>3 DEF TypeOK, TimePasses
<1>4. CASE DirectorySync
  BY <1>4 DEF DirectorySync
<1>5. CASE Crash
  <2>1. /\ ch \subseteq ch' /\ file' = file /\ UNCHANGED <<accepted, reaped, last>>
        /\ wpc' = [v \in Writer |-> "idle"] /\ dpc' = "sleep" /\ dq' = {}
    BY <1>5 DEF Crash, EndCycle, InsertsLand
  <2> QED
    BY <2>1 DEF TypeOK
<1>6. ASSUME NEW b \in Batch, Damage(b) PROVE WalInv'
  BY <1>6 DEF TypeOK, Damage
<1> QED
  BY <1>1, <1>2, <1>3, <1>4, <1>5, <1>6 DEF Environment

\* The invariant holds of every reachable state when power is kept.
THEOREM WalInvariant == ASSUME ~PowerLoss PROVE Spec => []WalInv
<1>1. Init => WalInv
  <2> SUFFICES ASSUME Init PROVE WalInv
    OBVIOUS
  <2>1. last \in 0..MaxBatch /\ accepted = 1..last /\ accepted \subseteq Batch
    BY DEF Init, Batch
  <2>2. \A b \in Batch : file[b] = IF b \in accepted THEN "pending" ELSE "none"
    BY <2>1 DEF Init, Batch
  <2>3. NoSilentLoss
    BY <2>1, <2>2 DEF NoSilentLoss, Kept
  <2>4. (\A w \in Writer : wpc[w] = "idle") /\ dq = {} /\ dpc = "sleep"
    BY DEF Init
  <2>5. TaskInv
    BY <2>1, <2>2, <2>4 DEF TaskInv
  <2> QED
    BY <2>3, <2>5 DEF WalInv
<1>2. TypeOK /\ WalInv /\ [Next]_vars => WalInv'
  <2>1. ASSUME WalInv, UNCHANGED vars PROVE WalInv'
    BY <2>1 DEF WalInv, NoSilentLoss, TaskInv, Kept, Pending, vars, files, env,
                writers, drainer, history
  <2> QED
    BY <2>1, WalInvWriter, WalInvDrainer, WalInvEnvironment DEF Next
<1> QED
  BY <1>1, <1>2, TypeCorrect, PTL DEF Spec

\* Once append() has returned, no interleaving of writers, drainer, reaper,
\* failed inserts, damage and process crashes loses the batch silently.
THEOREM WalKeepsAccepted == ASSUME ~PowerLoss PROVE Spec => []NoSilentLoss
<1>1. WalInv => NoSilentLoss
  BY DEF WalInv
<1> QED
  BY <1>1, WalInvariant, PTL

-----------------------------------------------------------------------------
(* Power losses: a batch whose directory entry was durable once survives.  *)

\* Every step preserves the invariant, power losses included.
LEMMA SyncedStep ==
    ASSUME TypeOK, TypeOK', SyncedInv, Next PROVE SyncedInv'
<1> USE DEF files, env, writers, drainer, history, SyncedInv, SyncedSurvives, Kept, Pending
<1>1. ASSUME NEW w \in Writer, WriterStep(w) PROVE SyncedInv'
  <2>1. CASE BeginAppend(w)
    <3>1. last' = last + 1 /\ last' \in Batch /\ last' \notin synced
      BY <2>1 DEF TypeOK, BeginAppend, Batch
    <3>2. file' = [file EXCEPT ![last'] = "tmp"]
          /\ wpc' = [wpc EXCEPT ![w] = "append"] /\ wb' = [wb EXCEPT ![w] = last']
          /\ UNCHANGED <<disk, synced, ch, reaped, dpc, db>>
      BY <2>1 DEF BeginAppend
    <3> QED
      BY <3>1, <3>2 DEF TypeOK, Batch
  <2>2. CASE AppendFails(w)
    BY <2>2 DEF TypeOK, AppendFails
  <2>3. CASE FinishAppend(w)
    BY <2>3 DEF TypeOK, FinishAppend
  <2>4. CASE WriterGate(w)
    BY <2>4 DEF TypeOK, WriterGate
  <2>5. CASE InsertOk(w) \/ InsertErr(w)
    BY <2>5 DEF TypeOK, InsertOk, InsertErr
  <2>6. CASE WriterAck(w)
    BY <2>6 DEF TypeOK, WriterAck, Remove
  <2> QED
    BY <1>1, <2>1, <2>2, <2>3, <2>4, <2>5, <2>6 DEF WriterStep
<1>2. CASE DrainerStep
  <2>1. CASE DrainerWakes \/ List \/ Read \/ ReadFails \/ DrainerGate \/ ReapList \/ ReapEnds
    BY <2>1 DEF TypeOK, DrainerWakes, List, Read, ReadFails, DrainerGate, ReapList, ReapEnds, EndCycle
  <2>2. CASE Quarantine
    BY <2>2 DEF TypeOK, Quarantine, Advance
  <2>3. CASE DrainOk \/ DrainErr
    BY <2>3 DEF TypeOK, DrainOk, DrainErr, EndCycle
  <2>4. CASE DrainerAck
    BY <2>4 DEF TypeOK, DrainerAck, EndCycle, Remove, Advance
  <2>5. ASSUME NEW b \in Batch, ReapNext(b) PROVE SyncedInv'
    BY <2>5 DEF TypeOK, ReapNext, Remove
  <2> QED
    BY <1>2, <2>1, <2>2, <2>3, <2>4, <2>5 DEF DrainerStep
<1>3. CASE Environment
  <2>1. CASE GateFlips \/ ClickHouseFlips \/ TimePasses
    BY <2>1 DEF TypeOK, GateFlips, ClickHouseFlips, TimePasses
  <2>2. CASE DirectorySync
    BY <2>2 DEF TypeOK, DirectorySync
  <2>3. CASE Crash
    <3>1. /\ ch \subseteq ch' /\ UNCHANGED <<reaped, synced, last>>
          /\ wpc' = [v \in Writer |-> "idle"] /\ dpc' = "sleep"
      BY <2>3 DEF Crash, EndCycle, InsertsLand
    <3>2. \A b \in Batch : /\ file'[b] \in {file[b], disk[b]}
                          /\ disk'[b] \in {file[b], disk[b]}
      BY <2>3 DEF TypeOK, Crash
    <3> QED
      BY <3>1, <3>2 DEF TypeOK
  <2>4. ASSUME NEW b \in Batch, Damage(b) PROVE SyncedInv'
    BY <2>4 DEF TypeOK, Damage
  <2> QED
    BY <1>3, <2>1, <2>2, <2>3, <2>4 DEF Environment
<1> QED
  BY <1>1, <1>2, <1>3 DEF Next

\* A batch whose directory entry reached the disk survives everything the
\* model knows, power losses included.
THEOREM WalKeepsSynced == Spec => []SyncedSurvives
<1>1. Init => SyncedInv
  <2> SUFFICES ASSUME Init PROVE SyncedInv
    OBVIOUS
  <2>1. last \in 0..MaxBatch /\ synced = 1..last /\ synced \subseteq Batch
    BY DEF Init, Batch
  <2>2. disk = file /\ \A b \in Batch : file[b] = IF b \in synced THEN "pending" ELSE "none"
    BY <2>1 DEF Init, Batch
  <2>3. (\A w \in Writer : wpc[w] = "idle") /\ dpc = "sleep"
    BY DEF Init
  <2> QED
    BY <2>1, <2>2, <2>3 DEF SyncedInv, SyncedSurvives, Kept
<1>2. TypeOK /\ TypeOK' /\ SyncedInv /\ [Next]_vars => SyncedInv'
  <2>1. ASSUME SyncedInv, UNCHANGED vars PROVE SyncedInv'
    BY <2>1 DEF SyncedInv, SyncedSurvives, Kept, vars, files, env, writers,
                drainer, history
  <2> QED
    BY <2>1, SyncedStep
<1>3. SyncedInv => SyncedSurvives
  BY DEF SyncedInv
<1> QED
  BY <1>1, <1>2, <1>3, TypeCorrect, PTL DEF Spec

-----------------------------------------------------------------------------
(* Aged files.                                                             *)

\* The reaper deletes nothing that is younger than the age limit, although its
\* listing and its cutoff are as old as its cycle.
THEOREM ReapsOnlyAged == Spec => []ReapedAreAged
<1> USE DEF files, env, writers, drainer, history, ReapedAreAged
<1>1. Init => ReapedAreAged
  BY DEF Init
<1>2. TypeOK /\ ReapedAreAged /\ [Next]_vars => ReapedAreAged'
  <2> SUFFICES ASSUME TypeOK, ReapedAreAged, [Next]_vars PROVE ReapedAreAged'
    OBVIOUS
  <2>1. ASSUME NEW w \in Writer, WriterStep(w) PROVE ReapedAreAged'
    BY <2>1 DEF WriterStep, BeginAppend, AppendFails, FinishAppend, WriterGate, InsertOk,
                InsertErr, WriterAck
  <2>2. CASE DrainerWakes \/ List \/ Read \/ ReadFails \/ Quarantine \/ DrainerGate
    BY <2>2 DEF DrainerWakes, List, Read, ReadFails, Quarantine, DrainerGate
  <2>3. CASE DrainOk \/ DrainErr \/ DrainerAck \/ ReapList \/ ReapEnds
    BY <2>3 DEF DrainOk, DrainErr, DrainerAck, ReapList, ReapEnds
  <2>4. ASSUME NEW b \in Batch, ReapNext(b) PROVE ReapedAreAged'
    BY <2>4 DEF ReapNext, TypeOK, Batch
  <2>5. CASE TimePasses
    BY <2>5 DEF TimePasses, TypeOK, Batch
  <2>6. CASE GateFlips \/ ClickHouseFlips \/ DirectorySync \/ Crash \/ \E b \in Batch : Damage(b)
    BY <2>6 DEF GateFlips, ClickHouseFlips, DirectorySync, Crash, Damage
  <2>7. CASE UNCHANGED vars
    BY <2>7 DEF vars
  <2> QED
    BY <2>1, <2>2, <2>3, <2>4, <2>5, <2>6, <2>7 DEF Next, DrainerStep, Environment
<1> QED
  BY <1>1, <1>2, TypeCorrect, PTL DEF Spec

-----------------------------------------------------------------------------
(* The log implements the durable queue.                                   *)

\* Removing an acked file is the abstract Release, or nothing.
LEMMA RemoveReleases ==
    ASSUME TypeOK, NEW b \in Batch, b \in ch, Remove(b),
           UNCHANGED <<accepted, ch, reaped>>
    PROVE  [Queue!QueueNext]_(Queue!queueVars)
<1>1. CASE file[b] = "pending"
  <2>1. b \in Pending /\ Pending' = Pending \ {b} /\ Aside' = Aside
    BY <1>1 DEF TypeOK, Remove, Pending, Aside
  <2>2. Queue!Release(b)
    BY <2>1 DEF Queue!Release
  <2> QED
    BY <2>2 DEF Queue!QueueNext
<1>2. CASE file[b] # "pending"
  BY <1>2 DEF Remove, Queue!queueVars, Pending, Aside
<1> QED
  BY <1>1, <1>2

\* A step that touches neither file names nor histories delivers at most.
LEMMA DeliversOrStutters ==
    ASSUME TypeOK, NEW S \in SUBSET Batch, S \subseteq accepted, ch' = ch \union S,
           UNCHANGED <<file, accepted, reaped>>
    PROVE  [Queue!QueueNext]_(Queue!queueVars)
<1>1. Pending' = Pending /\ Aside' = Aside
  BY DEF Pending, Aside
<1>2. Queue!Deliver(S)
  BY <1>1 DEF Queue!Deliver
<1> QED
  BY <1>2 DEF Queue!QueueNext

\* A step that leaves files, ClickHouse and histories alone is a stutter.
LEMMA Stutters ==
    ASSUME UNCHANGED <<file, ch, accepted, reaped>>
    PROVE  [Queue!QueueNext]_(Queue!queueVars)
BY DEF Queue!queueVars, Pending, Aside

\* Each step of the log is a step of the queue or leaves it alone.
LEMMA QueueStep ==
    ASSUME ~PowerLoss, TypeOK, WalInv, [Next]_vars
    PROVE  [Queue!QueueNext]_(Queue!queueVars)
<1> USE DEF files, env, writers, drainer, history
<1>1. ASSUME NEW w \in Writer, WriterStep(w)
      PROVE  [Queue!QueueNext]_(Queue!queueVars)
  <2>1. CASE BeginAppend(w)
    <3>1. last' \in Batch /\ last' \notin accepted
      BY <2>1 DEF TypeOK, WalInv, TaskInv, BeginAppend, Batch
    <3>2. ~(file[last'] = "pending") /\ file[last'] # "quarantined"
      BY <3>1, <2>1 DEF WalInv, TaskInv, Pending
    <3> QED
      BY <2>1, <3>1, <3>2 DEF TypeOK, BeginAppend, Queue!queueVars, Pending, Aside
  <2>2. CASE AppendFails(w) \/ WriterGate(w)
    BY <2>2, Stutters DEF AppendFails, WriterGate
  <2>3. CASE FinishAppend(w)
    <3>1. wb[w] \in Batch /\ wb[w] \notin accepted /\ file[wb[w]] # "quarantined"
      BY <2>3 DEF TypeOK, WalInv, TaskInv, FinishAppend
    <3>2. Pending' = Pending \union {wb[w]} /\ Aside' = Aside
      BY <2>3, <3>1 DEF TypeOK, FinishAppend, Pending, Aside
    <3>3. Queue!Accept(wb[w])
      BY <2>3, <3>1, <3>2 DEF FinishAppend, Queue!Accept
    <3> QED
      BY <3>1, <3>3 DEF Queue!QueueNext
  <2>4. CASE InsertOk(w) \/ InsertErr(w)
    <3>1. wb[w] \in Batch /\ wb[w] \in accepted
      BY <2>4 DEF TypeOK, WalInv, TaskInv, InsertOk, InsertErr
    <3>2. \E S \in {{}, {wb[w]}} : ch' = ch \union S
      BY <2>4 DEF InsertOk, InsertErr
    <3> QED
      BY <2>4, <3>1, <3>2, DeliversOrStutters DEF InsertOk, InsertErr
  <2>5. CASE WriterAck(w)
    <3>1. wb[w] \in Batch /\ wb[w] \in ch
      BY <2>5 DEF TypeOK, WalInv, TaskInv, WriterAck
    <3> QED
      BY <2>5, <3>1, RemoveReleases, Stutters DEF WriterAck
  <2> QED
    BY <1>1, <2>1, <2>2, <2>3, <2>4, <2>5 DEF WriterStep
<1>2. CASE DrainerStep
  <2>1. CASE DrainerWakes \/ List \/ Read \/ ReadFails \/ DrainerGate \/ ReapList \/ ReapEnds
    BY <2>1, Stutters DEF DrainerWakes, List, Read, ReadFails, DrainerGate, ReapList, ReapEnds, EndCycle
  <2>2. CASE Quarantine
    <3>1. db \in Batch
      BY <2>2 DEF TypeOK, Quarantine
    <3>2. CASE UNCHANGED file
      BY <2>2, <3>2, Stutters DEF Quarantine
    <3>3. CASE file[db] = "pending" /\ file' = [file EXCEPT ![db] = "quarantined"]
      <4>1. db \in Pending /\ Pending' = Pending \ {db} /\ Aside' = Aside \union {db}
        BY <2>2, <3>1, <3>3 DEF TypeOK, Quarantine, Pending, Aside
      <4>2. Queue!SetAside(db)
        BY <2>2, <4>1 DEF Quarantine, Queue!SetAside
      <4> QED
        BY <3>1, <4>2 DEF Queue!QueueNext
    <3> QED
      BY <2>2, <3>2, <3>3 DEF Quarantine
  <2>3. CASE DrainOk \/ DrainErr
    <3>1. db \in Batch /\ db \in accepted
      BY <2>3 DEF TypeOK, WalInv, TaskInv, DrainOk, DrainErr
    <3>2. \E S \in {{}, {db}} : ch' = ch \union S
      BY <2>3 DEF DrainOk, DrainErr
    <3> QED
      BY <2>3, <3>1, <3>2, DeliversOrStutters DEF DrainOk, DrainErr
  <2>4. CASE DrainerAck
    <3>1. db \in Batch /\ db \in ch
      BY <2>4 DEF TypeOK, WalInv, TaskInv, DrainerAck
    <3> QED
      BY <2>4, <3>1, RemoveReleases, Stutters DEF DrainerAck
  <2>5. ASSUME NEW b \in Batch, ReapNext(b) PROVE [Queue!QueueNext]_(Queue!queueVars)
    <3>1. CASE file[b] = "pending"
      <4>1. b \in Pending /\ Pending' = Pending \ {b} /\ Aside' = Aside \union {b}
        BY <2>5, <3>1 DEF TypeOK, ReapNext, Remove, Pending, Aside
      <4>2. Queue!SetAside(b)
        BY <2>5, <4>1 DEF ReapNext, Queue!SetAside
      <4> QED
        BY <4>2 DEF Queue!QueueNext
    <3>2. CASE file[b] # "pending"
      BY <2>5, <3>2, Stutters DEF ReapNext, Remove
    <3> QED
      BY <3>1, <3>2
  <2> QED
    BY <1>2, <2>1, <2>2, <2>3, <2>4, <2>5 DEF DrainerStep
<1>3. CASE Environment
  <2>1. CASE GateFlips \/ ClickHouseFlips \/ TimePasses \/ DirectorySync \/ \E b \in Batch : Damage(b)
    BY <2>1, Stutters DEF GateFlips, ClickHouseFlips, TimePasses, DirectorySync, Damage
  <2>2. CASE Crash
    <3>1. InFlight \subseteq Batch /\ InFlight \subseteq accepted
      <4>1. \A w \in Writer : wpc[w] = "insert" => wb[w] \in Batch /\ wb[w] \in accepted
        BY DEF TypeOK, WalInv, TaskInv
      <4> QED
        BY <4>1 DEF InFlight
    <3>2. dpc = "insert" => db \in Batch /\ db \in accepted
      BY DEF TypeOK, WalInv, TaskInv
    <3>3. PICK S \in SUBSET InFlight :
            ch' = ch \union S \/ (dpc = "insert" /\ ch' = ch \union S \union {db})
      BY <2>2 DEF Crash, InsertsLand
    <3>4. \E T \in SUBSET Batch : T \subseteq accepted /\ ch' = ch \union T
      <4>1. CASE ch' = ch \union S
        BY <3>1, <4>1
      <4>2. CASE dpc = "insert" /\ ch' = ch \union S \union {db}
        <5>1. ch' = ch \union (S \union {db})
          BY <4>2
        <5>2. S \union {db} \in SUBSET Batch /\ S \union {db} \subseteq accepted
          BY <3>1, <3>2, <4>2
        <5> QED
          BY <5>1, <5>2
      <4> QED
        BY <3>3, <4>1, <4>2
    <3>5. UNCHANGED <<file, accepted, reaped>>
      BY <2>2 DEF Crash
    <3> QED
      BY <3>4, <3>5, DeliversOrStutters
  <2> QED
    BY <1>3, <2>1, <2>2 DEF Environment
<1>4. CASE UNCHANGED vars
  BY <1>4, Stutters DEF vars
<1> QED
  BY <1>1, <1>2, <1>3, <1>4 DEF Next

\* wal.rs implements the abstract durable queue while power is kept.
THEOREM WalImplementsQueue == ASSUME ~PowerLoss PROVE Spec => QueueSpec
<1>1. Init => Queue!QueueInit
  <2> SUFFICES ASSUME Init PROVE Queue!QueueInit
    OBVIOUS
  <2>1. last \in 0..MaxBatch /\ accepted = 1..last /\ accepted \subseteq Batch
    BY DEF Init, Batch
  <2>2. \A b \in Batch : file[b] = IF b \in accepted THEN "pending" ELSE "none"
    BY <2>1 DEF Init, Batch
  <2>3. Pending = accepted /\ Aside = {} /\ ch = {}
    BY <2>1, <2>2 DEF Init, Pending, Aside
  <2> QED
    BY <2>1, <2>3 DEF Queue!QueueInit
<1>2. TypeOK /\ WalInv /\ [Next]_vars => [Queue!QueueNext]_(Queue!queueVars)
  BY QueueStep
<1> QED
  BY <1>1, <1>2, TypeCorrect, WalInvariant, PTL DEF Spec, QueueSpec, Queue!QueueSpec
=============================================================================
