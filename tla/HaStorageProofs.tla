-------------------------- MODULE HaStorageProofs --------------------------
(***************************************************************************)
(* TLAPS proofs about the storage stack: type correctness, that every bar  *)
(* the cache shows is in ClickHouse, in its author's log, or reported as   *)
(* lost, and that a collector never sets its own bars back.  All hold for  *)
(* every number of collectors, minutes, handovers and faults, and          *)
(* whichever batches ClickHouse rejects.                                   *)
(***************************************************************************)
EXTENDS HaStorage, WellFoundedInduction, TLAPS

USE HaStorageAssumption

\* Whoever is past its append is at a real minute.
PlaceInv ==
    /\ \A n \in Node : /\ pc[n] # "idle" => minute[n] \in Minute
                       /\ dpc[n] = "insert" => dm[n] \in Minute
    /\ rpc # "off" => rm \in Minute

\* A collector's bar of minute m is in ClickHouse, in the collector's log, or
\* the collector knows that it is not kept.
Kept(m, n) == m \in stored \/ m \in wal[n] \/ Bar(m, n) \in lost

\* What a writer may still put into the cache is kept already: from the
\* append on for a loop, whoever delivers or reaps its file meanwhile, and
\* from the insert on for the tool, which has no log.
PendingKept ==
    /\ \A n \in Node : pc[n] # "idle" => Kept(minute[n], n)
    /\ rpc = "cache" => rm \in stored \/ Bar(rm, "resync") \in lost

HaInv == TypeOK /\ PlaceInv /\ PendingKept /\ ShownIsKept

-----------------------------------------------------------------------------
(* Oldest and newest minutes.                                              *)

\* A nonempty set of naturals has a least element, which Min finds.
LEMMA MinIsMember ==
    ASSUME NEW S, S \subseteq Nat, S # {}
    PROVE  Min(S) \in S
<1>1. PICK x \in S : \A y \in S : ~(<<y, x>> \in OpToRel(<, Nat))
  BY WFMin, NatLessThanWellFounded, Zenon
<1>2. \A y \in S : x <= y
  <2> SUFFICES ASSUME NEW y \in S PROVE x <= y
    OBVIOUS
  <2>1. x \in Nat /\ y \in Nat
    OBVIOUS
  <2>2. ~(y < x)
    BY <1>1, <2>1 DEF OpToRel
  <2> QED
    BY <2>1, <2>2
<1> QED
  BY <1>2 DEF Min

\* A bounded, nonempty set of naturals has a greatest element, which Max finds.
LEMMA MaxIsMember ==
    ASSUME NEW S, S \subseteq 0..MaxMinute, S # {}
    PROVE  Max(S) \in S /\ \A t \in S : t <= Max(S)
<1> DEFINE T == {MaxMinute - s : s \in S}
<1>1. \A s \in S : s \in Nat /\ MaxMinute - s \in Nat
  OBVIOUS
<1>2. T \subseteq Nat /\ T # {}
  BY <1>1
<1>3. PICK x \in T : \A y \in T : ~(<<y, x>> \in OpToRel(<, Nat))
  BY <1>2, WFMin, NatLessThanWellFounded, Zenon
<1>4. \A y \in T : ~(y < x)
  BY <1>2, <1>3 DEF OpToRel
<1>5. PICK s \in S : x = MaxMinute - s
  BY <1>3
<1>6. ASSUME NEW t \in S PROVE s >= t
  <2>1. ~(MaxMinute - t < MaxMinute - s)
    BY <1>4, <1>5
  <2> QED
    BY <1>1, <2>1
<1>7. Max(S) \in S /\ \A t \in S : Max(S) >= t
  BY <1>6 DEF Max
<1> QED
  BY <1>1, <1>7

-----------------------------------------------------------------------------
(* Types.                                                                  *)

\* An insert of a minute leaves minutes in the table, whether it succeeds,
\* fails, or only its answer is lost; it never takes a row away.
LEMMA InsertGrows ==
    ASSUME TypeOK, NEW m \in Minute, Insert(m) \/ InsertErr(m)
    PROVE  stored' \subseteq Minute /\ stored \subseteq stored'
BY DEF Insert, InsertErr, TypeOK

\* A fault is counted up to its bound.
LEMMA FaultType == ASSUME TypeOK, Fault PROVE faults' \in 0..MaxFaults
BY DEF TypeOK, Fault

\* A bar of a collector or of the tool has its type, in the cache too.
LEMMA BarHasType ==
    ASSUME NEW m \in Minute, NEW by \in Node \union {"resync"}
    PROVE  Bar(m, by) \in BarType
BY DEF Bar, BarType

LEMMA ShownHasType ==
    ASSUME NEW m \in Minute, NEW by \in Node \union {"resync"}, BulkSetLatest(m, by)
    PROVE  cache' \in BarType
BY DEF BulkSetLatest, Bar, BarType

\* Every action preserves the types.
LEMMA TypeStep ==
    ASSUME TypeOK, PlaceInv, [Next]_vars
    PROVE  TypeOK' /\ PlaceInv'
<1> USE DEF loops, drainers, tool
<1>1. ASSUME NEW n \in Node, WalAppend(n) PROVE TypeOK' /\ PlaceInv'
  <2>1. /\ minute[n] \in 0..MaxMinute /\ minute[n] + 1 \in Minute
        /\ minute' = [minute EXCEPT ![n] = minute[n] + 1] /\ minute'[n] = minute[n] + 1
    BY <1>1 DEF WalAppend, TypeOK, Minute
  <2>2. minute' \in [Node -> 0..MaxMinute]
    BY <2>1 DEF TypeOK, Minute
  <2>3. wal' \in [Node -> SUBSET Minute] /\ faults' \in 0..MaxFaults
        /\ lost' \subseteq BarType
    BY <1>1, <2>1, FaultType, BarHasType DEF WalAppend, TypeOK
  <2>4. pc' \in [Node -> {"idle", "insert", "regate", "cache"}]
    BY <1>1 DEF WalAppend, TypeOK
  <2>5. UNCHANGED <<poison, handovers, leader, dpc, dm, stored, cache, rpc, rm, resyncs>>
    BY <1>1 DEF WalAppend
  <2>6. \A k \in Node \ {n} : pc'[k] = pc[k] /\ minute'[k] = minute[k]
    BY <1>1, <2>1 DEF WalAppend, TypeOK
  <2>7. TypeOK'
    BY <2>2, <2>3, <2>4, <2>5 DEF TypeOK
  <2>8. PlaceInv'
    BY <2>1, <2>5, <2>6 DEF PlaceInv, Minute
  <2> QED
    BY <2>7, <2>8
<1>2. ASSUME NEW n \in Node, Upsert(n) PROVE TypeOK' /\ PlaceInv'
  <2>1. minute[n] \in Minute
    BY <1>2 DEF Upsert, PlaceInv
  <2>2. stored' \subseteq Minute
    BY <1>2, <2>1, InsertGrows DEF Upsert
  <2>3. faults' \in 0..MaxFaults
    BY <1>2, FaultType DEF Upsert, InsertErr, TypeOK
  <2>4. /\ wal' \in [Node -> SUBSET Minute]
        /\ pc' \in [Node -> {"idle", "insert", "regate", "cache"}]
    BY <1>2 DEF Upsert, TypeOK
  <2>5. TypeOK'
    BY <1>2, <2>2, <2>3, <2>4 DEF Upsert, TypeOK
  <2>6. PlaceInv'
    BY <1>2, <2>1 DEF Upsert, PlaceInv, TypeOK, Minute
  <2> QED
    BY <2>5, <2>6
<1>3. ASSUME NEW n \in Node, Regate(n) PROVE TypeOK' /\ PlaceInv'
  BY <1>3 DEF Regate, TypeOK, PlaceInv, Minute
<1>4. ASSUME NEW n \in Node, SetCacheAndPublish(n) PROVE TypeOK' /\ PlaceInv'
  <2>1. minute[n] \in Minute
    BY <1>4 DEF SetCacheAndPublish, PlaceInv
  <2>2. cache' \in BarType \union {NoBar}
    BY <1>4, <2>1, ShownHasType DEF SetCacheAndPublish, TypeOK
  <2>3. faults' \in 0..MaxFaults
    BY <1>4, FaultType DEF SetCacheAndPublish, TypeOK
  <2>4. TypeOK'
    BY <1>4, <2>2, <2>3 DEF SetCacheAndPublish, TypeOK
  <2>5. PlaceInv'
    BY <1>4, <2>1 DEF SetCacheAndPublish, PlaceInv, TypeOK, Minute
  <2> QED
    BY <2>4, <2>5
<1>5. ASSUME NEW n \in Node, DrainerTakes(n) PROVE TypeOK' /\ PlaceInv'
  <2>1. wal[n] \subseteq Minute /\ Minute \subseteq Nat
    BY DEF TypeOK, Minute
  <2>2. Min(wal[n]) \in wal[n]
    BY <1>5, <2>1, MinIsMember DEF DrainerTakes
  <2>3. Min(wal[n]) \in Minute
    BY <2>1, <2>2
  <2> HIDE DEF Min
  <2>4. TypeOK'
    BY <1>5, <2>3 DEF DrainerTakes, TypeOK, Minute
  <2>5. PlaceInv'
    BY <1>5, <2>3 DEF DrainerTakes, TypeOK, PlaceInv, Minute
  <2> QED
    BY <2>4, <2>5
<1>6. ASSUME NEW n \in Node, Drain(n) PROVE TypeOK' /\ PlaceInv'
  <2>1. dm[n] \in Minute
    BY <1>6 DEF Drain, PlaceInv
  <2>2. stored' \subseteq Minute
    BY <1>6, <2>1, InsertGrows DEF Drain
  <2>3. faults' \in 0..MaxFaults
    BY <1>6, FaultType DEF Drain, InsertErr, TypeOK
  <2>4. /\ wal' \in [Node -> SUBSET Minute]
        /\ dpc' \in [Node -> {"sleep", "insert"}] /\ dm' \in [Node -> 0..MaxMinute]
    BY <1>6 DEF Drain, TypeOK
  <2>5. TypeOK'
    BY <1>6, <2>2, <2>3, <2>4 DEF Drain, TypeOK
  <2>6. PlaceInv'
    BY <1>6 DEF Drain, PlaceInv, TypeOK, Minute
  <2> QED
    BY <2>5, <2>6
<1>7. ASSUME NEW n \in Node, Reap(n) PROVE TypeOK' /\ PlaceInv'
  <2>1. wal[n] \subseteq Minute /\ Minute \subseteq Nat
    BY DEF TypeOK, Minute
  <2>2. Min(wal[n]) \in Minute
    BY <1>7, <2>1, MinIsMember DEF Reap
  <2>3. /\ wal' \in [Node -> SUBSET Minute] /\ faults' \in 0..MaxFaults
        /\ lost' \subseteq BarType
    BY <1>7, <2>2, FaultType, BarHasType DEF Reap, TypeOK
  <2> QED
    BY <1>7, <2>3 DEF Reap, TypeOK, PlaceInv
<1>8. ASSUME NEW n \in Node, Acquire(n) PROVE TypeOK' /\ PlaceInv'
  BY <1>8 DEF Acquire, TypeOK, PlaceInv
<1>9. ASSUME NEW n \in Node, Crash(n) PROVE TypeOK' /\ PlaceInv'
  <2> DEFINE M == {minute[k] : k \in Node}
  <2>1. M \subseteq 0..MaxMinute /\ M # {}
    BY DEF TypeOK
  <2>2. Max(M) \in 0..MaxMinute
    BY <2>1, MaxIsMember
  <2>3. minute' \in [Node -> 0..MaxMinute]
    BY <1>9, <2>2 DEF Crash, TypeOK
  <2>4. stored' \subseteq Minute
    BY <1>9 DEF Crash, TypeOK, PlaceInv, Insert
  <2>5. faults' \in 0..MaxFaults /\ leader' \in Node \union {NoNode}
    BY <1>9, FaultType DEF Crash, TypeOK
  <2>6. TypeOK'
    BY <1>9, <2>3, <2>4, <2>5 DEF Crash, TypeOK
  <2>7. \A k \in Node \ {n} : pc'[k] = pc[k] /\ minute'[k] = minute[k]
                              /\ dpc'[k] = dpc[k] /\ dm'[k] = dm[k]
    BY <1>9 DEF Crash, TypeOK
  <2>8. pc'[n] = "idle" /\ dpc'[n] = "sleep" /\ UNCHANGED <<rpc, rm>>
    BY <1>9 DEF Crash, TypeOK
  <2>9. PlaceInv'
    BY <2>7, <2>8 DEF PlaceInv, Minute
  <2> QED
    BY <2>6, <2>9
<1>10. ASSUME NEW m \in Minute, Resync(m) PROVE TypeOK' /\ PlaceInv'
  BY <1>10 DEF Resync, TypeOK, PlaceInv, Minute
<1>11. CASE ResyncUpsert
  <2>1. rm \in Minute
    BY <1>11 DEF ResyncUpsert, PlaceInv
  <2>2. stored' \subseteq Minute
    BY <1>11, <2>1, InsertGrows DEF ResyncUpsert
  <2>3. /\ faults' \in 0..MaxFaults
        /\ lost' \subseteq BarType
    BY <1>11, <2>1, FaultType, BarHasType DEF ResyncUpsert, InsertErr, TypeOK
  <2> QED
    BY <1>11, <2>1, <2>2, <2>3 DEF ResyncUpsert, TypeOK, PlaceInv
<1>12. CASE ResyncCache
  <2>1. rm \in Minute
    BY <1>12 DEF ResyncCache, PlaceInv
  <2>2. cache' \in BarType \union {NoBar}
    BY <1>12, <2>1, ShownHasType DEF ResyncCache, TypeOK
  <2>3. faults' \in 0..MaxFaults
    BY <1>12, FaultType DEF ResyncCache, TypeOK
  <2> QED
    BY <1>12, <2>2, <2>3 DEF ResyncCache, TypeOK, PlaceInv
<1>13. CASE CacheExpires
  BY <1>13 DEF CacheExpires, TypeOK, PlaceInv
<1>14. CASE LoseLease
  BY <1>14 DEF LoseLease, TypeOK, PlaceInv
<1>15. CASE UNCHANGED vars
  BY <1>15 DEF vars, TypeOK, PlaceInv
<1> QED
  BY <1>1, <1>2, <1>3, <1>4, <1>5, <1>6, <1>7, <1>8, <1>9, <1>10, <1>11, <1>12, <1>13,
     <1>14, <1>15 DEF Next, LoopStep

-----------------------------------------------------------------------------
(* What is shown is kept.                                                  *)

\* A step that takes a file from a log has stored its minute or reported it
\* as lost, and neither ClickHouse nor the history forgets.
LEMMA KeptStep ==
    ASSUME TypeOK, [Next]_vars, NEW n \in Node, NEW m, Kept(m, n)
    PROVE  Kept(m, n)'
<1> USE DEF Kept, loops, drainers, tool
<1>1. ASSUME NEW k \in Node, WalAppend(k) PROVE Kept(m, n)'
  BY <1>1 DEF WalAppend, TypeOK
<1>2. ASSUME NEW k \in Node, Upsert(k) PROVE Kept(m, n)'
  BY <1>2 DEF Upsert, Insert, InsertErr, TypeOK
<1>3. ASSUME NEW k \in Node, Drain(k) PROVE Kept(m, n)'
  BY <1>3 DEF Drain, Insert, InsertErr, TypeOK
<1>4. ASSUME NEW k \in Node, Reap(k) PROVE Kept(m, n)'
  <2>1. CASE k = n /\ m = Min(wal[k])
    BY <1>4, <2>1 DEF Reap
  <2>2. CASE ~(k = n /\ m = Min(wal[k]))
    BY <1>4, <2>2 DEF Reap, TypeOK
  <2> QED
    BY <2>1, <2>2
<1>5. ASSUME NEW k \in Node, Crash(k) PROVE Kept(m, n)'
  BY <1>5 DEF Crash, Insert
<1>6. CASE ResyncUpsert
  BY <1>6 DEF ResyncUpsert, Insert, InsertErr
<1>7. CASE UNCHANGED <<stored, wal, lost>>
  BY <1>7
<1>8. ASSUME NEW k \in Node,
             Regate(k) \/ SetCacheAndPublish(k) \/ DrainerTakes(k) \/ Acquire(k)
      PROVE  Kept(m, n)'
  BY <1>7, <1>8 DEF Regate, SetCacheAndPublish, DrainerTakes, Acquire
<1>9. ASSUME (\E x \in Minute : Resync(x)) \/ ResyncCache \/ CacheExpires \/ LoseLease
      PROVE  Kept(m, n)'
  BY <1>7, <1>9 DEF Resync, ResyncCache, CacheExpires, LoseLease
<1> QED
  BY <1>1, <1>2, <1>3, <1>4, <1>5, <1>6, <1>7, <1>8, <1>9 DEF Next, LoopStep, vars

\* Rows and reports are never taken back.
LEMMA Monotone == [Next]_vars => stored \subseteq stored' /\ lost \subseteq lost'
<1> SUFFICES ASSUME [Next]_vars PROVE stored \subseteq stored' /\ lost \subseteq lost'
  OBVIOUS
<1> USE DEF loops, drainers, tool
<1>1. ASSUME NEW k \in Node, WalAppend(k) \/ Upsert(k) \/ Drain(k) \/ Reap(k) \/ Crash(k)
      PROVE  stored \subseteq stored' /\ lost \subseteq lost'
  BY <1>1 DEF WalAppend, Upsert, Drain, Reap, Crash, Insert, InsertErr
<1>2. CASE ResyncUpsert
  BY <1>2 DEF ResyncUpsert, Insert, InsertErr
<1>3. ASSUME NEW k \in Node,
             Regate(k) \/ SetCacheAndPublish(k) \/ DrainerTakes(k) \/ Acquire(k)
      PROVE  stored \subseteq stored' /\ lost \subseteq lost'
  BY <1>3 DEF Regate, SetCacheAndPublish, DrainerTakes, Acquire
<1>4. ASSUME (\E x \in Minute : Resync(x)) \/ ResyncCache \/ CacheExpires \/ LoseLease
      PROVE  stored \subseteq stored' /\ lost \subseteq lost'
  BY <1>4 DEF Resync, ResyncCache, CacheExpires, LoseLease
<1> QED
  BY <1>1, <1>2, <1>3, <1>4 DEF Next, LoopStep, vars

\* What a loop holds between its append and its SET stays kept.
LEMMA LoopsStep ==
    ASSUME TypeOK, PendingKept, [Next]_vars, NEW n \in Node, pc'[n] # "idle"
    PROVE  Kept(minute[n], n)'
<1> USE DEF loops, drainers, tool
<1>1. CASE WalAppend(n)
  <2>1. \/ wal' = [wal EXCEPT ![n] = @ \union {minute'[n]}]
        \/ lost' = lost \union {Bar(minute'[n], n)}
    BY <1>1 DEF WalAppend
  <2> QED
    BY <2>1 DEF Kept, TypeOK
<1>2. CASE ~WalAppend(n)
  <2>1. pc[n] # "idle" /\ minute'[n] = minute[n]
    <3>1. ASSUME NEW k \in Node, LoopStep(k) PROVE pc[n] # "idle" /\ minute'[n] = minute[n]
      BY <1>2, <3>1 DEF LoopStep, WalAppend, Upsert, Regate, SetCacheAndPublish, TypeOK
    <3>2. ASSUME NEW k \in Node, Crash(k) PROVE pc[n] # "idle" /\ minute'[n] = minute[n]
      <4>1. k # n
        BY <3>2 DEF Crash, TypeOK
      <4> QED
        BY <3>2, <4>1 DEF Crash, TypeOK
    <3>3. CASE UNCHANGED loops
      BY <3>3
    <3> QED
      BY <3>1, <3>2, <3>3 DEF Next, DrainerTakes, Drain, Reap, Acquire, Resync,
         ResyncUpsert, ResyncCache, CacheExpires, LoseLease, vars
  <2>2. Kept(minute[n], n)
    BY <2>1 DEF PendingKept
  <2>3. \/ minute[n] \in stored'
        \/ minute[n] \in wal'[n]
        \/ Bar(minute[n], n) \in lost'
    BY <2>2, KeptStep DEF Kept
  <2> QED
    BY <2>1, <2>3 DEF Kept
<1> QED
  BY <1>1, <1>2

\* What the tool holds between its insert and its SET stays kept.
LEMMA ToolStep ==
    ASSUME TypeOK, PendingKept, [Next]_vars, rpc' = "cache"
    PROVE  rm' \in stored' \/ Bar(rm', "resync") \in lost'
<1> USE DEF loops, drainers, tool
<1>1. CASE ResyncUpsert
  BY <1>1 DEF ResyncUpsert, Insert
<1>2. CASE ~ResyncUpsert
  <2>1. rpc = "cache" /\ rm' = rm
    BY <1>2 DEF Next, LoopStep, WalAppend, Upsert, Regate, SetCacheAndPublish, DrainerTakes,
       Drain, Reap, Acquire, Crash, Resync, ResyncCache, CacheExpires, LoseLease, vars
  <2> QED
    BY <2>1, Monotone DEF PendingKept
<1> QED
  BY <1>1, <1>2

\* What the cache shows stays kept, and what is put there is kept already.
LEMMA ShownStep ==
    ASSUME TypeOK, PendingKept, ShownIsKept, [Next]_vars
    PROVE  ShownIsKept'
<1> USE DEF loops, drainers, tool
<1>1. CASE cache' = cache
  <2>1. CASE cache = NoBar
    BY <1>1, <2>1 DEF ShownIsKept, NoBar
  <2>2. CASE cache # NoBar /\ cache.by = "resync"
    BY <1>1, <2>2, Monotone DEF ShownIsKept
  <2>3. CASE cache # NoBar /\ cache.by # "resync"
    <3>1. cache.by \in Node
      BY <2>3 DEF TypeOK, BarType
    <3>2. Kept(cache.minute, cache.by)
      BY <2>3 DEF ShownIsKept, Kept
    <3>3. \/ cache.minute \in stored'
          \/ cache.minute \in wal'[cache.by]
          \/ Bar(cache.minute, cache.by) \in lost'
      BY <3>1, <3>2, KeptStep DEF Kept
    <3> QED
      BY <1>1, <2>3, <3>3 DEF ShownIsKept
  <2> QED
    BY <2>1, <2>2, <2>3
<1>2. ASSUME NEW n \in Node, SetCacheAndPublish(n), BulkSetLatest(minute[n], n)
      PROVE  ShownIsKept'
  <2>1. Kept(minute[n], n) /\ UNCHANGED <<wal, stored, lost>>
    BY <1>2 DEF SetCacheAndPublish, PendingKept
  <2>2. cache'.minute = minute[n] /\ cache'.by = n /\ n # "resync"
    BY <1>2 DEF BulkSetLatest, Bar
  <2> QED
    BY <2>1, <2>2 DEF ShownIsKept, Kept
<1>3. CASE ResyncCache /\ BulkSetLatest(rm, "resync")
  <2>1. (rm \in stored \/ Bar(rm, "resync") \in lost) /\ UNCHANGED <<stored, lost>>
    BY <1>3 DEF ResyncCache, PendingKept
  <2>2. cache'.minute = rm /\ cache'.by = "resync"
    BY <1>3 DEF BulkSetLatest, Bar
  <2> QED
    BY <2>1, <2>2 DEF ShownIsKept
<1>4. CASE CacheExpires
  BY <1>4 DEF CacheExpires, ShownIsKept, NoBar
<1> QED
  BY <1>1, <1>2, <1>3, <1>4 DEF Next, LoopStep, WalAppend, Upsert, Regate,
     SetCacheAndPublish, DrainerTakes, Drain, Reap, Acquire, Crash, Resync, ResyncUpsert,
     ResyncCache, LoseLease, vars

\* The inductive invariant holds of every reachable state.
LEMMA HaInvariant == Spec => []HaInv
<1>1. Init => HaInv
  BY DEF Init, HaInv, TypeOK, PlaceInv, PendingKept, ShownIsKept, Minute
<1>2. HaInv /\ [Next]_vars => HaInv'
  <2> SUFFICES ASSUME HaInv, [Next]_vars PROVE HaInv'
    OBVIOUS
  <2>1. TypeOK /\ PlaceInv /\ PendingKept /\ ShownIsKept
    BY DEF HaInv
  <2>2. PendingKept'
    BY <2>1, LoopsStep, ToolStep DEF PendingKept
  <2> QED
    BY <2>1, <2>2, TypeStep, ShownStep DEF HaInv
<1> QED
  BY <1>1, <1>2, PTL DEF Spec

\* The logs, the drainers, the tool and both stores always have their types.
THEOREM TypeCorrect == Spec => []TypeOK
BY HaInvariant, PTL DEF HaInv

\* composite.rs never shows a bar that is neither in ClickHouse nor in its
\* author's log nor reported as lost, for any number of collectors, failovers,
\* crashes, reaped files and rejected batches.
THEOREM ShownBarsKept == Spec => []ShownIsKept
BY HaInvariant, PTL DEF HaInv

-----------------------------------------------------------------------------
(* What is shown by one collector advances.                                *)

\* A collector has not shown a minute it has not reached.
ShownReached == \A n \in Node : cache # NoBar /\ cache.by = n => cache.minute <= minute[n]

\* No collector goes back in time, a restart included.
LEMMA MinutesAdvance ==
    ASSUME TypeOK, [Next]_vars, NEW n \in Node
    PROVE  minute[n] \in Nat /\ minute'[n] \in Nat /\ minute[n] <= minute'[n]
<1>0. minute[n] \in Nat
  BY DEF TypeOK
<1>1. ASSUME NEW k \in Node, WalAppend(k) PROVE minute'[n] \in {minute[n], minute[n] + 1}
  BY <1>1 DEF WalAppend, TypeOK
<1>2. ASSUME NEW k \in Node, Crash(k)
      PROVE  minute'[n] \in Nat /\ minute[n] <= minute'[n]
  <2> DEFINE M == {minute[i] : i \in Node}
  <2>1. M \subseteq 0..MaxMinute /\ minute[n] \in M /\ M # {}
    BY DEF TypeOK
  <2> HIDE DEF M
  <2>2. Max(M) \in 0..MaxMinute /\ minute[n] <= Max(M)
    BY <2>1, MaxIsMember
  <2>3. minute'[n] \in {minute[n], Max(M)}
    BY <1>2 DEF Crash, TypeOK, M
  <2> QED
    BY <1>0, <2>2, <2>3
<1>3. CASE UNCHANGED minute
  BY <1>0, <1>3
<1> QED
  BY <1>0, <1>1, <1>2, <1>3 DEF Next, LoopStep, Upsert, Regate, SetCacheAndPublish, DrainerTakes,
     Drain, Reap, Acquire, Resync, ResyncUpsert, ResyncCache, CacheExpires, LoseLease, vars, loops

\* Who may change the entry, and to what.
LEMMA CacheSet ==
    ASSUME TypeOK, [Next]_vars, cache' # cache, cache' # NoBar
    PROVE  \/ \E n \in Node : cache' = Bar(minute[n], n)
           \/ cache' = Bar(rm, "resync")
BY DEF Next, LoopStep, WalAppend, Upsert, Regate, SetCacheAndPublish, BulkSetLatest, DrainerTakes,
       Drain, Reap, Acquire, Crash, Resync, ResyncUpsert, ResyncCache, CacheExpires, LoseLease, vars

LEMMA ReachedStep ==
    ASSUME TypeOK, [Next]_vars, ShownReached PROVE ShownReached'
<1> SUFFICES ASSUME NEW n \in Node, cache' # NoBar, cache'.by = n
             PROVE  cache'.minute <= minute'[n]
  BY DEF ShownReached
<1>1. minute[n] \in Nat /\ minute'[n] \in Nat /\ minute[n] <= minute'[n]
  BY MinutesAdvance
<1>2. CASE cache' = cache
  <2>1. cache.minute <= minute[n] /\ cache.minute \in Nat
    BY <1>2 DEF ShownReached, TypeOK, BarType, Minute
  <2> QED
    BY <1>1, <1>2, <2>1
<1>3. CASE cache' # cache
  <2>1. cache' = Bar(minute[n], n)
    BY <1>3, CacheSet DEF Bar
  <2> QED
    BY <1>1, <2>1 DEF Bar
<1> QED
  BY <1>2, <1>3

\* Whatever the drainers replay and however often a collector restarts, an
\* older minute replaces a newer one in the cache only if the newer one was
\* somebody else's (redis.rs:95 sets it unconditionally).
THEOREM OwnBarsNeverSetBack == Spec => OwnBarsAdvance
<1>1. Init => ShownReached
  BY DEF Init, ShownReached
<1>2. ASSUME TypeOK, ShownReached, [Next]_vars, NEW n \in Node,
             cache # NoBar, cache' # NoBar, cache.by = n, cache'.by = n
      PROVE  cache.minute <= cache'.minute
  <2>1. cache.minute <= minute[n] /\ cache.minute \in Nat
    BY <1>2 DEF ShownReached, TypeOK, BarType, Minute
  <2>2. cache' = cache \/ cache' = Bar(minute[n], n)
    BY <1>2, CacheSet DEF Bar
  <2> QED
    BY <2>1, <2>2 DEF Bar
<1>3. TypeOK /\ ShownReached /\ [Next]_vars
        => [\A n \in Node :
              cache # NoBar /\ cache' # NoBar /\ cache.by = n /\ cache'.by = n
                  => cache.minute <= cache'.minute]_vars
  BY <1>2
<1>4. TypeOK /\ ShownReached /\ [Next]_vars => ShownReached'
  BY ReachedStep
<1> QED
  BY <1>1, <1>3, <1>4, TypeCorrect, PTL DEF Spec, OwnBarsAdvance
=============================================================================
