---------------------------- MODULE LeaseProofs ----------------------------
(***************************************************************************)
(* TLAPS proofs about the writer lease: type correctness and the failover  *)
(* bound without further hypotheses; at most one leader, and the           *)
(* implementation of the abstract election, under the lease budget until   *)
(* Redis loses the key; the bound on an overlap under the budget.          *)
(***************************************************************************)
EXTENDS Lease, TLAPS

USE LeaseAssumption

\* Redis keeps the type of the key whatever command it executes.
LEMMA ExecuteType ==
    ASSUME NEW n \in Node, NEW refresh \in BOOLEAN, NEW res \in BOOLEAN,
           TypeOK, Execute(n, refresh, res)
    PROVE  holder' \in Node \union {NoNode} /\ ttlLeft' \in 0..TTL
BY DEF TypeOK, Execute, RefreshIfOwned, SetNx

\* Every action of failover.rs preserves the types.
LEMMA TypeStep == TypeOK /\ [Next]_vars => TypeOK'
<1> SUFFICES ASSUME TypeOK, [Next]_vars PROVE TypeOK'
  OBVIOUS
<1>1. ASSUME NEW n \in Node, NodeStep(n) PROVE TypeOK'
  <2>1. CASE Spawn(n)
    BY <2>1 DEF TypeOK, Spawn, Place, redis, spans
  <2>2. CASE SendTick(n)
    BY <2>2 DEF TypeOK, SendTick, Place, redis, spans
  <2>3. CASE Serve(n)
    <3>1. PICK res \in BOOLEAN : Execute(n, held[n], res) /\ ok' = [ok EXCEPT ![n] = res]
      BY <2>3 DEF Serve
    <3>2. held[n] \in BOOLEAN
      BY DEF TypeOK
    <3>3. holder' \in Node \union {NoNode} /\ ttlLeft' \in 0..TTL
      BY <3>1, <3>2, ExecuteType
    <3> QED
      BY <2>3, <3>1, <3>3 DEF TypeOK, Serve, Place, spans
  <2>4. CASE ApplyReply(n)
    BY <2>4 DEF TypeOK, ApplyReply, Place, redis, spans
  <2>5. CASE TickError(n)
    BY <2>5 DEF TypeOK, TickError, Fault, Abandon, Place, redis
  <2>6. CASE Crash(n)
    BY <2>6 DEF TypeOK, Crash, Fault, Abandon, Place, redis
  <2>7. ASSUME NEW refresh \in BOOLEAN, StrayExecutes(n, refresh) PROVE TypeOK'
    <3>1. holder' \in Node \union {NoNode} /\ ttlLeft' \in 0..TTL
      BY <2>7, ExecuteType DEF StrayExecutes
    <3> QED
      BY <2>7, <3>1 DEF TypeOK, StrayExecutes
  <2> QED
    BY <1>1, <2>1, <2>2, <2>3, <2>4, <2>5, <2>6, <2>7 DEF NodeStep
<1>2. CASE LoseKey
  <2>1. intact' \in BOOLEAN
    BY <1>2, Zenon DEF LoseKey
  <2> QED
    BY <1>2, <2>1 DEF TypeOK, LoseKey, Fault
<1>3. CASE Tick
  BY <1>3 DEF TypeOK, Tick, Up
<1>4. CASE UNCHANGED vars
  BY <1>4 DEF TypeOK, vars
<1> QED
  BY <1>1, <1>2, <1>3, <1>4 DEF Next

\* The flag, the loop's locals and the key always have their types.
THEOREM TypeCorrect == Spec => []TypeOK
<1>1. Init => TypeOK
  BY DEF Init, TypeOK, Place
<1> QED
  BY <1>1, TypeStep, PTL DEF Spec

-----------------------------------------------------------------------------
(* At most one leader.                                                     *)

\* A command is refused to, or leaves alone, whoever else claims the key; a
\* positive answer means the key is ours with its full lifetime.
LEMMA ExecuteEffect ==
    ASSUME NEW n \in Node, NEW refresh \in BOOLEAN, NEW res \in BOOLEAN,
           TypeOK, holder = NoNode <=> ttlLeft = 0, Execute(n, refresh, res)
    PROVE  /\ holder' = NoNode <=> ttlLeft' = 0
           /\ res => holder' = n /\ ttlLeft' = TTL
           /\ holder # NoNode => holder' = holder /\ ttlLeft' >= ttlLeft
           /\ refresh /\ holder = n => res
BY DEF TypeOK, Execute, RefreshIfOwned, SetNx

\* The inductive invariant is preserved: a leader's key always outlives the
\* time until Redis executes its next refresh.
LEMMA KeptInvStep ==
    ASSUME LeaseBudget, TypeOK, KeptInv, [Next]_vars, ~LoseKey
    PROVE  KeptInv'
<1> USE DEF LeaseBudget
<1>1. ASSUME NEW n \in Node, NodeStep(n) PROVE KeptInv'
  <2>1. CASE Spawn(n)
    BY <2>1 DEF TypeOK, KeptInv, NodeInv, Spawn, Claims, Needed, Deadline, redis, spans
  <2>2. CASE SendTick(n)
    BY <2>2 DEF TypeOK, KeptInv, NodeInv, SendTick, Claims, Needed, Deadline, redis, spans
  <2>3. CASE Serve(n)
    <3>1. PICK res \in BOOLEAN : Execute(n, held[n], res) /\ ok' = [ok EXCEPT ![n] = res]
      BY <2>3 DEF Serve
    <3>2. /\ holder' = NoNode <=> ttlLeft' = 0
          /\ res => holder' = n /\ ttlLeft' = TTL
          /\ holder # NoNode => holder' = holder /\ ttlLeft' >= ttlLeft
          /\ held[n] /\ holder = n => res
      BY <3>1, ExecuteEffect DEF TypeOK, KeptInv
    <3>3. /\ pc' = [pc EXCEPT ![n] = "replied"] /\ timer' = [timer EXCEPT ![n] = 0]
          /\ pc[n] = "sent" /\ held' = held /\ isLeader' = isLeader
      BY <2>3 DEF Serve
    <3>4. NodeInv(n)'
      <4>1. pc'[n] = "replied" /\ timer'[n] = 0 /\ ok'[n] = res
        BY <3>1, <3>3 DEF TypeOK
      <4>2. isLeader[n] => res
        BY <3>2, <3>3 DEF TypeOK, KeptInv, NodeInv, Claims
      <4> QED
        BY <3>2, <3>3, <4>1, <4>2
        DEF TypeOK, KeptInv, NodeInv, Claims, Needed, Deadline
    <3>5. ASSUME NEW m \in Node \ {n} PROVE NodeInv(m)'
      <4>1. pc'[m] = pc[m] /\ timer'[m] = timer[m] /\ ok'[m] = ok[m]
        BY <3>1, <3>3 DEF TypeOK
      <4>2. NodeInv(m)
        BY DEF KeptInv
      <4>3. Needed(m)' = Needed(m) /\ (Claims(m)' <=> Claims(m))
        BY <3>3, <4>1 DEF Needed, Claims
      <4>4. Needed(m) \in Int /\ ttlLeft \in Int /\ ttlLeft' \in Int
        BY <3>1, ExecuteType DEF TypeOK, Needed
      <4> QED
        BY <3>2, <3>3, <4>1, <4>2, <4>3, <4>4 DEF TypeOK, NodeInv
    <3> QED
      BY <3>2, <3>4, <3>5 DEF KeptInv
  <2>4. CASE ApplyReply(n)
    BY <2>4 DEF TypeOK, KeptInv, NodeInv, ApplyReply, Claims, Needed, Deadline, redis, spans
  <2>5. CASE TickError(n)
    BY <2>5 DEF TypeOK, KeptInv, NodeInv, TickError, Claims, Needed, Deadline, redis
  <2>6. CASE Crash(n)
    BY <2>6 DEF TypeOK, KeptInv, NodeInv, Crash, Claims, Needed, Deadline, redis
  <2>7. ASSUME NEW refresh \in BOOLEAN, StrayExecutes(n, refresh) PROVE KeptInv'
    <3>1. PICK res \in BOOLEAN : Execute(n, refresh, res)
      BY <2>7 DEF StrayExecutes
    <3>2. /\ holder' = NoNode <=> ttlLeft' = 0
          /\ holder # NoNode => holder' = holder /\ ttlLeft' >= ttlLeft
      BY <3>1, ExecuteEffect DEF KeptInv
    <3> QED
      <4>1. ASSUME NEW m \in Node PROVE NodeInv(m)'
        <5>1. Needed(m)' = Needed(m) /\ (Claims(m)' <=> Claims(m))
          BY <2>7 DEF StrayExecutes, Needed, Claims
        <5>2. Needed(m) \in Int /\ ttlLeft \in Int /\ ttlLeft' \in Int
          BY <3>1, ExecuteType DEF TypeOK, Needed
        <5>3. NodeInv(m)
          BY DEF KeptInv
        <5> QED
          BY <2>7, <3>2, <5>1, <5>2, <5>3 DEF TypeOK, NodeInv, StrayExecutes
      <4> QED
        BY <3>2, <4>1 DEF KeptInv
  <2> QED
    BY <1>1, <2>1, <2>2, <2>3, <2>4, <2>5, <2>6, <2>7 DEF NodeStep
<1>2. CASE LoseKey
  BY <1>2
<1>3. CASE Tick
  <2>1. ASSUME NEW m \in Node PROVE NodeInv(m)'
    <3>1. CASE pc[m] = "down"
      BY <1>3, <3>1 DEF TypeOK, KeptInv, NodeInv, Tick, Claims
    <3>2. CASE pc[m] # "down"
      <4>1. timer'[m] = timer[m] + 1 /\ timer[m] < Deadline(pc[m])
        BY <1>3, <3>2 DEF TypeOK, Tick, Up
      <4>2. Needed(m) \in Nat /\ Needed(m)' = Needed(m) - 1 /\ Deadline(pc[m]) \in Nat
        BY <1>3, <3>2, <4>1 DEF TypeOK, Tick, Needed, Deadline, Place
      <4>3. Claims(m) => holder = m /\ ttlLeft > Needed(m)
        BY DEF KeptInv, NodeInv
      <4>4. Claims(m) => holder' = m /\ ttlLeft' > Needed(m)'
        BY <1>3, <4>2, <4>3, <4>1 DEF TypeOK, Tick, Needed, Deadline, Place
      <4>5. Claims(m)' <=> Claims(m)
        BY <1>3 DEF Tick, Claims
      <4>6. timer'[m] <= Deadline(pc[m])
        BY <4>1, <4>2 DEF TypeOK
      <4> QED
        BY <1>3, <3>2, <4>4, <4>5, <4>6 DEF KeptInv, NodeInv, Tick
    <3> QED
      BY <3>1, <3>2
  <2>2. (holder = NoNode <=> ttlLeft = 0)'
    BY <1>3 DEF TypeOK, KeptInv, NodeInv, Tick
  <2> QED
    BY <2>1, <2>2 DEF KeptInv
<1>4. CASE UNCHANGED vars
  BY <1>4 DEF KeptInv, NodeInv, Claims, Needed, vars
<1> QED
  BY <1>1, <1>2, <1>3, <1>4 DEF Next

\* Only LoseKey ends the history in which Redis kept the key.
LEMMA IntactStep == TypeOK /\ [Next]_vars /\ intact' => intact /\ ~LoseKey
BY DEF TypeOK, Next, NodeStep, Spawn, SendTick, Serve, ApplyReply, TickError, Crash,
       StrayExecutes, LoseKey, Tick, redis, vars

\* Until Redis loses the key, every claim of leadership is backed by a key that
\* outlives the time until its next refresh: LeaseInv is inductive.
THEOREM LeaseInvariant == ASSUME LeaseBudget PROVE Spec => []LeaseInv
<1>1. Init => LeaseInv
  BY DEF Init, LeaseInv, KeptInv, NodeInv, Claims
<1>2. TypeOK /\ LeaseInv /\ [Next]_vars => LeaseInv'
  BY KeptInvStep, IntactStep DEF LeaseInv
<1> QED
  BY <1>1, <1>2, TypeCorrect, PTL DEF Spec

\* is_leader() is true on at most one collector, for any number of nodes and
\* faults, when the delays fit the budget and until Redis loses the key.
THEOREM LeaderUnique == ASSUME LeaseBudget PROVE Spec => []AtMostOneLeader
<1>1. LeaseInv => AtMostOneLeader
  BY DEF LeaseInv, KeptInv, NodeInv, AtMostOneLeader, Claims
<1> QED
  BY <1>1, LeaseInvariant, PTL

-----------------------------------------------------------------------------
(* The lease implements the abstract election.                             *)

\* Each step promotes one node while nobody leads, demotes the only leader,
\* or leaves the set of leaders alone.
LEMMA ElectionStep ==
    ASSUME TypeOK, TypeOK', KeptInv, KeptInv', [Next]_vars, intact, intact'
    PROVE  [Election!AbstractNext]_(IF intact THEN Leaders ELSE {})
<1>1. ASSUME NEW n \in Node, \A m \in Node \ {n} : isLeader'[m] = isLeader[m]
      PROVE  [Election!AbstractNext]_(IF intact THEN Leaders ELSE {})
  <2>1. CASE isLeader'[n] = isLeader[n]
    BY <1>1, <2>1 DEF Leaders
  <2>2. CASE isLeader'[n] /\ ~isLeader[n]
    <3>1. \A m \in Node \ {n} : ~isLeader'[m]
      BY <2>2 DEF KeptInv, NodeInv, Claims
    <3>2. Leaders = {} /\ Leaders' = {n}
      BY <1>1, <2>2, <3>1 DEF Leaders
    <3> QED
      BY <3>2 DEF Election!AbstractNext, Election!Promote
  <2>3. CASE ~isLeader'[n] /\ isLeader[n]
    <3>1. \A m \in Node \ {n} : ~isLeader[m]
      BY <2>3 DEF KeptInv, NodeInv, Claims
    <3>2. Leaders = {n} /\ Leaders' = {}
      BY <1>1, <2>3, <3>1 DEF Leaders
    <3> QED
      BY <3>2 DEF Election!AbstractNext, Election!Demote
  <2> QED
    BY <2>1, <2>2, <2>3 DEF TypeOK
<1>2. ASSUME NEW n \in Node, NodeStep(n)
      PROVE  \A m \in Node \ {n} : isLeader'[m] = isLeader[m]
  BY <1>2 DEF TypeOK, NodeStep, Spawn, SendTick, Serve, ApplyReply, TickError,
              Crash, StrayExecutes
<1>3. CASE UNCHANGED isLeader
  BY <1>3 DEF Leaders
<1> QED
  BY <1>1, <1>2, <1>3 DEF Next, LoseKey, Tick, vars

\* Losing the key ends the election: its leader, if any, is gone.
LEMMA KeyLossStep ==
    ASSUME TypeOK, LeaseInv, ~intact'
    PROVE  [Election!AbstractNext]_(IF intact THEN Leaders ELSE {})
<1>1. CASE ~intact \/ Leaders = {}
  BY <1>1
<1>2. CASE intact /\ Leaders # {}
  <2>1. PICK n \in Node : isLeader[n]
    BY <1>2 DEF Leaders
  <2>2. Leaders = {n}
    BY <1>2, <2>1 DEF Leaders, LeaseInv, KeptInv, NodeInv, Claims
  <2> QED
    BY <1>2, <2>1, <2>2 DEF Election!AbstractNext, Election!Demote
<1> QED
  BY <1>1, <1>2

\* failover.rs implements the abstract leader election under the budget, up
\* to the moment Redis loses the key.
THEOREM LeaseImplementsElection ==
    ASSUME LeaseBudget PROVE Spec => ElectionSpec
<1>1. Init => Election!AbstractInit
  BY DEF Init, Election!AbstractInit, Leaders
<1>2. TypeOK /\ TypeOK' /\ LeaseInv /\ LeaseInv' /\ [Next]_vars
        => [Election!AbstractNext]_(IF intact THEN Leaders ELSE {})
  BY ElectionStep, KeyLossStep, IntactStep DEF LeaseInv
<1> QED
  BY <1>1, <1>2, TypeCorrect, LeaseInvariant, PTL
  DEF Spec, ElectionSpec, Election!AbstractSpec

-----------------------------------------------------------------------------
(* How long nobody, and how long two nodes, may lead.  Neither bound needs *)
(* the key to be intact.                                                   *)

\* The deadlines of run_loop, and its flag while a command is under way.
LoopInv ==
    /\ holder = NoNode <=> ttlLeft = 0
    /\ \A n \in Node :
          /\ pc[n] # "down" => timer[n] <= Deadline(pc[n])
          /\ pc[n] = "down" => ~isLeader[n]
          /\ pc[n] \in {"sent", "replied"} => held[n] = isLeader[n]

\* One cycle of run_loop from the sleep to the next answer.
Cycle == RefreshInterval + MaxSlack + MaxRequest + MaxReply

\* Time until the answer that decides about the flag of n is applied: a
\* positive answer on its way decides for now, a negative one costs another
\* cycle before n may lead.
LeadIn(n) ==
    CASE pc[n] = "sleep"   -> Cycle - timer[n]
      [] pc[n] = "sent"    -> MaxRequest - timer[n] + MaxReply
      [] pc[n] = "replied" -> MaxReply - timer[n] + (IF ok[n] THEN 0 ELSE Cycle)
      [] OTHER             -> 0

GapLimit == TTL + Cycle + MaxReply

\* While nobody leads, the key is running out, or somebody who is up will take
\* it in time, or a positive answer is already on its way.
Pending ==
    \/ holder # NoNode /\ gap + ttlLeft <= TTL
    \/ holder = NoNode /\ \E n \in Up : gap + LeadIn(n) <= GapLimit
    \/ \E n \in Node : pc[n] = "replied" /\ ok[n] /\ gap + LeadIn(n) <= GapLimit

\* A gap that has just ended has a leader who has just been promoted, and who
\* cannot be demoted before time passes.
GapInv ==
    \/ gap = 0
    \/ Leaders = {} /\ Pending
    \/ gap <= GapLimit /\ \E n \in Leaders : pc[n] = "sleep" /\ timer[n] = 0

\* Time until a leader whose key is gone has applied the refusal.
StaleFor(n) ==
    CASE pc[n] = "sleep"   -> Cycle - timer[n]
      [] pc[n] = "sent"    -> MaxRequest - timer[n] + MaxReply
      [] pc[n] = "replied" -> MaxReply - timer[n] + (IF ok[n] THEN Cycle ELSE 0)
      [] OTHER             -> 0

\* The key of n is its own and outlives the time until the next refresh.
Backed(n) ==
    /\ holder = n /\ ttlLeft > Needed(n)
    /\ pc[n] = "replied" => ok[n]

\* Every claim is backed by the key or about to be refused.
OverlapInv ==
    /\ overlap <= Cycle + MaxReply
    /\ \A n \in Node : Claims(n) => Backed(n) \/ overlap + StaleFor(n) <= Cycle + MaxReply

\* run_loop keeps its deadlines, and the key exists as long as it lives.
LEMMA LoopStep == ASSUME TypeOK, LoopInv, [Next]_vars PROVE LoopInv'
<1> USE DEF TypeOK, LoopInv, Deadline, redis, spans
<1>1. ASSUME NEW n \in Node, NodeStep(n) PROVE LoopInv'
  <2>1. CASE Spawn(n)
    BY <2>1 DEF Spawn
  <2>2. CASE SendTick(n)
    BY <2>2 DEF SendTick
  <2>3. CASE Serve(n)
    <3>1. PICK res \in BOOLEAN : Execute(n, held[n], res)
      BY <2>3 DEF Serve
    <3>2. (holder = NoNode <=> ttlLeft = 0)'
      BY <3>1, ExecuteEffect
    <3> QED
      BY <2>3, <3>2 DEF Serve
  <2>4. CASE ApplyReply(n)
    BY <2>4 DEF ApplyReply
  <2>5. CASE TickError(n)
    BY <2>5 DEF TickError
  <2>6. CASE Crash(n)
    BY <2>6 DEF Crash
  <2>7. ASSUME NEW refresh \in BOOLEAN, StrayExecutes(n, refresh) PROVE LoopInv'
    BY <2>7, ExecuteEffect DEF StrayExecutes
  <2> QED
    BY <1>1, <2>1, <2>2, <2>3, <2>4, <2>5, <2>6, <2>7 DEF NodeStep
<1>2. CASE LoseKey
  BY <1>2 DEF LoseKey
<1>3. CASE Tick
  <2>1. (holder = NoNode <=> ttlLeft = 0)'
    BY <1>3 DEF Tick
  <2>2. ASSUME NEW n \in Node, pc[n] # "down" PROVE timer'[n] <= Deadline(pc[n])
    BY <1>3, <2>2 DEF Tick, Up, Place
  <2> QED
    BY <1>3, <2>1, <2>2 DEF Tick
<1>4. CASE UNCHANGED vars
  BY <1>4 DEF vars
<1> QED
  BY <1>1, <1>2, <1>3, <1>4 DEF Next

\* Whatever run_loop does, its deadlines hold in every reachable state.
LEMMA LoopInvariant == Spec => []LoopInv
<1>1. Init => LoopInv
  BY DEF Init, LoopInv
<1> QED
  BY <1>1, LoopStep, TypeCorrect, PTL DEF Spec

\* The remaining times are natural numbers within a cycle and an answer.
LEMMA RemainingTimes ==
    ASSUME TypeOK, LoopInv, NEW n \in Node
    PROVE  /\ Cycle \in Nat
           /\ LeadIn(n) \in 0..(Cycle + MaxReply)
           /\ StaleFor(n) \in 0..(Cycle + MaxReply)
           /\ pc[n] # "down" => Needed(n) \in Nat
BY DEF TypeOK, LoopInv, Deadline, Place, Cycle, LeadIn, StaleFor, Needed

\* The same of the state after a step.
LEMMA NextRemainingTimes ==
    ASSUME TypeOK', LoopInv', NEW n \in Node
    PROVE  Cycle \in Nat /\ StaleFor(n)' \in 0..(Cycle + MaxReply)
BY DEF TypeOK, LoopInv, Deadline, Place, Cycle, StaleFor

\* When time passes, the remaining times of a node that is up shrink with it.
LEMMA TimesShrink ==
    ASSUME TypeOK, LoopInv, Tick, NEW n \in Up
    PROVE  /\ n \in Node /\ n \in Up'
           /\ LeadIn(n) >= 1 /\ LeadIn(n)' = LeadIn(n) - 1
           /\ StaleFor(n) >= 1 /\ StaleFor(n)' = StaleFor(n) - 1
           /\ Needed(n) >= 1 /\ Needed(n)' = Needed(n) - 1
<1>1. n \in Node /\ pc[n] \in Place \ {"down"} /\ pc' = pc /\ ok' = ok
  BY DEF Up, TypeOK, Tick
<1>2. timer'[n] = timer[n] + 1 /\ timer[n] < Deadline(pc[n]) /\ timer[n] \in Nat
  BY <1>1 DEF Tick, TypeOK
<1> QED
  BY <1>1, <1>2 DEF Place, Deadline, Cycle, LeadIn, StaleFor, Needed, Up

-----------------------------------------------------------------------------
(* The failover bound.                                                     *)

\* A disturbance leaves the key running out or free for anybody who is up.
LEMMA GapStarts ==
    ASSUME TypeOK, LoopInv, gap = 0, Up # {}
    PROVE  Pending
<1>1. CASE holder # NoNode
  BY <1>1 DEF TypeOK, Pending
<1>2. CASE holder = NoNode
  <2>1. PICK n \in Up : n \in Node
    BY DEF Up
  <2> QED
    BY <1>2, <2>1, RemainingTimes DEF Pending, GapLimit, TypeOK
<1> QED
  BY <1>1, <1>2

\* Whoever takes the key, or will, leads within the limit.
LEMMA PendingBounded == ASSUME TypeOK, LoopInv, Pending PROVE gap <= GapLimit
<1>1. \A n \in Up : n \in Node
  BY DEF Up
<1> QED
  BY <1>1, RemainingTimes DEF Pending, GapLimit, TypeOK

\* A step of a node keeps the gap's end in sight.
LEMMA GapNodeStep ==
    ASSUME TypeOK, TypeOK', LoopInv, LoopInv', GapInv, NEW n \in Node, NodeStep(n)
    PROVE  GapInv'
<1>1. CASE gap' = 0
  BY <1>1 DEF GapInv
<1>2. CASE gap' # 0
  <2>1. /\ Spawn(n) \/ SendTick(n) \/ Serve(n) \/ ApplyReply(n)
        /\ gap' = gap /\ gap # 0
    BY <1>2 DEF NodeStep, TickError, Crash, Fault, StrayExecutes, Spawn, SendTick, Serve,
                ApplyReply, spans
  <2>2. CASE Leaders # {}
    <3>1. PICK k \in Leaders : pc[k] = "sleep" /\ timer[k] = 0 /\ gap <= GapLimit
      BY <2>1, <2>2 DEF GapInv
    <3>2. k \in Node /\ isLeader[k]
      BY DEF Leaders
    <3>3. pc'[k] = "sleep" /\ timer'[k] = 0 /\ isLeader'[k]
      BY <2>1, <3>1, <3>2 DEF Spawn, SendTick, Serve, ApplyReply, TypeOK
    <3> QED
      BY <2>1, <3>1, <3>2, <3>3 DEF GapInv, Leaders
  <2>3. CASE Leaders = {}
    <3>1. Pending
      BY <2>1, <2>3 DEF GapInv, Leaders
    <3>2. gap \in Nat /\ gap <= GapLimit
      BY <3>1, PendingBounded DEF TypeOK
    <3>3. CASE Spawn(n)
      <4>1. Leaders' = {}
        BY <2>3, <3>3 DEF Leaders, Spawn
      <4>2. \A k \in Up : k \in Up' /\ LeadIn(k)' = LeadIn(k)
        BY <3>3 DEF Up, LeadIn, Spawn, TypeOK
      <4>3. \A k \in Node : pc[k] = "replied" => k \in Up /\ pc'[k] = "replied"
        BY <3>3 DEF Up, Spawn, TypeOK
      <4>4. Pending'
        BY <2>1, <3>1, <3>3, <4>2, <4>3 DEF Pending, Spawn, redis
      <4> QED
        BY <4>1, <4>4 DEF GapInv
    <3>4. CASE SendTick(n)
      <4>1. Leaders' = {}
        BY <2>3, <3>4 DEF Leaders, SendTick
      <4>2. \A k \in Up : k \in Up' /\ LeadIn(k)' <= LeadIn(k)
        BY <3>4 DEF Up, LeadIn, SendTick, TypeOK, LoopInv, Deadline, Cycle
      <4>3. \A k \in Node : pc[k] = "replied" => k \in Up /\ pc'[k] = "replied"
        BY <3>4 DEF Up, SendTick, TypeOK
      <4>4. \A k \in Node : LeadIn(k) \in Int /\ LeadIn(k)' \in Int
        BY RemainingTimes DEF LeadIn, SendTick, TypeOK, Cycle
      <4>5. Pending'
        BY <2>1, <3>1, <3>2, <3>4, <4>2, <4>3, <4>4
        DEF Pending, SendTick, redis, GapLimit, Cycle, Up
      <4> QED
        BY <4>1, <4>5 DEF GapInv
    <3>5. CASE Serve(n)
      <4>1. Leaders' = {} /\ ~held[n] /\ pc[n] = "sent"
        BY <2>3, <3>5 DEF Leaders, Serve, LoopInv
      <4>2. PICK res \in BOOLEAN : SetNx(n, res) /\ ok' = [ok EXCEPT ![n] = res]
        BY <3>5, <4>1 DEF Serve, Execute
      <4>3. /\ pc' = [pc EXCEPT ![n] = "replied"] /\ timer' = [timer EXCEPT ![n] = 0]
            /\ pc'[n] = "replied" /\ timer'[n] = 0 /\ ok'[n] = res
        BY <3>5, <4>2 DEF Serve, TypeOK
      <4>4. \A k \in Node \ {n} : /\ pc'[k] = pc[k] /\ ok'[k] = ok[k]
                                  /\ LeadIn(k)' = LeadIn(k)
        BY <4>2, <4>3 DEF LeadIn, TypeOK
      <4>5. CASE \E k \in Node : pc[k] = "replied" /\ ok[k] /\ gap + LeadIn(k) <= GapLimit
        BY <2>1, <4>1, <4>4, <4>5 DEF GapInv, Pending, GapLimit, Cycle
      <4>6. CASE holder # NoNode /\ gap + ttlLeft <= TTL
        <5>1. UNCHANGED <<holder, ttlLeft>>
          BY <4>2, <4>6 DEF SetNx
        <5> QED
          BY <2>1, <4>1, <4>6, <5>1 DEF GapInv, Pending
      <4>7. ASSUME holder = NoNode, NEW k \in Up, gap + LeadIn(k) <= GapLimit,
                   ~(pc[k] = "replied" /\ ok[k])
            PROVE  GapInv'
        <5>1. res
          BY <4>2, <4>7 DEF SetNx
        <5>2. LeadIn(n)' = MaxReply
          BY <4>3, <5>1 DEF LeadIn
        <5>3. k \in Node /\ pc[k] \in Place \ {"down"} /\ LeadIn(k) \in Int
          BY RemainingTimes DEF Up, TypeOK
        <5>4. LeadIn(k) >= MaxReply
          BY <4>7, <5>3 DEF LeadIn, LoopInv, Deadline, TypeOK, Place, Cycle
        <5>5. gap + LeadIn(n)' <= GapLimit
          BY <3>2, <4>7, <5>2, <5>3, <5>4 DEF GapLimit, Cycle
        <5>6. Pending'
          BY <2>1, <4>3, <5>1, <5>5 DEF Pending, GapLimit, Cycle
        <5> QED
          BY <4>1, <5>6 DEF GapInv
      <4> QED
        BY <3>1, <4>5, <4>6, <4>7 DEF Pending, Up
    <3>6. CASE ApplyReply(n)
      <4>1. /\ pc[n] = "replied" /\ pc'[n] = "sleep" /\ timer'[n] = 0
            /\ isLeader'[n] = ok[n] /\ n \in Up /\ n \in Up'
        BY <3>6 DEF ApplyReply, TypeOK, Up
      <4>2. CASE ok[n]
        BY <2>1, <3>2, <4>1, <4>2 DEF GapInv, Leaders, GapLimit, Cycle
      <4>3. CASE ~ok[n]
        <5>1. Leaders' = {}
          BY <2>3, <3>6, <4>3 DEF ApplyReply, Leaders, TypeOK
        <5>2. LeadIn(n)' <= LeadIn(n)
          BY <4>1, <4>3 DEF LeadIn, LoopInv, Deadline, Cycle, TypeOK
        <5>3. \A k \in Node \ {n} : pc'[k] = pc[k] /\ ok'[k] = ok[k] /\ LeadIn(k)' = LeadIn(k)
          BY <3>6 DEF ApplyReply, LeadIn, TypeOK
        <5>4. LeadIn(n) \in Int /\ LeadIn(n)' \in Int
          BY <4>1, RemainingTimes DEF LeadIn, TypeOK, Cycle
        <5>5. UNCHANGED <<holder, ttlLeft>>
          BY <3>6 DEF ApplyReply, redis
        <5>6. ASSUME holder # NoNode, gap + ttlLeft <= TTL PROVE Pending'
          BY <2>1, <5>5, <5>6 DEF Pending
        <5>7. ASSUME holder = NoNode, NEW k \in Up, gap + LeadIn(k) <= GapLimit
              PROVE  Pending'
          <6>1. k \in Up' /\ LeadIn(k)' <= LeadIn(k) /\ LeadIn(k) \in Int /\ LeadIn(k)' \in Int
            BY <4>1, <5>2, <5>3, <5>4, RemainingTimes DEF Up
          <6>2. gap' + LeadIn(k)' <= GapLimit
            BY <2>1, <3>2, <5>7, <6>1 DEF GapLimit, Cycle
          <6> QED
            BY <5>5, <5>7, <6>1, <6>2 DEF Pending, GapLimit, Cycle
        <5>8. ASSUME NEW k \in Node, pc[k] = "replied", ok[k], gap + LeadIn(k) <= GapLimit
              PROVE  Pending'
          BY <2>1, <4>3, <5>3, <5>8 DEF Pending, GapLimit, Cycle
        <5> QED
          <6>1. Pending'
            BY <3>1, <5>6, <5>7, <5>8 DEF Pending
          <6> QED
            BY <5>1, <6>1 DEF GapInv
      <4> QED
        BY <4>2, <4>3
    <3> QED
      BY <2>1, <3>3, <3>4, <3>5, <3>6
  <2> QED
    BY <2>2, <2>3
<1> QED
  BY <1>1, <1>2

\* Time passing keeps the gap's end in sight: what the gap gains, the key or
\* the node that will take it loses.
LEMMA GapTick ==
    ASSUME TypeOK, TypeOK', LoopInv, LoopInv', GapInv, Tick
    PROVE  GapInv'
<1>1. CASE Leaders # {} \/ Up = {}
  BY <1>1 DEF Tick, GapInv
<1>2. CASE Leaders = {} /\ Up # {}
  <2>1. gap' = gap + 1 /\ gap \in Nat /\ Leaders' = {}
    BY <1>2 DEF Tick, TypeOK, Leaders
  <2>2. Pending
    BY <1>2, GapStarts DEF GapInv
  <2>3. CASE holder # NoNode /\ gap + ttlLeft <= TTL
    <3>1. ttlLeft >= 1 /\ ttlLeft \in Nat
      BY <2>3 DEF LoopInv, TypeOK
    <3>2. CASE ttlLeft > 1
      <4>1. holder' = holder /\ ttlLeft' = ttlLeft - 1
        BY <3>1, <3>2 DEF Tick
      <4> QED
        BY <2>1, <2>3, <3>1, <4>1 DEF GapInv, Pending
    <3>3. CASE ttlLeft = 1
      <4>1. holder' = NoNode
        BY <3>3 DEF Tick
      <4>2. PICK n \in Up : n \in Node
        BY <1>2 DEF Up
      <4>3. n \in Up' /\ LeadIn(n)' \in 0..(Cycle + MaxReply)
        BY <4>2, TimesShrink, RemainingTimes DEF Cycle
      <4>4. gap' + LeadIn(n)' <= GapLimit
        BY <2>1, <2>3, <3>3, <4>3 DEF GapLimit, Cycle
      <4> QED
        BY <2>1, <4>1, <4>3, <4>4 DEF GapInv, Pending, GapLimit, Cycle
    <3> QED
      BY <3>1, <3>2, <3>3
  <2>4. ASSUME NEW n \in Up, gap + LeadIn(n) <= GapLimit
        PROVE  n \in Up' /\ gap' + LeadIn(n)' <= GapLimit
    <3>1. n \in Up' /\ LeadIn(n)' = LeadIn(n) - 1 /\ LeadIn(n) \in Int
      BY TimesShrink, RemainingTimes
    <3> QED
      BY <2>1, <2>4, <3>1 DEF GapLimit, Cycle
  <2>5. CASE holder = NoNode /\ \E n \in Up : gap + LeadIn(n) <= GapLimit
    <3>1. holder' = NoNode
      BY <2>5 DEF Tick
    <3> QED
      BY <2>1, <2>4, <2>5, <3>1 DEF GapInv, Pending, GapLimit, Cycle
  <2>6. ASSUME NEW n \in Node, pc[n] = "replied", ok[n], gap + LeadIn(n) <= GapLimit
        PROVE  GapInv'
    <3>1. n \in Up /\ pc'[n] = "replied" /\ ok'[n]
      BY <2>6 DEF Up, Tick
    <3> QED
      BY <2>1, <2>4, <2>6, <3>1 DEF GapInv, Pending, GapLimit, Cycle
  <2> QED
    BY <2>2, <2>3, <2>5, <2>6 DEF Pending
<1> QED
  BY <1>1, <1>2

\* After the last disturbance some node leads again within the lifetime of the
\* key and one cycle of a standby, for any number of nodes and faults and
\* whatever the delays are: the bound needs neither the budget nor the key.
THEOREM FailoverBounded == Spec => []FailoverBound
<1>1. Init => GapInv
  BY DEF Init, GapInv
<1>2. TypeOK /\ TypeOK' /\ LoopInv /\ LoopInv' /\ GapInv /\ [Next]_vars => GapInv'
  <2> SUFFICES ASSUME TypeOK, TypeOK', LoopInv, LoopInv', GapInv, [Next]_vars PROVE GapInv'
    OBVIOUS
  <2>1. CASE LoseKey
    BY <2>1 DEF LoseKey, Fault, GapInv
  <2>2. CASE UNCHANGED vars
    BY <2>2 DEF vars, GapInv, Pending, Leaders, Up, LeadIn
  <2> QED
    BY <2>1, <2>2, GapNodeStep, GapTick DEF Next
<1>3. TypeOK /\ LoopInv /\ GapInv => FailoverBound
  BY PendingBounded DEF GapInv, FailoverBound, GapLimit, Cycle, TypeOK
<1> QED
  BY <1>1, <1>2, <1>3, TypeCorrect, LoopInvariant, PTL DEF Spec

-----------------------------------------------------------------------------
(* The overlap bound.                                                      *)

\* A step of a node leaves every claim backed or about to be refused: only a
\* positive answer creates a claim, and it comes with the key.
LEMMA OverlapNodeStep ==
    ASSUME LeaseBudget, TypeOK, TypeOK', LoopInv, LoopInv', OverlapInv,
           NEW n \in Node, NodeStep(n)
    PROVE  OverlapInv'
<1> USE DEF LeaseBudget
<1>1. CASE overlap' = 0
  <2>1. \A k \in Node : StaleFor(k)' \in 0..(Cycle + MaxReply) /\ Cycle \in Nat
    BY NextRemainingTimes
  <2> QED
    BY <1>1, <2>1 DEF OverlapInv, Cycle
<1>2. CASE overlap' # 0
  <2>1. /\ Spawn(n) \/ SendTick(n) \/ Serve(n) \/ ApplyReply(n)
        /\ overlap' = overlap /\ overlap \in Nat /\ overlap <= Cycle + MaxReply
    BY <1>2 DEF NodeStep, TickError, Crash, Fault, StrayExecutes, Spawn, SendTick, Serve,
                ApplyReply, spans, OverlapInv, TypeOK
  <2>2. SUFFICES ASSUME NEW k \in Node, Claims(k)'
                 PROVE  Backed(k)' \/ overlap + StaleFor(k)' <= Cycle + MaxReply
    BY <2>1 DEF OverlapInv, Cycle
  <2>3. CASE Spawn(n)
    <3>1. k # n
      BY <2>2, <2>3 DEF Spawn, Claims, LoopInv, TypeOK
    <3>2. Claims(k) /\ StaleFor(k)' = StaleFor(k) /\ (Backed(k)' <=> Backed(k))
      BY <2>2, <2>3, <3>1 DEF Spawn, Claims, StaleFor, Backed, Needed, TypeOK, redis
    <3> QED
      BY <3>2 DEF OverlapInv
  <2>4. CASE SendTick(n)
    <3>1. Claims(k)
      BY <2>2, <2>4 DEF SendTick, Claims, TypeOK
    <3>2. StaleFor(k)' <= StaleFor(k) /\ Needed(k)' <= Needed(k)
      BY <2>4 DEF SendTick, StaleFor, Needed, LoopInv, Deadline, Cycle, TypeOK
    <3>3. Backed(k) => Backed(k)'
      BY <2>4, <3>2, RemainingTimes DEF SendTick, Backed, TypeOK, redis, Needed
    <3>4. StaleFor(k) \in Int /\ StaleFor(k)' \in Int /\ Cycle \in Nat
      BY RemainingTimes, NextRemainingTimes
    <3> QED
      BY <2>1, <3>1, <3>2, <3>3, <3>4 DEF OverlapInv
  <2>5. CASE Serve(n)
    <3>1. PICK res \in BOOLEAN : Execute(n, held[n], res) /\ ok' = [ok EXCEPT ![n] = res]
      BY <2>5 DEF Serve
    <3>2. /\ res => holder' = n /\ ttlLeft' = TTL
          /\ holder # NoNode => holder' = holder /\ ttlLeft' >= ttlLeft
      BY <3>1, ExecuteEffect DEF TypeOK, LoopInv
    <3>3. /\ pc' = [pc EXCEPT ![n] = "replied"] /\ timer' = [timer EXCEPT ![n] = 0]
          /\ pc[n] = "sent" /\ isLeader' = isLeader
      BY <2>5 DEF Serve
    <3>4. CASE k = n
      <4>1. pc'[k] = "replied" /\ timer'[k] = 0 /\ ok'[k] = res
        BY <3>1, <3>3, <3>4 DEF TypeOK
      <4>2. CASE res
        BY <3>2, <3>4, <4>1, <4>2 DEF Backed, Needed
      <4>3. CASE ~res
        <5>1. Claims(k) /\ held[k]
          BY <2>2, <3>3, <3>4, <4>1, <4>3 DEF Claims, LoopInv
        <5>2. holder # k
          BY <3>1, <3>4, <4>3, <5>1, ExecuteEffect DEF LoopInv
        <5>3. overlap + StaleFor(k) <= Cycle + MaxReply
          BY <5>1, <5>2 DEF OverlapInv, Backed
        <5>4. StaleFor(k)' <= StaleFor(k)
          BY <3>3, <3>4, <4>1, <4>3 DEF StaleFor, LoopInv, Deadline, TypeOK
        <5> QED
          BY <2>1, <5>3, <5>4, RemainingTimes, NextRemainingTimes
      <4> QED
        BY <4>2, <4>3
    <3>5. CASE k # n
      <4>1. pc'[k] = pc[k] /\ timer'[k] = timer[k] /\ ok'[k] = ok[k]
        BY <3>1, <3>3, <3>5 DEF TypeOK
      <4>2. Claims(k) /\ StaleFor(k)' = StaleFor(k) /\ Needed(k)' = Needed(k)
        BY <2>2, <3>3, <4>1 DEF Claims, StaleFor, Needed
      <4>3. Needed(k) \in Int /\ ttlLeft \in Int /\ ttlLeft' \in Int
        BY DEF Needed, TypeOK
      <4>4. Backed(k) => Backed(k)'
        BY <3>2, <4>1, <4>2, <4>3 DEF Backed
      <4> QED
        BY <4>2, <4>4 DEF OverlapInv
    <3> QED
      BY <3>4, <3>5
  <2>6. CASE ApplyReply(n)
    <3>1. CASE k = n
      <4>1. /\ pc[k] = "replied" /\ ok[k] /\ pc'[k] = "sleep" /\ timer'[k] = 0
            /\ UNCHANGED <<holder, ttlLeft>>
        BY <2>2, <2>6, <3>1 DEF ApplyReply, Claims, TypeOK, redis
      <4>2. Claims(k)
        BY <4>1 DEF Claims
      <4>3. StaleFor(k)' <= StaleFor(k) /\ Needed(k)' <= Needed(k)
        BY <4>1 DEF StaleFor, Needed, LoopInv, Deadline, Cycle, TypeOK
      <4>4. /\ StaleFor(k) \in Int /\ StaleFor(k)' \in Int /\ Cycle \in Nat
            /\ Needed(k) \in Int /\ Needed(k)' \in Int
        BY RemainingTimes, NextRemainingTimes DEF Needed, TypeOK
      <4>5. Backed(k) => Backed(k)'
        BY <4>1, <4>3, <4>4 DEF Backed, TypeOK
      <4> QED
        BY <2>1, <4>2, <4>3, <4>4, <4>5 DEF OverlapInv
    <3>2. CASE k # n
      <4>1. Claims(k) /\ StaleFor(k)' = StaleFor(k) /\ (Backed(k)' <=> Backed(k))
        BY <2>2, <2>6, <3>2 DEF ApplyReply, Claims, StaleFor, Backed, Needed, TypeOK, redis
      <4> QED
        BY <4>1 DEF OverlapInv
    <3> QED
      BY <3>1, <3>2
  <2> QED
    BY <2>1, <2>3, <2>4, <2>5, <2>6
<1> QED
  BY <1>1, <1>2

\* Time passing: of two leaders one has no key, and what the overlap gains it
\* loses until its refusal.
LEMMA OverlapTick ==
    ASSUME TypeOK, TypeOK', LoopInv, LoopInv', OverlapInv, Tick
    PROVE  OverlapInv'
<1>1. ASSUME NEW k \in Node, Claims(k) PROVE k \in Up
  BY <1>1 DEF Claims, LoopInv, Up
<1>2. overlap' <= Cycle + MaxReply
  <2>1. CASE ~\E m, n \in Leaders : m # n
    BY <2>1 DEF Tick, Cycle
  <2>2. CASE \E m, n \in Leaders : m # n
    <3>1. PICK k \in Leaders : holder # k
      BY <2>2
    <3>2. k \in Node /\ Claims(k)
      BY DEF Leaders, Claims
    <3>3. overlap + StaleFor(k) <= Cycle + MaxReply
      BY <3>1, <3>2 DEF OverlapInv, Backed
    <3>4. StaleFor(k) >= 1 /\ StaleFor(k) \in Int /\ Cycle \in Nat
      BY <1>1, <3>2, TimesShrink, RemainingTimes
    <3> QED
      BY <2>2, <3>3, <3>4 DEF Tick, TypeOK
  <2> QED
    BY <2>1, <2>2
<1>3. ASSUME NEW k \in Node, Claims(k)'
      PROVE  Backed(k)' \/ overlap' + StaleFor(k)' <= Cycle + MaxReply
  <2>1. Claims(k)
    BY <1>3 DEF Claims, Tick
  <2>2. /\ StaleFor(k)' = StaleFor(k) - 1 /\ Needed(k)' = Needed(k) - 1 /\ Needed(k) >= 1
        /\ StaleFor(k) \in Int /\ Needed(k) \in Int /\ Cycle \in Nat /\ StaleFor(k) >= 1
        /\ StaleFor(k) <= Cycle + MaxReply
    BY <1>1, <2>1, TimesShrink, RemainingTimes DEF Up
  <2>3. CASE Backed(k)
    <3>1. holder' = holder /\ ttlLeft' = ttlLeft - 1
      BY <2>2, <2>3 DEF Backed, Tick, TypeOK
    <3> QED
      BY <2>2, <2>3, <3>1 DEF Backed, Tick, TypeOK
  <2>4. CASE overlap + StaleFor(k) <= Cycle + MaxReply
    BY <2>2, <2>4 DEF Tick, TypeOK
  <2> QED
    BY <2>1, <2>3, <2>4 DEF OverlapInv
<1> QED
  BY <1>2, <1>3 DEF OverlapInv

\* Two leaders coexist no longer than one cycle of the stale one and the answer
\* it was waiting for, for any number of nodes and faults, when the delays fit
\* the budget - also after Redis has lost the key.
THEOREM OverlapBounded == ASSUME LeaseBudget PROVE Spec => []OverlapBound
<1>1. Init => OverlapInv
  BY DEF Init, OverlapInv, Claims, Cycle
<1>2. TypeOK /\ TypeOK' /\ LoopInv /\ LoopInv' /\ OverlapInv /\ [Next]_vars => OverlapInv'
  <2> SUFFICES ASSUME TypeOK, TypeOK', LoopInv, LoopInv', OverlapInv, [Next]_vars
               PROVE  OverlapInv'
    OBVIOUS
  <2>1. CASE LoseKey
    <3>1. \A k \in Node : StaleFor(k)' \in 0..(Cycle + MaxReply) /\ Cycle \in Nat
      BY NextRemainingTimes
    <3> QED
      BY <2>1, <3>1 DEF LoseKey, Fault, OverlapInv, Cycle
  <2>2. CASE UNCHANGED vars
    BY <2>2 DEF vars, OverlapInv, Claims, Backed, StaleFor, Needed
  <2> QED
    BY <2>1, <2>2, OverlapNodeStep, OverlapTick DEF Next
<1>3. OverlapInv => OverlapBound
  BY DEF OverlapInv, OverlapBound, Cycle
<1> QED
  BY <1>1, <1>2, <1>3, TypeCorrect, LoopInvariant, PTL DEF Spec
=============================================================================
