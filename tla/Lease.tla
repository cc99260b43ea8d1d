------------------------------- MODULE Lease -------------------------------
(***************************************************************************)
(* The Redis writer lease of crates/oi-replication/src/failover.rs.        *)
(*                                                                         *)
(* Every collector runs run_loop: read the flag, send one command to Redis *)
(* (REFRESH_IF_OWNED if it believes it leads, SET NX PX otherwise), store  *)
(* the answer in the flag, sleep refresh_interval.  The command is split   *)
(* into the moment it is sent, the moment Redis executes it and the moment *)
(* the answer is applied, with discrete time passing in between.  Time is  *)
(* kept as ages and remaining lifetimes, so the state space is finite      *)
(* without a horizon.                                                      *)
(***************************************************************************)
EXTENDS Integers

CONSTANTS
    Node,             \* collectors sharing the lease key
    NoNode,           \* "the key does not exist"
    TTL,              \* LeaseConfig::ttl
    RefreshInterval,  \* LeaseConfig::refresh_interval
    MaxSlack,         \* longest oversleep of tokio::time::sleep
    MaxRequest,       \* longest time from sending until Redis executes or the client errs
    MaxReply,         \* longest time from execution until the answer is applied
    MaxFaults         \* bound on errors, crashes and key losses

ASSUME LeaseAssumption ==
    /\ NoNode \notin Node
    /\ TTL \in Nat \ {0}
    /\ RefreshInterval \in Nat \ {0}
    /\ MaxSlack \in Nat /\ MaxRequest \in Nat /\ MaxReply \in Nat
    /\ MaxFaults \in Nat

VARIABLES
    isLeader,  \* [Node -> BOOLEAN]: the AtomicBool behind is_leader()
    pc,        \* where run_loop of each node stands
    held,      \* the local `held` read before tick()
    ok,        \* the answer travelling back to the node
    timer,     \* time spent at the current pc
    holder,    \* value of the lease key in Redis
    ttlLeft,   \* remaining PX lifetime of the key, 0 when it does not exist
    intact,    \* has Redis never lost the key? (history)
    stray,     \* commands whose client gave up on them but Redis may still run
    faults,    \* faults so far
    gap,       \* time for which nobody led although a node was up (history)
    overlap    \* time for which two nodes led together (history)

vars == <<isLeader, pc, held, ok, timer, holder, ttlLeft, intact, stray, faults,
          gap, overlap>>
redis == <<holder, ttlLeft, intact>>
spans == <<gap, overlap>>

Place == {"down", "sleep", "sent", "replied"}

\* The longest time run_loop stays at a place.
Deadline(p) == CASE p = "sent"    -> MaxRequest
                 [] p = "replied" -> MaxReply
                 [] OTHER         -> RefreshInterval + MaxSlack

\* The lifetime a key needs when a refresh has just been executed, for the
\* next refresh to find it alive: "refresh_interval ... must be < ttl", with
\* the delays that the doc comment leaves out.
LeaseBudget == MaxReply + RefreshInterval + MaxSlack + MaxRequest < TTL

Leaders == {n \in Node : isLeader[n]}
Up == {n \in Node : pc[n] # "down"}

Init ==
    /\ isLeader = [n \in Node |-> FALSE]
    /\ pc = [n \in Node |-> "down"]
    /\ held = [n \in Node |-> FALSE]
    /\ ok = [n \in Node |-> FALSE]
    /\ timer = [n \in Node |-> 0]
    /\ holder = NoNode
    /\ ttlLeft = 0
    /\ intact = TRUE
    /\ stray = {}
    /\ faults = 0
    /\ gap = 0
    /\ overlap = 0

-----------------------------------------------------------------------------
(* Redis: the two commands, executed atomically.                           *)

RefreshWithoutExpire(n, res) ==
    /\ res = (holder = n)
    /\ UNCHANGED <<holder, ttlLeft>>

\* The Lua script: extend the lifetime only of our own key.
RefreshIfOwned(n, res) ==
    /\ res = (holder = n)
    /\ holder' = holder
    /\ ttlLeft' = IF res THEN TTL ELSE ttlLeft

SetWithoutNx(n, res) ==
    /\ res = TRUE
    /\ holder' = n
    /\ ttlLeft' = TTL

SetNxInSeconds(n, res) ==
    /\ res = (holder = NoNode)
    /\ holder' = IF res THEN n ELSE holder
    /\ ttlLeft' = IF res THEN 10 * TTL ELSE ttlLeft

\* SET key node NX PX ttl: create the key only if it does not exist.
SetNx(n, res) ==
    /\ res = (holder = NoNode)
    /\ holder' = IF res THEN n ELSE holder
    /\ ttlLeft' = IF res THEN TTL ELSE ttlLeft

ExecuteNeverRefreshes(n, refresh, res) == SetNx(n, res)

Execute(n, refresh, res) ==
    IF refresh THEN RefreshIfOwned(n, res) ELSE SetNx(n, res)

-----------------------------------------------------------------------------
(* The node.                                                               *)

\* spawn_lease: the flag starts false and the first tick is immediate.
Spawn(n) ==
    /\ pc[n] = "down"
    /\ pc' = [pc EXCEPT ![n] = "sleep"]
    /\ timer' = [timer EXCEPT ![n] = RefreshInterval]
    /\ UNCHANGED <<isLeader, held, ok, redis, stray, faults, spans>>

\* The sleep is over: read the flag, choose the command, send it.
SendTick(n) ==
    /\ pc[n] = "sleep"
    /\ timer[n] >= RefreshInterval
    /\ held' = [held EXCEPT ![n] = isLeader[n]]
    /\ pc' = [pc EXCEPT ![n] = "sent"]
    /\ timer' = [timer EXCEPT ![n] = 0]
    /\ UNCHANGED <<isLeader, ok, redis, stray, faults, spans>>

\* Redis executes the command of n; the answer starts its way back.
Serve(n) ==
    /\ pc[n] = "sent"
    /\ \E res \in BOOLEAN :
         /\ Execute(n, held[n], res)
         /\ ok' = [ok EXCEPT ![n] = res]
    /\ pc' = [pc EXCEPT ![n] = "replied"]
    /\ timer' = [timer EXCEPT ![n] = 0]
    /\ UNCHANGED <<isLeader, held, intact, stray, faults, spans>>

ApplyReplyPromotionsOnly(n) ==
    /\ pc[n] = "replied"
    /\ isLeader' = [isLeader EXCEPT ![n] = held[n] \/ ok[n]]
    /\ pc' = [pc EXCEPT ![n] = "sleep"]
    /\ timer' = [timer EXCEPT ![n] = 0]
    /\ UNCHANGED <<held, ok, redis, stray, faults, spans>>

\* Ok(new_state): store it, then sleep.
ApplyReply(n) ==
    /\ pc[n] = "replied"
    /\ isLeader' = [isLeader EXCEPT ![n] = ok[n]]
    /\ pc' = [pc EXCEPT ![n] = "sleep"]
    /\ timer' = [timer EXCEPT ![n] = 0]
    /\ UNCHANGED <<held, ok, redis, stray, faults, spans>>

-----------------------------------------------------------------------------
(* Faults.  Each one restarts the measured time spans.                     *)

Fault == faults < MaxFaults /\ faults' = faults + 1 /\ gap' = 0 /\ overlap' = 0

\* A command its client no longer waits for is lost, or runs later.
Abandon(n) ==
    \/ stray' = stray
    \/ pc[n] = "sent" /\ stray' = stray \union {<<n, held[n]>>}

TickErrorKeepsFlag(n) ==
    /\ pc[n] \in {"sent", "replied"}
    /\ Fault
    /\ Abandon(n)
    /\ pc' = [pc EXCEPT ![n] = "sleep"]
    /\ timer' = [timer EXCEPT ![n] = 0]
    /\ UNCHANGED <<isLeader, held, ok, redis>>

\* Err(e) from tick, before or after Redis executed the command: demote, sleep.
TickError(n) ==
    /\ pc[n] \in {"sent", "replied"}
    /\ Fault
    /\ Abandon(n)
    /\ isLeader' = [isLeader EXCEPT ![n] = FALSE]
    /\ pc' = [pc EXCEPT ![n] = "sleep"]
    /\ timer' = [timer EXCEPT ![n] = 0]
    /\ UNCHANGED <<held, ok, redis>>

\* The process dies; a configured node_id is reused by its next incarnation.
Crash(n) ==
    /\ pc[n] # "down"
    /\ Fault
    /\ Abandon(n)
    /\ isLeader' = [isLeader EXCEPT ![n] = FALSE]
    /\ pc' = [pc EXCEPT ![n] = "down"]
    /\ timer' = [timer EXCEPT ![n] = 0]
    /\ UNCHANGED <<held, ok, redis>>

\* Redis executes a command whose client has given up: nobody sees the answer.
StrayExecutes(n, refresh) ==
    /\ <<n, refresh>> \in stray
    /\ \E res \in BOOLEAN : Execute(n, refresh, res)
    /\ stray' = stray \ {<<n, refresh>>}
    /\ gap' = 0
    /\ overlap' = 0
    /\ UNCHANGED <<isLeader, pc, held, ok, timer, intact, faults>>

\* Redis restarts without the key, or a replica without it is promoted.
LoseKey ==
    /\ holder # NoNode
    /\ Fault
    /\ holder' = NoNode
    /\ ttlLeft' = 0
    /\ intact' = FALSE
    /\ UNCHANGED <<isLeader, pc, held, ok, timer, stray>>

-----------------------------------------------------------------------------
(* Time: one unit passes, as long as nobody is at its deadline.            *)

Tick ==
    /\ \A n \in Up : timer[n] < Deadline(pc[n])
    /\ timer' = [n \in Node |-> IF n \in Up THEN timer[n] + 1 ELSE timer[n]]
    /\ ttlLeft' = IF ttlLeft = 0 THEN 0 ELSE ttlLeft - 1
    /\ holder' = IF ttlLeft <= 1 THEN NoNode ELSE holder
    /\ gap' = IF Leaders = {} /\ Up # {} THEN gap + 1 ELSE 0
    /\ overlap' = IF \E m, n \in Leaders : m # n THEN overlap + 1 ELSE 0
    /\ UNCHANGED <<isLeader, pc, held, ok, intact, stray, faults>>

NodeStep(n) ==
    \/ Spawn(n) \/ SendTick(n) \/ Serve(n) \/ ApplyReply(n)
    \/ TickError(n) \/ Crash(n)
    \/ \E refresh \in BOOLEAN : StrayExecutes(n, refresh)

Next == (\E n \in Node : NodeStep(n)) \/ LoseKey \/ Tick

Spec == Init /\ [][Next]_vars

\* The runtime keeps polling run_loop, Redis keeps answering, the container
\* is restarted (restart: unless-stopped) and time passes.
Fairness ==
    /\ WF_vars(Tick)
    /\ \A n \in Node : /\ WF_vars(Spawn(n))
                       /\ WF_vars(SendTick(n))
                       /\ WF_vars(Serve(n))
                       /\ WF_vars(ApplyReply(n))

FairSpec == Spec /\ Fairness

-----------------------------------------------------------------------------
(* Properties.                                                             *)

\* Types of the flag, the loop's locals, the key and the faults.
TypeOK ==
    /\ isLeader \in [Node -> BOOLEAN]
    /\ pc \in [Node -> Place]
    /\ held \in [Node -> BOOLEAN]
    /\ ok \in [Node -> BOOLEAN]
    /\ timer \in [Node -> Nat]
    /\ holder \in Node \union {NoNode}
    /\ ttlLeft \in 0..TTL
    /\ intact \in BOOLEAN
    /\ stray \subseteq Node \X BOOLEAN
    /\ faults \in 0..MaxFaults
    /\ gap \in Nat
    /\ overlap \in Nat

\* is_leader() is true on at most one collector at any time (failover.rs:3),
\* through lost answers, errors, crashes and stray commands, for as long as
\* Redis keeps the key and the delays fit the lease budget.
AtMostOneLeader ==
    intact => \A m, n \in Node : isLeader[m] /\ isLeader[n] => m = n

\* After the last disturbance some node leads again within the remaining
\* lifetime of the key plus one full cycle of a standby's run_loop.
FailoverBound ==
    gap <= TTL + RefreshInterval + MaxSlack + MaxRequest + 2 * MaxReply

\* Should the lease be lost behind a leader's back (the key vanishes, an
\* answer is late), two leaders coexist no longer than one cycle of the
\* stale one's run_loop and the answer it was waiting for.
OverlapBound == overlap <= RefreshInterval + MaxSlack + MaxRequest + 2 * MaxReply

\* Once faults stop, one collector becomes leader and stays it: lost answers
\* (a key owned by a node that thinks it follows) do not wedge the lease.
EventuallyStableLeader == <>[](\E n \in Node : isLeader[n])

\* The lifetime the key of n must still have for the loop of n, at its
\* place, to refresh it in time.
Needed(n) ==
    CASE pc[n] = "sleep"   -> RefreshInterval + MaxSlack - timer[n] + MaxRequest
      [] pc[n] = "sent"    -> MaxRequest - timer[n]
      [] pc[n] = "replied" -> MaxReply - timer[n] + RefreshInterval + MaxSlack + MaxRequest
      [] OTHER             -> 0

\* n leads, or is about to because a positive answer is on its way.
Claims(n) == isLeader[n] \/ (pc[n] = "replied" /\ ok[n])

\* A claim is backed by a key that outlives the time until its next
\* refresh, and a leader's refresh is never refused.
NodeInv(n) ==
    /\ pc[n] # "down" => timer[n] <= Deadline(pc[n])
    /\ pc[n] = "down" => ~isLeader[n]
    /\ pc[n] \in {"sent", "replied"} => held[n] = isLeader[n]
    /\ isLeader[n] /\ pc[n] = "replied" => ok[n]
    /\ Claims(n) => holder = n /\ ttlLeft > Needed(n)

\* While Redis has kept the key, every claim is backed.
KeptInv ==
    /\ holder = NoNode <=> ttlLeft = 0
    /\ \A n \in Node : NodeInv(n)

\* The inductive core of AtMostOneLeader: until Redis loses the key, run_loop
\* has at every place time left to refresh the key that backs its flag.
LeaseInv == intact => KeptInv

\* The lease implements the abstract leader election until the key is lost;
\* from then on the election stands still and OverlapBound takes over.
Election == INSTANCE LeaderElection WITH leaders <- IF intact THEN Leaders ELSE {}
ElectionSpec == Election!AbstractSpec
=============================================================================
