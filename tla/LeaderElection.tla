--------------------------- MODULE LeaderElection ---------------------------
(***************************************************************************)
(* What the writer lease promises to the rest of the collector: a set of   *)
(* nodes whose is_leader() returns true, which gains a node only while it  *)
(* is empty.  Nothing is said about time, Redis or messages.               *)
(***************************************************************************)
CONSTANT Node

VARIABLE leaders        \* nodes n with LeaseManager::is_leader() true

AbstractInit == leaders = {}

\* A standby becomes the writer; there is none at that moment.
Promote(n) == leaders = {} /\ leaders' = {n}

\* The writer steps down, crashes, or is told that it lost the lease.
Demote(n) == leaders = {n} /\ leaders' = {}

AbstractNext == \E n \in Node : Promote(n) \/ Demote(n)

AbstractSpec == AbstractInit /\ [][AbstractNext]_leaders
=============================================================================
