--------------------------- MODULE FundingProofs ---------------------------
(***************************************************************************)
(* TLAPS proofs about the settlement events: type correctness, that        *)
(* neither producer ever stores a settlement that has not taken place, and *)
(* that one fault makes no settlement more than a sweep cycle late.  They  *)
(* hold for every number of nodes and for the venues whose adapter passes  *)
(* on the settlement that is next (all but OKX); the last one for the      *)
(* intervals of SweepBudget.                                               *)
(***************************************************************************)
EXTENDS Funding, WellFoundedInduction, TLAPS

USE FundingAssumption DEF NoTime

\* What a node holds between a fetch and its write has settled, and its
\* cursor is a settlement time no later than the next one.  The second part
\* is why a roll-over of the announcement proves the old boundary settled.
HeldInv ==
    \A n \in Node :
        /\ event[n] # NoTime => event[n] \in Settled
        /\ batch[n] \subseteq Settled
        /\ cursor[n] # NoTime => cursor[n] % Interval = 0 /\ cursor[n] <= NextFunding

FundingInv == TypeOK /\ venue # "okx" /\ OnlySettledStored /\ HeldInv

-----------------------------------------------------------------------------
(* The venue's clock.                                                      *)

\* The announced settlement is a later multiple of the interval, and the only
\* one within an interval: an earlier settlement time has passed.
LEMMA NextFundingIsNext ==
    ASSUME TypeOK
    PROVE  /\ NextFunding \in Nat /\ NextFunding > now /\ NextFunding % Interval = 0
           /\ \A c \in Nat : c % Interval = 0 /\ c < NextFunding => c <= now
<1> DEFINE k == now \div Interval
<1>1. now \in Nat /\ Interval \in Nat /\ Interval > 0
  BY DEF TypeOK
<1>2. k \in Nat /\ k * Interval <= now /\ now < k * Interval + Interval
  BY <1>1
<1>3. NextFunding = k * Interval + Interval
  BY <1>1, <1>2 DEF NextFunding
<1>4. NextFunding % Interval = 0
  BY <1>1, <1>2 DEF NextFunding
<1>5. ASSUME NEW c \in Nat, c % Interval = 0, c < NextFunding PROVE c <= now
  <2>1. PICK j \in Nat : c = j * Interval
    BY <1>1, <1>5
  <2>2. j < k + 1
    BY <1>1, <1>2, <1>3, <1>5, <2>1
  <2>3. j * Interval <= k * Interval
    BY <1>1, <1>2, <2>2
  <2> QED
    BY <1>2, <2>1, <2>3, <1>1
<1> HIDE DEF k
<1> QED
  BY <1>1, <1>2, <1>3, <1>4, <1>5

\* Time passing never takes a settlement back.
LEMMA ClockAdvances ==
    ASSUME TypeOK, now' = now + 1
    PROVE  Settled \subseteq Settled' /\ NextFunding <= NextFunding'
<1>1. Settled \subseteq Settled'
  BY DEF TypeOK, Settled, Settlement
<1>2. now \in Nat /\ Interval \in Nat /\ Interval > 0
  BY DEF TypeOK
<1>3. now \div Interval \in Nat /\ (now + 1) \div Interval \in Nat
      /\ now \div Interval <= (now + 1) \div Interval
  BY <1>2
<1> QED
  BY <1>1, <1>2, <1>3 DEF NextFunding

-----------------------------------------------------------------------------
(* The adapters.                                                           *)

\* Whatever the venue, a history holds only settlement times of its rows.
LEMMA HistoryFromRows ==
    ASSUME NEW v \in Exchange, NEW rows, NEW s
    PROVE  History(v, rows, s) \subseteq {r.ts : r \in rows}
BY DEF Exchange, History, BinanceHistory, BybitHistory, OkxHistory, BitgetHistory,
       HyperliquidHistory, BingxHistory, KucoinHistory, MexcHistory, AsterHistory,
       From, After

\* Whatever the venue, OKX apart, a ticker announces its own next settlement
\* or none.
LEMMA AnnouncesNextOrNone ==
    ASSUME NEW v \in Exchange \ {"okx"}, NEW r
    PROVE  FetchFunding(v, r).next \in {NoTime, r.next}
BY DEF Exchange, FetchFunding, BinanceFunding, BybitFunding, BitgetFunding,
       HyperliquidFunding, BingxFunding, KucoinFunding, MexcFunding, AsterFunding,
       Bar, NoBar

\* The settlement times of an answer, complete or with one odd row, have
\* taken place.
LEMMA HistorySettled ==
    ASSUME NEW v \in Exchange, NEW s
    PROVE  /\ History(v, GoodHistory, s) \subseteq Settled
           /\ \A t \in Settled : \A r \in OddRow(t) :
                  History(v, (GoodHistory \ {GoodRow(t)}) \union {r}, s) \subseteq Settled
<1>1. \A r \in GoodHistory : r.ts \in Settled
  BY DEF GoodHistory, GoodRow
<1>2. \A t \in Settled : \A r \in OddRow(t) : r.ts \in Settled
  BY DEF OddRow
<1>3. History(v, GoodHistory, s) \subseteq Settled
  BY <1>1, HistoryFromRows
<1>4. ASSUME NEW t \in Settled, NEW r \in OddRow(t)
      PROVE  History(v, (GoodHistory \ {GoodRow(t)}) \union {r}, s) \subseteq Settled
  <2>1. \A q \in (GoodHistory \ {GoodRow(t)}) \union {r} : q.ts \in Settled
    BY <1>1, <1>2
  <2> QED
    BY <2>1, HistoryFromRows
<1> QED
  BY <1>3, <1>4

-----------------------------------------------------------------------------
(* The polls.                                                              *)

\* An announcement keeps the cursor a settlement time, and the event derived
\* from a roll-over has settled.
LEMMA PolledEffect ==
    ASSUME FundingInv, NEW n \in Node, NEW bar, bar.next \in {NoTime, NextFunding},
           Polled(n, bar), event[n] = NoTime
    PROVE  /\ cursor' \in [Node -> Nat] /\ event' \in [Node -> Nat]
           /\ \A m \in Node :
                 /\ event'[m] # NoTime => event'[m] \in Settled
                 /\ cursor'[m] # NoTime =>
                        cursor'[m] % Interval = 0 /\ cursor'[m] <= NextFunding
<1>1. CASE bar.next = NoTime
  BY <1>1 DEF Polled, FundingInv, TypeOK, HeldInv
<1>2. CASE bar.next # NoTime
  <2>1. bar.next = NextFunding
    BY <1>2
  <2>2. /\ NextFunding \in Nat /\ NextFunding > now /\ NextFunding % Interval = 0
        /\ \A c \in Nat : c % Interval = 0 /\ c < NextFunding => c <= now
    BY NextFundingIsNext DEF FundingInv
  <2> DEFINE e == Derive(cursor[n], NextFunding)
  <2>3. event' = [event EXCEPT ![n] = e] /\ cursor' = [cursor EXCEPT ![n] = NextFunding]
    BY <1>2, <2>1 DEF Polled
  <2>4. e \in Nat /\ (e # NoTime => e \in Settled)
    <3>1. cursor[n] \in Nat /\ now \in 1..MaxTime
      BY DEF FundingInv, TypeOK
    <3>2. CASE cursor[n] # NoTime /\ NextFunding > cursor[n]
      <4>1. cursor[n] % Interval = 0 /\ cursor[n] <= now
        BY <3>1, <3>2, <2>2 DEF FundingInv, HeldInv
      <4> QED
        BY <3>1, <3>2, <4>1 DEF Derive, Settled, Settlement
    <3>3. CASE ~(cursor[n] # NoTime /\ NextFunding > cursor[n])
      BY <3>3 DEF Derive
    <3> QED
      BY <3>2, <3>3
  <2> HIDE DEF e
  <2> QED
    BY <2>2, <2>3, <2>4 DEF FundingInv, TypeOK, HeldInv
<1> QED
  BY <1>1, <1>2

\* Every ticker, complete or odd, announces the next settlement or none.
LEMMA PollFetchPolls ==
    ASSUME FundingInv, NEW n \in Node, PollFetch(n)
    PROVE  \E bar : bar.next \in {NoTime, NextFunding} /\ Polled(n, bar)
<1>1. venue \in Exchange \ {"okx"}
  BY DEF FundingInv, TypeOK
<1>2. CASE Polled(n, FetchFunding(venue, GoodTicker))
  BY <1>1, <1>2, AnnouncesNextOrNone DEF GoodTicker
<1>3. ASSUME NEW r \in OddTicker, Polled(n, FetchFunding(venue, r))
      PROVE  \E bar : bar.next \in {NoTime, NextFunding} /\ Polled(n, bar)
  <2>1. r.next \in {NoTime, NextFunding}
    BY DEF OddTicker
  <2>2. FetchFunding(venue, r).next \in {NoTime, NextFunding}
    BY <1>1, <2>1, AnnouncesNextOrNone
  <2> QED
    BY <1>3, <2>2
<1> QED
  BY <1>2, <1>3 DEF PollFetch

-----------------------------------------------------------------------------
(* The inductive step.                                                     *)

\* Node n goes to sleep, and only node n, until some slot from one to another.
SleepsUntil(n, from, to) ==
    /\ spc' = [spc EXCEPT ![n] = "sleep"]
    /\ \E w \in from..to : wake' = [wake EXCEPT ![n] = w]

\* A sleep starts now, or when the sweep that is under way ends.
LEMMA SleepEffect ==
    ASSUME TypeOK, NEW n \in Node, NEW slots \in Nat
    PROVE  /\ Sleep(n, slots) => SleepsUntil(n, now, now + slots)
           /\ SleepAfterSweep(n, slots) => SleepsUntil(n, now, wake[n] + slots)
<1>0. now \in Nat /\ wake[n] \in Nat /\ now <= wake[n]
  BY DEF TypeOK
<1>1. ASSUME Sleep(n, slots) PROVE SleepsUntil(n, now, now + slots)
  <2>1. now + slots \in now..(now + slots)
    BY <1>0
  <2> QED
    BY <1>1, <2>1 DEF Sleep, SleepsUntil
<1>2. ASSUME SleepAfterSweep(n, slots) PROVE SleepsUntil(n, now, wake[n] + slots)
  <2>1. PICK rest \in 0..(wake[n] - now) : Sleep(n, rest + slots)
    BY <1>2 DEF SleepAfterSweep
  <2>2. now + (rest + slots) \in now..(wake[n] + slots)
    BY <1>0
  <2> QED
    BY <2>1, <2>2 DEF Sleep, SleepsUntil
<1> QED
  BY <1>1, <1>2

\* A bounded, nonempty set of naturals has a greatest element.
LEMMA Greatest ==
    ASSUME NEW S, S \subseteq 0..MaxTime, S # {}
    PROVE  \E s \in S : \A t \in S : t <= s
<1> DEFINE T == {MaxTime - s : s \in S}
<1>0. \A s \in S : s \in Nat /\ MaxTime - s \in Nat
  OBVIOUS
<1>1. T \subseteq Nat /\ T # {}
  BY <1>0
<1>2. PICK x \in T : \A y \in T : ~(<<y, x>> \in OpToRel(<, Nat))
  BY <1>1, WFMin, NatLessThanWellFounded, Zenon
<1>3. \A y \in T : ~(y < x)
  BY <1>1, <1>2 DEF OpToRel
<1>4. PICK s \in S : x = MaxTime - s
  BY <1>2
<1>5. ASSUME NEW t \in S PROVE t <= s
  <2>1. MaxTime - t \in T
    OBVIOUS
  <2>2. ~(MaxTime - t < MaxTime - s)
    BY <1>3, <1>4, <2>1
  <2> QED
    BY <2>2
<1> QED
  BY <1>5

\* The sweep's lookup finds a settlement time or none.
LEMMA LatestType == ASSUME FundingInv PROVE Latest \in Nat
<1>1. CASE stored = {}
  BY <1>1 DEF Latest
<1>2. CASE stored # {}
  <2>1. stored \subseteq 0..MaxTime
    BY DEF FundingInv, OnlySettledStored, Settled, Settlement
  <2>2. \E s \in stored : \A t \in stored : t <= s
    BY <1>2, <2>1, Greatest
  <2>3. (CHOOSE s \in stored : \A t \in stored : t <= s) \in stored
    BY <2>2
  <2>4. Latest \in stored
    BY <1>2, <2>3 DEF Latest
  <2> QED
    BY <2>1, <2>4
<1> QED
  BY <1>1, <1>2

\* What a poll holds, as HeldInv has it.
PollInv ==
    /\ cursor \in [Node -> Nat] /\ event \in [Node -> Nat]
    /\ polled \in [Node -> BOOLEAN]
    /\ \A n \in Node :
          /\ event[n] # NoTime => event[n] \in Settled
          /\ cursor[n] # NoTime => cursor[n] % Interval = 0 /\ cursor[n] <= NextFunding

\* Where a sweep stands.
SweepType ==
    /\ spc \in [Node -> {"sleep", "visit", "fetch", "write"}]
    /\ wake \in [Node -> Nat] /\ (\A n \in Node : now <= wake[n]) /\ since \in [Node -> Nat]

\* A step within a slot keeps the invariant if each part it changes does.
LEMMA SlotStep ==
    ASSUME FundingInv, UNCHANGED <<venue, now>>, lead' \in Node \union {NoNode},
           stored' \subseteq Settled, PollInv', SweepType',
           batch' \in [Node -> SUBSET Settled], UNCHANGED faults \/ Fault
    PROVE  FundingInv'
<1>1. Settled' = Settled /\ Settled \subseteq Settlement /\ Settled \subseteq Nat \ {NoTime}
  BY DEF Settled, Settlement
<1>2. faults' \in 0..MaxFaults
  BY DEF Fault, FundingInv, TypeOK
<1>3. batch' \in [Node -> SUBSET Settlement]
  BY <1>1
<1>4. TypeOK'
  BY <1>1, <1>2, <1>3 DEF FundingInv, TypeOK, PollInv, SweepType
<1>5. HeldInv'
  BY <1>1 DEF HeldInv, PollInv
<1> QED
  BY <1>1, <1>4, <1>5 DEF FundingInv, OnlySettledStored

\* Each step keeps the types, stores only settlements, and keeps what the
\* nodes hold settled.
LEMMA FundingStep == ASSUME FundingInv, [Next]_vars PROVE FundingInv'
<1>1. PollInv /\ SweepType /\ stored \subseteq Settled /\ batch \in [Node -> SUBSET Settled]
      /\ lead \in Node \union {NoNode}
  BY DEF FundingInv, TypeOK, HeldInv, OnlySettledStored, PollInv, SweepType
<1>2. ASSUME UNCHANGED <<poll, now>> PROVE PollInv'
  BY <1>1, <1>2 DEF PollInv, poll, Settled, NextFunding
<1>3. ASSUME NEW n \in Node, NEW to \in Nat, SleepsUntil(n, now, to), now' = now,
             since' \in [Node -> Nat]
      PROVE  SweepType'
  <2>1. PICK w \in now..to : wake' = [wake EXCEPT ![n] = w]
    BY <1>3 DEF SleepsUntil
  <2>2. w \in Nat /\ now <= w
    BY DEF FundingInv, TypeOK
  <2> QED
    BY <1>1, <1>3, <2>1, <2>2 DEF SweepType, SleepsUntil
<1>s. ASSUME NEW n \in Node, now' = now, since' \in [Node -> Nat], NEW slots \in Nat,
             Sleep(n, slots) \/ SleepAfterSweep(n, slots)
      PROVE  SweepType'
  <2>1. TypeOK /\ now + slots \in Nat /\ wake[n] + slots \in Nat
    BY DEF FundingInv, TypeOK
  <2> QED
    BY <1>3, <1>s, <2>1, SleepEffect
<1>4. ASSUME UNCHANGED <<now, spc, wake, since>> PROVE SweepType'
  BY <1>1, <1>4 DEF SweepType
<1>5. ASSUME NEW n \in Node, PollFetch(n) PROVE FundingInv'
  <2>1. PICK bar : bar.next \in {NoTime, NextFunding} /\ Polled(n, bar)
    BY <1>5, PollFetchPolls DEF FundingInv
  <2>2. /\ cursor' \in [Node -> Nat] /\ event' \in [Node -> Nat]
        /\ \A m \in Node :
              /\ event'[m] # NoTime => event'[m] \in Settled
              /\ cursor'[m] # NoTime =>
                     cursor'[m] % Interval = 0 /\ cursor'[m] <= NextFunding
    BY <1>5, <2>1, PolledEffect DEF PollFetch
  <2>3. /\ UNCHANGED <<venue, now, lead, stored, sweep>>
        /\ polled' = [polled EXCEPT ![n] = TRUE]
        /\ UNCHANGED faults \/ Fault
    BY <1>5 DEF PollFetch
  <2>4. PollInv'
    BY <1>1, <2>2, <2>3 DEF PollInv, Settled, NextFunding
  <2> QED
    BY <1>1, <1>4, <2>3, <2>4, SlotStep DEF sweep
<1>6. ASSUME NEW n \in Node, PollFails(n) PROVE FundingInv'
  <2>1. PollInv'
    BY <1>1, <1>6 DEF PollFails, PollInv, Settled, NextFunding
  <2> QED
    BY <1>1, <1>4, <1>6, <2>1, SlotStep DEF PollFails, sweep
<1>7. ASSUME NEW n \in Node, PollWrite(n) PROVE FundingInv'
  <2>1. event[n] \in Settled
    BY <1>1, <1>7 DEF PollWrite, PollInv
  <2>2. stored' \subseteq Settled /\ (UNCHANGED faults \/ Fault)
    BY <1>1, <1>7, <2>1 DEF PollWrite
  <2>3. PollInv'
    BY <1>1, <1>7 DEF PollWrite, PollInv, Settled, NextFunding
  <2> QED
    BY <1>1, <1>4, <1>7, <2>2, <2>3, SlotStep DEF PollWrite, sweep
<1>8. ASSUME NEW n \in Node, SweepWakes(n) PROVE FundingInv'
  <2>1. CASE lead # n
    <3>1. SweepType'
      BY <1>1, <1>s, <1>8, <2>1 DEF SweepWakes, SweepType
    <3> QED
      BY <1>1, <1>2, <1>8, <3>1, SlotStep DEF SweepWakes
  <2>2. CASE lead = n
    <3>1. now + SweepTime \in Nat /\ now <= now + SweepTime
      BY DEF FundingInv, TypeOK
    <3>2. SweepType'
      BY <1>1, <1>8, <2>2, <3>1 DEF SweepWakes, SweepType
    <3> QED
      BY <1>1, <1>2, <1>8, <3>2, SlotStep DEF SweepWakes
  <2> QED
    BY <2>1, <2>2
<1>v. ASSUME NEW n \in Node, SweepVisits(n) PROVE FundingInv'
  <2>1. since' \in [Node -> Nat] /\ (UNCHANGED faults \/ Fault)
    BY <1>1, <1>v, LatestType DEF SweepVisits, SweepType
  <2>2. SweepType'
    BY <1>1, <1>s, <1>v, <2>1 DEF SweepVisits, SweepType
  <2> QED
    BY <1>1, <1>2, <1>v, <2>1, <2>2, SlotStep DEF SweepVisits
<1>9. ASSUME NEW n \in Node, SweepFetch(n) PROVE FundingInv'
  <2>1. venue \in Exchange
    BY DEF FundingInv, TypeOK
  <2>2. \E b \in SUBSET Settled : batch' = [batch EXCEPT ![n] = b]
    BY <1>9, <2>1, HistorySettled DEF SweepFetch
  <2>3. batch' \in [Node -> SUBSET Settled] /\ (UNCHANGED faults \/ Fault)
    BY <1>1, <1>9, <2>2 DEF SweepFetch
  <2>4. SweepType'
    BY <1>1, <1>s, <1>9 DEF SweepFetch, SweepType
  <2> QED
    BY <1>1, <1>2, <1>9, <2>3, <2>4, SlotStep DEF SweepFetch
<1>10. ASSUME NEW n \in Node, SweepFetchFails(n) PROVE FundingInv'
  <2>1. SweepType'
    BY <1>1, <1>s, <1>10 DEF SweepFetchFails, SweepType
  <2> QED
    BY <1>1, <1>2, <1>10, <2>1, SlotStep DEF SweepFetchFails
<1>11. ASSUME NEW n \in Node, SweepWrite(n) PROVE FundingInv'
  <2>1. stored' \subseteq Settled /\ (UNCHANGED faults \/ Fault)
    BY <1>1, <1>11 DEF SweepWrite
  <2>2. SweepType' /\ batch' \in [Node -> SUBSET Settled]
    BY <1>1, <1>s, <1>11 DEF SweepWrite, SweepType
  <2> QED
    BY <1>1, <1>2, <1>11, <2>1, <2>2, SlotStep DEF SweepWrite
<1>12. ASSUME NEW n \in Node, Acquire(n) PROVE FundingInv'
  BY <1>1, <1>2, <1>4, <1>12, SlotStep DEF Acquire, sweep
<1>13. ASSUME NEW n \in Node, Crash(n) PROVE FundingInv'
  <2>1. PollInv'
    BY <1>1, <1>13 DEF Crash, PollInv, Settled, NextFunding
  <2>2. SweepType' /\ batch' \in [Node -> SUBSET Settled]
    BY <1>1, <1>s, <1>13 DEF Crash, SweepType
  <2> QED
    BY <1>1, <1>13, <2>1, <2>2, SlotStep DEF Crash
<1>14. CASE LoseLease
  BY <1>1, <1>2, <1>4, <1>14, SlotStep DEF LoseLease, sweep
<1>15. CASE Tick
  <2>1. now' = now + 1 /\ now' \in 1..MaxTime
    BY <1>15 DEF Tick, FundingInv, TypeOK
  <2>2. Settled \subseteq Settled' /\ NextFunding <= NextFunding'
    BY <2>1, ClockAdvances DEF FundingInv
  <2>3. NextFunding \in Nat /\ NextFunding' \in Nat
    BY <2>1 DEF NextFunding, FundingInv, TypeOK
  <2>4. TypeOK'
    BY <1>15, <2>1 DEF Tick, Idle, FundingInv, TypeOK, sweep
  <2>5. HeldInv' /\ OnlySettledStored'
    BY <1>1, <1>15, <2>2, <2>3 DEF Tick, sweep, PollInv, HeldInv, OnlySettledStored
  <2>6. venue' # "okx"
    BY <1>15 DEF Tick, FundingInv
  <2> QED
    BY <2>4, <2>5, <2>6 DEF FundingInv
<1>16. CASE UNCHANGED vars
  BY <1>1, <1>2, <1>4, <1>16, SlotStep DEF vars, sweep
<1> QED
  BY <1>5, <1>6, <1>7, <1>8, <1>v, <1>9, <1>10, <1>11, <1>12, <1>13, <1>14, <1>15, <1>16 DEF Next

\* The inductive invariant holds of every reachable state.
LEMMA FundingInvariant == ASSUME "okx" \notin Venue PROVE Spec => []FundingInv
<1>1. Init => FundingInv
  BY DEF Init, FundingInv, TypeOK, OnlySettledStored, HeldInv
<1> QED
  BY <1>1, FundingStep, PTL DEF Spec

\* The table, the polls and the sweeps always have their types.
THEOREM TypeCorrect == ASSUME "okx" \notin Venue PROVE Spec => []TypeOK
BY FundingInvariant, PTL DEF FundingInv

\* Where the adapter passes on the settlement that is next (OKX's does not),
\* neither the derivation of run_exchange_loop nor the sweep ever stores a
\* settlement that has not taken place, for any interval and any number of
\* nodes, faults, lease changes and restarts.
THEOREM StoresOnlySettled == ASSUME "okx" \notin Venue PROVE Spec => []OnlySettledStored
BY FundingInvariant, PTL DEF FundingInv

-----------------------------------------------------------------------------
(* One cycle late at most.                                                 *)

\* Settlements not in the table yet.
Missing == Settled \ stored

\* The sweep of node n, if n leads and nothing more goes wrong, has settlement
\* s in the table before the end of the given slot: a sleeping one with its
\* next sweep, a running one with this sweep, or with the next one when s has
\* settled since its visit.
Promises(n, s, slot) ==
    \/ spc[n] = "sleep" /\ wake[n] + SweepTime <= slot
    \/ spc[n] \in {"visit", "fetch"} /\ wake[n] <= slot
    \/ spc[n] = "write" /\ s \in batch[n] /\ wake[n] <= slot
    \/ /\ spc[n] = "write" /\ \A t \in batch[n] : t < s
       /\ wake[n] + SweepInterval + SweepTime <= slot

\* A sweep ends in time, and a sleep, begun after one, does too.
Timely(n, slack) ==
    wake[n] <= now + SweepTime + (IF spc[n] = "sleep" THEN SweepInterval + slack ELSE 0)

\* A sweep asks from a stored settlement on, or for everything.
SinceKnown == \A n \in Node : spc[n] = "fetch" => since[n] \in stored \union {NoTime}

\* The sweep alone brings every settlement within a cycle and some slack: what
\* is missing is newer than what is stored, and the leader, or whoever takes
\* the free lease, has promised it.
SweepCovers(slack) ==
    /\ \A t \in stored, s \in Missing : t < s
    /\ \A n \in Node : Timely(n, slack)
    /\ \A s \in Missing : now <= s + Cycle + slack
    /\ \A s \in Missing, n \in Node :
          lead \in {n, NoNode} => Promises(n, s, s + Cycle + slack)
    /\ lead = NoNode => \A s \in Missing : now <= s + slack

\* The polls alone bring every settlement within its slot: each node's cursor
\* is the settlement announced in the slot before, or in this one.
PollsCover ==
    /\ now = 1 \/ lead # NoNode
    /\ Missing \subseteq {now}
    /\ \A n \in Node :
          /\ polled[n] => cursor[n] = NextFunding
          /\ ~polled[n] /\ now > 1 => cursor[n] = IF now % Interval = 0 THEN now ELSE NextFunding
          /\ lead = n /\ polled[n] /\ now \in Missing => event[n] = now

\* Before a fault both producers cover for a venue that announces its
\* settlements, and after one fault one of them still does.  For the other
\* venues there is the sweep, after a fault with the cooldown as slack.
Slack == IF faults = 0 THEN 0 ELSE Cooldown + 2 * SweepTime

CycleInv ==
    /\ SinceKnown
    /\ faults <= 1 =>
       IF venue \in Unannounced
       THEN /\ \A n \in Node : cursor[n] = NoTime /\ event[n] = NoTime
            /\ SweepCovers(Slack)
       ELSE IF faults = 0 THEN SweepCovers(0) /\ PollsCover
            ELSE SweepCovers(0) \/ PollsCover

\* Two settlements are an interval apart.
LEMMA Apart ==
    ASSUME NEW s \in Nat, NEW t \in Nat, s % Interval = 0, t % Interval = 0, s < t
    PROVE  s + Interval <= t
<1>1. PICK j \in Nat : s = j * Interval
  OBVIOUS
<1>2. PICK k \in Nat : t = k * Interval
  OBVIOUS
<1>3. j < k
  BY <1>1, <1>2
<1>4. (j + 1) * Interval <= k * Interval
  BY <1>3
<1> QED
  BY <1>1, <1>2, <1>4

\* Quotient and remainder are the only ones.
LEMMA Quotient ==
    ASSUME NEW k \in Nat, NEW r \in Nat, r < Interval
    PROVE  (k * Interval + r) \div Interval = k /\ (k * Interval + r) % Interval = r
<1> DEFINE a == k * Interval + r
           d == a \div Interval
           m == a % Interval
<1>1. a \in Nat
  OBVIOUS
<1>2. d \in Nat /\ m \in Nat /\ m < Interval /\ a = d * Interval + m
  BY <1>1
<1>3. a = k * Interval + r
  OBVIOUS
<1> HIDE DEF a, d, m
<1>4. ~(d < k)
  <2> SUFFICES ASSUME d < k PROVE FALSE
    OBVIOUS
  <2>1. (d + 1) * Interval <= k * Interval
    BY <1>2
  <2> QED
    BY <1>2, <1>3, <2>1
<1>5. ~(k < d)
  <2> SUFFICES ASSUME k < d PROVE FALSE
    OBVIOUS
  <2>1. (k + 1) * Interval <= d * Interval
    BY <1>2
  <2> QED
    BY <1>2, <1>3, <2>1
<1>6. d = k
  BY <1>2, <1>4, <1>5
<1> QED
  BY <1>2, <1>3, <1>6 DEF a, d, m

\* What is announced in one slot is, in the next one, due or still announced.
LEMMA AnnouncedNext ==
    ASSUME TypeOK, now' = now + 1
    PROVE  NextFunding = IF now' % Interval = 0 THEN now' ELSE NextFunding'
<1> DEFINE k == now \div Interval
           r == now % Interval
<1>1. now \in Nat /\ Interval \in Nat /\ Interval > 0
  BY DEF TypeOK
<1>2. k \in Nat /\ r \in Nat /\ r < Interval /\ now = k * Interval + r
  BY <1>1
<1>3. NextFunding = k * Interval + Interval
  BY <1>1, <1>2 DEF NextFunding
<1> HIDE DEF k, r
<1>4. CASE r = Interval - 1
  <2>1. now' = (k + 1) * Interval
    BY <1>1, <1>2, <1>4
  <2>2. now' % Interval = 0
    <3> DEFINE j == k + 1
    <3>1. j \in Nat /\ now' = j * Interval + 0
      BY <1>1, <1>2, <2>1
    <3> HIDE DEF j
    <3> QED
      BY <1>1, <3>1, Quotient
  <2> QED
    BY <1>1, <1>2, <1>3, <2>1, <2>2
<1>5. CASE r # Interval - 1
  <2>1. now' = k * Interval + (r + 1) /\ r + 1 < Interval
    BY <1>1, <1>2, <1>5
  <2> DEFINE q == r + 1
  <2>2. q \in Nat /\ q < Interval /\ now' = k * Interval + q
    BY <1>2, <2>1
  <2> HIDE DEF q
  <2>3. now' \div Interval = k /\ now' % Interval = q
    BY <1>2, <2>2, Quotient
  <2>4. now' % Interval # 0
    BY <1>2, <2>3 DEF q
  <2>5. NextFunding' = (k + 1) * Interval
    BY <2>3 DEF NextFunding
  <2> QED
    BY <1>1, <1>2, <1>3, <2>4, <2>5
<1> QED
  BY <1>4, <1>5

\* Facts about settlements that the steps below use.
LEMMA SettledFacts ==
    ASSUME FundingInv
    PROVE  /\ now \in Nat /\ stored \subseteq Settled /\ Missing \subseteq Settled
           /\ \A s \in Settled : s \in Nat /\ s > 0 /\ s <= now /\ s % Interval = 0
           /\ \A s, t \in Settled : s < t => s + Interval <= t
<1>1. now \in Nat /\ stored \subseteq Settled /\ Missing \subseteq Settled
  BY DEF FundingInv, TypeOK, OnlySettledStored, Missing
<1>2. \A s \in Settled : s \in Nat /\ s > 0 /\ s <= now /\ s % Interval = 0
  BY DEF Settled, Settlement
<1>3. \A s, t \in Settled : s < t => s + Interval <= t
  BY <1>2, Apart
<1> QED
  BY <1>1, <1>2, <1>3

\* A complete history has every settlement after the cursor.
LEMMA HistoryComplete ==
    ASSUME FundingInv, NEW from \in Nat, NEW s \in Settled, s > from
    PROVE  s \in History(venue, GoodHistory, from)
<1>1. GoodRow(s) \in GoodHistory
  BY DEF GoodHistory
<1>2. GoodRow(s).ts = s /\ GoodRow(s).rate = "ok" /\ GoodRow(s).realized = "ok"
  BY DEF GoodRow
<1>3. venue \in Exchange /\ s \in Nat
  BY SettledFacts DEF FundingInv, TypeOK
<1>4. GoodRow(s).ts > from /\ GoodRow(s).ts >= from
  BY <1>2, <1>3
<1> HIDE DEF GoodRow
<1>5. s \in From(GoodHistory, from)
  BY <1>1, <1>2, <1>4 DEF From
<1>6. s \in After(GoodHistory, from)
  BY <1>1, <1>2, <1>4 DEF After
<1>7. s \in OkxHistory(GoodHistory, from)
  BY <1>1, <1>2, <1>4 DEF OkxHistory
<1> QED
  BY <1>3, <1>5, <1>6, <1>7 DEF Exchange, History, BinanceHistory, BybitHistory, BitgetHistory,
     HyperliquidHistory, BingxHistory, KucoinHistory, MexcHistory, AsterHistory

\* The lookup finds the newest stored settlement, if there is one.
LEMMA LatestIsNewest ==
    ASSUME FundingInv
    PROVE  /\ Latest \in stored \union {NoTime}
           /\ stored = {} => Latest = NoTime
           /\ stored # {} => Latest \in stored /\ \A t \in stored : t <= Latest
<1>1. CASE stored = {}
  BY <1>1 DEF Latest
<1>2. CASE stored # {}
  <2>1. stored \subseteq 0..MaxTime
    BY DEF FundingInv, OnlySettledStored, Settled, Settlement
  <2>2. \E s \in stored : \A t \in stored : t <= s
    BY <1>2, <2>1, Greatest
  <2>3. Latest \in stored /\ \A t \in stored : t <= Latest
    BY <1>2, <2>2 DEF Latest
  <2> QED
    BY <1>2, <2>3
<1> QED
  BY <1>1, <1>2

-----------------------------------------------------------------------------
(* Steps without a fault.                                                  *)

\* The sweeps of the other nodes are where they were.
OthersAsleep(n) ==
    \A m \in Node \ {n} : spc'[m] = spc[m] /\ wake'[m] = wake[m] /\ batch'[m] = batch[m]

\* A step of node n's sweep keeps the cover if n still sleeps no longer than it
\* may and still keeps its own promises.
LEMMA SweepStepCovers ==
    ASSUME FundingInv, NEW slack \in Nat, SweepCovers(slack), NEW n \in Node, OthersAsleep(n),
           UNCHANGED <<now, lead>>, stored \subseteq stored',
           \A t \in stored', s \in Missing' : t < s,
           Timely(n, slack)',
           \A s \in Missing' :
               lead \in {n, NoNode} => Promises(n, s, s + Cycle + slack)'
    PROVE  SweepCovers(slack)'
<1>1. Missing' \subseteq Missing
  BY DEF Missing, Settled
<1>2. \A m \in Node : Timely(m, slack)'
  BY DEF SweepCovers, Timely, OthersAsleep
<1>3. ASSUME NEW s \in Missing', NEW m \in Node, lead' \in {m, NoNode}
      PROVE  Promises(m, s, s + Cycle + slack)'
  <2>1. CASE m = n
    BY <1>3, <2>1
  <2>2. CASE m # n
    <3>1. Promises(m, s, s + Cycle + slack)
      BY <1>1, <1>3 DEF SweepCovers
    <3>2. m \in Node \ {n}
      BY <2>2
    <3> QED
      BY <3>1, <3>2 DEF Promises, OthersAsleep
  <2> QED
    BY <2>1, <2>2
<1> QED
  BY <1>1, <1>2, <1>3 DEF SweepCovers

\* Nothing a sweep depends on changes, except that the table may grow.
LEMMA TableGrowsCovers ==
    ASSUME FundingInv, NEW slack \in Nat, SweepCovers(slack),
           UNCHANGED <<now, lead, spc, wake, batch>>, stored \subseteq stored',
           \A t \in stored', s \in Missing' : t < s
    PROVE  SweepCovers(slack)'
<1>1. Missing' \subseteq Missing
  BY DEF Missing, Settled
<1> QED
  BY <1>1 DEF SweepCovers, Timely, Promises

\* Before the deadline of a cycle a missing settlement is the newest of all.
LEMMA MissingIsNewest ==
    ASSUME SweepBudget, FundingInv, NEW s \in Settled, NEW t \in Settled, t # s,
           now <= s + Cycle
    PROVE  t < s
<1>1. /\ now \in Nat /\ s \in Nat /\ t \in Nat /\ t <= now
      /\ s < t => s + Interval <= t
  BY SettledFacts
<1> QED
  BY <1>1 DEF SweepBudget, Cycle

\* A sweep that has read the table knows what it read, and the next one will.
LEMMA SinceStep ==
    ASSUME FundingInv, SinceKnown, [Next]_vars
    PROVE  SinceKnown'
<1>1. ASSUME UNCHANGED <<spc, since>>, stored \subseteq stored' PROVE SinceKnown'
  BY <1>1 DEF SinceKnown
<1>2. ASSUME NEW n \in Node, NEW slots, Sleep(n, slots) \/ SleepAfterSweep(n, slots),
             since' = since, stored \subseteq stored'
      PROVE  SinceKnown'
  BY <1>2 DEF SinceKnown, Sleep, SleepAfterSweep, FundingInv, TypeOK
<1>3. ASSUME NEW n \in Node, PollFetch(n) \/ PollFails(n) \/ PollWrite(n) \/ Acquire(n)
      PROVE  SinceKnown'
  BY <1>1, <1>3 DEF PollFetch, PollFails, PollWrite, Acquire, sweep
<1>4. ASSUME NEW n \in Node, SweepWakes(n) PROVE SinceKnown'
  BY <1>4 DEF SweepWakes, Sleep, SinceKnown, FundingInv, TypeOK
<1>v. ASSUME NEW n \in Node, SweepVisits(n) PROVE SinceKnown'
  <2>1. /\ UNCHANGED stored
        /\ \/ since' = [since EXCEPT ![n] = Latest]
           \/ since' = [since EXCEPT ![n] = NoTime]
        /\ \/ spc' = [spc EXCEPT ![n] = "fetch"]
           \/ spc' = [spc EXCEPT ![n] = "sleep"]
    BY <1>v DEF SweepVisits, Sleep, SleepAfterSweep
  <2>2. Latest \in stored \union {NoTime}
    BY LatestIsNewest
  <2> QED
    BY <2>1, <2>2 DEF SinceKnown, FundingInv, TypeOK
<1>5. ASSUME NEW n \in Node, SweepFetch(n) PROVE SinceKnown'
  <2>1. /\ UNCHANGED <<stored, since>>
        /\ spc' = [spc EXCEPT ![n] = "write"] \/ spc' = [spc EXCEPT ![n] = "sleep"]
    BY <1>5 DEF SweepFetch, Sleep, SleepAfterSweep
  <2> QED
    BY <2>1 DEF SinceKnown, FundingInv, TypeOK
<1>6. ASSUME NEW n \in Node, SweepFetchFails(n) PROVE SinceKnown'
  BY <1>2, <1>6 DEF SweepFetchFails
<1>7. ASSUME NEW n \in Node, SweepWrite(n) \/ Crash(n) PROVE SinceKnown'
  BY <1>2, <1>7 DEF SweepWrite, Crash
<1>8. CASE LoseLease \/ Tick \/ UNCHANGED vars
  BY <1>1, <1>8 DEF LoseLease, Tick, vars, sweep
<1> QED
  BY <1>3, <1>4, <1>v, <1>5, <1>6, <1>7, <1>8 DEF Next

\* Without a fault the sweep goes on covering.  A poll may store ahead of it
\* only where the sweep has no slack, or it would jump over what is missing.
LEMMA CoverStep ==
    ASSUME SweepBudget, FundingInv, SinceKnown, NEW slack \in Nat, SweepCovers(slack),
           slack = 0 \/ \A n \in Node : event[n] = NoTime,
           [Next]_vars, UNCHANGED faults
    PROVE  SweepCovers(slack)'
<1>0. /\ now \in Nat /\ stored \subseteq Settled /\ Missing \subseteq Settled
      /\ \A s \in Settled : s \in Nat /\ s > 0 /\ s <= now /\ s % Interval = 0
      /\ \A s, t \in Settled : s < t => s + Interval <= t
  BY SettledFacts
<1>a. faults \in Nat /\ ~Fault
  BY DEF FundingInv, TypeOK, Fault
<1>b. spc \in [Node -> {"sleep", "visit", "fetch", "write"}] /\ wake \in [Node -> Nat]
      /\ batch \in [Node -> SUBSET Settlement]
  BY DEF FundingInv, TypeOK
<1>c. ASSUME NEW n \in Node, NEW to \in Nat, SleepsUntil(n, now, to),
             to <= now + SweepTime + SweepInterval,
             UNCHANGED now, \A m \in Node \ {n} : batch'[m] = batch[m]
      PROVE  /\ spc'[n] = "sleep" /\ wake'[n] \in Nat /\ wake'[n] <= to
             /\ OthersAsleep(n) /\ Timely(n, slack)'
  <2>1. PICK w \in now..to : wake' = [wake EXCEPT ![n] = w]
    BY <1>c DEF SleepsUntil
  <2>2. w \in Nat /\ w <= to
    BY <1>0
  <2>3. spc'[n] = "sleep" /\ wake'[n] = w /\ OthersAsleep(n)
    BY <1>b, <1>c, <2>1 DEF SleepsUntil, OthersAsleep
  <2> QED
    BY <1>0, <1>c, <2>2, <2>3 DEF Timely
<1>d. ASSUME NEW n \in Node, spc[n] # "sleep", SleepAfterSweep(n, SweepInterval),
             UNCHANGED now, \A m \in Node \ {n} : batch'[m] = batch[m]
      PROVE  /\ spc'[n] = "sleep" /\ wake'[n] \in Nat /\ wake'[n] <= wake[n] + SweepInterval
             /\ wake[n] \in Nat /\ wake[n] <= now + SweepTime
             /\ OthersAsleep(n) /\ Timely(n, slack)'
  <2>1. wake[n] \in Nat /\ wake[n] <= now + SweepTime
    BY <1>0, <1>b, <1>d DEF SweepCovers, Timely
  <2>2. SleepsUntil(n, now, wake[n] + SweepInterval)
    BY <1>d, SleepEffect DEF FundingInv
  <2>3. wake[n] + SweepInterval \in Nat /\ wake[n] + SweepInterval <= now + SweepTime + SweepInterval
    BY <1>0, <2>1
  <2> DEFINE to == wake[n] + SweepInterval
  <2>4. to \in Nat /\ to <= now + SweepTime + SweepInterval /\ SleepsUntil(n, now, to)
    BY <2>2, <2>3
  <2> HIDE DEF to
  <2>5. /\ spc'[n] = "sleep" /\ wake'[n] \in Nat /\ wake'[n] <= to
        /\ OthersAsleep(n) /\ Timely(n, slack)'
    BY <1>c, <1>d, <2>4
  <2> QED
    BY <2>1, <2>5 DEF to
<1>1. ASSUME NEW n \in Node, PollFetch(n) \/ PollFails(n) PROVE SweepCovers(slack)'
  BY <1>1, TableGrowsCovers DEF PollFetch, PollFails, sweep, SweepCovers, Missing, Settled
<1>2. ASSUME NEW n \in Node, PollWrite(n) PROVE SweepCovers(slack)'
  <2>1. UNCHANGED <<now, lead, spc, wake, batch>> /\ event[n] # NoTime
    BY <1>2 DEF PollWrite, sweep
  <2>2. slack = 0 /\ event[n] \in Settled
    BY <2>1 DEF FundingInv, HeldInv
  <2>3. stored' = stored \/ stored' = stored \union {event[n]}
    BY <1>2 DEF PollWrite
  <2>4. ASSUME NEW t \in stored', NEW s \in Missing' PROVE t < s
    <3>1. s \in Missing /\ s \in Settled /\ now <= s + Cycle + slack /\ s # t
      BY <2>1, <2>3 DEF Missing, Settled, SweepCovers
    <3>2. t \in Settled
      BY <1>0, <2>2, <2>3
    <3>3. now <= s + Cycle
      BY <1>0, <2>2, <3>1 DEF Cycle
    <3> QED
      BY <3>1, <3>2, <3>3, MissingIsNewest
  <2> QED
    BY <2>1, <2>3, <2>4, TableGrowsCovers
<1>3. ASSUME NEW n \in Node, SweepWakes(n) PROVE SweepCovers(slack)'
  <2>1. UNCHANGED <<now, lead, stored, batch>> /\ spc[n] = "sleep" /\ now >= wake[n]
    BY <1>3 DEF SweepWakes
  <2>2. Missing' = Missing /\ \A t \in stored', s \in Missing' : t < s
    BY <2>1 DEF Missing, Settled, SweepCovers
  <2>3. CASE lead # n
    <3>1. SleepsUntil(n, now, now + SweepInterval)
      BY <1>3, <2>3, SleepEffect DEF SweepWakes, FundingInv
    <3>2. now + SweepInterval \in Nat /\ now + SweepInterval <= now + SweepTime + SweepInterval
      BY <1>0
    <3>3. /\ spc'[n] = "sleep" /\ wake'[n] \in Nat /\ wake'[n] <= now + SweepInterval
          /\ OthersAsleep(n) /\ Timely(n, slack)'
      BY <1>c, <2>1, <3>1, <3>2
    <3>4. ASSUME NEW s \in Missing, lead \in {n, NoNode}
          PROVE  Promises(n, s, s + Cycle + slack)'
      <4>1. now <= s + slack /\ s \in Nat
        BY <1>0, <2>3, <3>4 DEF SweepCovers
      <4>2. wake'[n] + SweepTime <= s + Cycle + slack
        BY <1>0, <3>3, <4>1 DEF Cycle
      <4> QED
        BY <3>3, <4>2 DEF Promises
    <3> QED
      BY <2>1, <2>2, <3>3, <3>4, SweepStepCovers
  <2>4. CASE lead = n
    <3>1. /\ spc' = [spc EXCEPT ![n] = "visit"]
          /\ wake' = [wake EXCEPT ![n] = now + SweepTime]
      BY <1>3, <2>4 DEF SweepWakes
    <3>2. OthersAsleep(n) /\ spc'[n] = "visit" /\ wake'[n] = now + SweepTime
      BY <1>b, <2>1, <3>1 DEF OthersAsleep
    <3>3. Timely(n, slack)'
      BY <1>0, <2>1, <3>2 DEF Timely
    <3>4. ASSUME NEW s \in Missing PROVE Promises(n, s, s + Cycle + slack)'
      <4>1. wake[n] + SweepTime <= s + Cycle + slack
        BY <2>1, <2>4 DEF SweepCovers, Promises
      <4>2. wake[n] = now /\ s \in Nat
        <5>1. now <= wake[n]
          BY DEF FundingInv, TypeOK
        <5> QED
          BY <1>0, <1>b, <2>1, <5>1
      <4> QED
        BY <3>2, <4>1, <4>2 DEF Promises
    <3> QED
      BY <2>1, <2>2, <3>2, <3>3, <3>4, SweepStepCovers
  <2> QED
    BY <2>3, <2>4
<1>v. ASSUME NEW n \in Node, SweepVisits(n) PROVE SweepCovers(slack)'
  <2>1. UNCHANGED <<now, lead, stored, batch>> /\ spc[n] = "visit"
    BY <1>v DEF SweepVisits
  <2>2. Missing' = Missing /\ \A t \in stored', s \in Missing' : t < s
    BY <2>1 DEF Missing, Settled, SweepCovers
  <2>3. since'[n] = Latest
    BY <1>v, <1>a DEF SweepVisits, FundingInv, TypeOK
  <2>4. CASE spc' = [spc EXCEPT ![n] = "fetch"] /\ UNCHANGED wake
    <3>1. OthersAsleep(n) /\ spc'[n] = "fetch" /\ wake'[n] = wake[n]
      BY <1>b, <2>1, <2>4 DEF OthersAsleep
    <3>2. \A s \in Missing : lead \in {n, NoNode} => Promises(n, s, s + Cycle + slack)'
      BY <2>1, <3>1 DEF Promises, SweepCovers
    <3>3. Timely(n, slack)'
      BY <2>1, <3>1 DEF SweepCovers, Timely
    <3> QED
      BY <2>1, <2>2, <3>1, <3>2, <3>3, SweepStepCovers
  <2>5. CASE ~Due(Latest, now) /\ SleepAfterSweep(n, SweepInterval)
    <3>1. OthersAsleep(n) /\ Timely(n, slack)'
      BY <1>d, <2>1, <2>5
    <3>2. ASSUME NEW s \in Missing PROVE FALSE
      <4>1. Latest # NoTime /\ now - Latest < NotDueBefore
        <5>1. Latest # NoTime /\ ~(now - Latest >= NotDueBefore)
          BY <2>5 DEF Due
        <5>2. Latest \in Nat
          BY LatestType
        <5> QED
          BY <1>0, <5>1, <5>2
      <4>2. Latest \in stored
        BY <4>1, LatestIsNewest
      <4>3. Latest < s
        BY <4>2 DEF SweepCovers
      <4>4. Latest \in Settled /\ s \in Settled
        BY <1>0, <4>2
      <4>5. Latest + Interval <= s /\ s <= now /\ Latest \in Nat /\ s \in Nat
        BY <1>0, <4>3, <4>4
      <4> QED
        BY <1>0, <4>1, <4>5 DEF SweepBudget
    <3> QED
      BY <2>1, <2>2, <3>1, <3>2, SweepStepCovers
  <2> QED
    BY <1>v, <2>3, <2>4, <2>5 DEF SweepVisits
<1>4. ASSUME NEW n \in Node, SweepFetch(n) PROVE SweepCovers(slack)'
  <2>1. UNCHANGED <<now, lead, stored>> /\ spc[n] = "fetch"
        /\ batch' = [batch EXCEPT ![n] = History(venue, GoodHistory, since[n])]
    BY <1>4, <1>a DEF SweepFetch
  <2>2. Missing' = Missing /\ \A t \in stored', s \in Missing' : t < s
    BY <2>1 DEF Missing, Settled, SweepCovers
  <2>3. \A s \in Missing : s \in batch'[n]
    <3>1. since[n] \in stored \union {NoTime} /\ since[n] \in Nat
      BY <2>1 DEF SinceKnown, FundingInv, TypeOK
    <3>2. \A s \in Missing : s > since[n] /\ s \in Settled
      BY <1>0, <3>1 DEF SweepCovers
    <3>3. \A s \in Missing : s \in History(venue, GoodHistory, since[n])
      BY <3>1, <3>2, HistoryComplete
    <3> QED
      BY <1>b, <2>1, <3>3
  <2>4. CASE batch'[n] = {} /\ SleepAfterSweep(n, SweepInterval)
    <3>1. Missing = {}
      BY <2>3, <2>4
    <3>2. \A m \in Node \ {n} : batch'[m] = batch[m]
      BY <1>b, <2>1
    <3>3. OthersAsleep(n) /\ Timely(n, slack)'
      BY <1>d, <2>1, <2>4, <3>2
    <3> QED
      BY <2>1, <2>2, <3>1, <3>3, SweepStepCovers
  <2>5. CASE spc' = [spc EXCEPT ![n] = "write"] /\ UNCHANGED wake
    <3>1. OthersAsleep(n) /\ spc'[n] = "write" /\ wake'[n] = wake[n]
      BY <1>b, <2>1, <2>5 DEF OthersAsleep
    <3>2. \A s \in Missing : lead \in {n, NoNode} => Promises(n, s, s + Cycle + slack)'
      BY <2>1, <2>3, <3>1 DEF Promises, SweepCovers
    <3>3. Timely(n, slack)'
      BY <2>1, <3>1 DEF SweepCovers, Timely
    <3> QED
      BY <2>1, <2>2, <3>1, <3>2, <3>3, SweepStepCovers
  <2> QED
    BY <1>4, <2>4, <2>5 DEF SweepFetch
<1>5. ASSUME NEW n \in Node, SweepWrite(n) PROVE SweepCovers(slack)'
  <2>1. UNCHANGED <<now, lead>> /\ spc[n] = "write" /\ SleepAfterSweep(n, SweepInterval)
        /\ batch' = [batch EXCEPT ![n] = {}]
    BY <1>5 DEF SweepWrite
  <2>2. \A m \in Node \ {n} : batch'[m] = batch[m]
    BY <1>b, <2>1
  <2>3. /\ spc'[n] = "sleep" /\ wake'[n] \in Nat /\ wake'[n] <= wake[n] + SweepInterval
        /\ wake[n] \in Nat /\ wake[n] <= now + SweepTime
        /\ OthersAsleep(n) /\ Timely(n, slack)'
    BY <1>d, <2>1, <2>2
  <2>5. CASE lead # n /\ UNCHANGED stored
    <3>1. Missing' = Missing /\ \A t \in stored', s \in Missing' : t < s
      BY <2>1, <2>5 DEF Missing, Settled, SweepCovers
    <3>2. ASSUME NEW s \in Missing, lead \in {n, NoNode}
          PROVE  Promises(n, s, s + Cycle + slack)'
      <4>1. now <= s + slack /\ s \in Nat
        BY <1>0, <2>5, <3>2 DEF SweepCovers
      <4>2. wake'[n] + SweepTime <= s + Cycle + slack
        BY <1>0, <2>3, <4>1 DEF Cycle
      <4> QED
        BY <2>3, <4>2 DEF Promises
    <3> QED
      BY <2>1, <2>3, <2>5, <3>1, <3>2, SweepStepCovers
  <2>6. CASE lead = n /\ stored' = stored \union batch[n]
    <3>1. \A s \in Missing' : s \in Missing /\ s \notin batch[n] /\ s \notin stored
      BY <2>1, <2>6 DEF Missing, Settled
    <3>2. \A s \in Missing' : /\ \A t \in batch[n] : t < s
                              /\ wake[n] + SweepInterval + SweepTime <= s + Cycle + slack
      <4>1. \A s \in Missing : Promises(n, s, s + Cycle + slack)
        BY <2>6 DEF SweepCovers
      <4> QED
        BY <2>1, <3>1, <4>1 DEF Promises
    <3>3. \A t \in stored', s \in Missing' : t < s
      BY <2>6, <3>1, <3>2 DEF SweepCovers
    <3>4. ASSUME NEW s \in Missing' PROVE Promises(n, s, s + Cycle + slack)'
      <4>1. s \in Nat /\ Cycle \in Nat
        BY <1>0, <3>1 DEF Cycle
      <4>2. wake'[n] + SweepTime <= s + Cycle + slack
        BY <2>3, <3>2, <4>1
      <4> QED
        BY <2>3, <4>2 DEF Promises
    <3> QED
      BY <2>1, <2>3, <2>6, <3>3, <3>4, SweepStepCovers
  <2> QED
    BY <1>5, <1>a, <2>5, <2>6 DEF SweepWrite
<1>6. ASSUME NEW n \in Node, Acquire(n) PROVE SweepCovers(slack)'
  <2>1. lead = NoNode /\ lead' = n /\ UNCHANGED <<now, stored, sweep>> /\ n # NoNode
    BY <1>6 DEF Acquire
  <2>2. Missing' = Missing
    BY <2>1 DEF Missing, Settled
  <2> QED
    BY <2>1, <2>2 DEF SweepCovers, Timely, Promises, sweep
<1>7. CASE Tick
  <2>1. /\ now' = now + 1 /\ lead # NoNode /\ UNCHANGED <<lead, stored, spc, wake, batch>>
        /\ \A n \in Node : now < wake[n]
    BY <1>7 DEF Tick, Idle, sweep
  <2>2. Missing' \subseteq Missing \union {now + 1}
    BY <1>0, <2>1 DEF Missing, Settled, Settlement
  <2>3. lead \in Node /\ wake[lead] \in Nat /\ now + 1 <= wake[lead] /\ Cycle \in Nat
    BY <1>0, <1>b, <2>1 DEF FundingInv, TypeOK, Cycle
  <2>4. \A t \in stored', s \in Missing' : t < s
    BY <1>0, <2>1, <2>2 DEF SweepCovers
  <2>5. \A n \in Node : Timely(n, slack)'
    BY <1>0, <1>b, <2>1 DEF SweepCovers, Timely
  <2>6. \A s \in Missing' : Promises(lead, s, s + Cycle + slack)
    <3>1. \A s \in Missing : Promises(lead, s, s + Cycle + slack)
      BY <2>3 DEF SweepCovers
    <3>2. Promises(lead, now + 1, (now + 1) + Cycle + slack)
      <4>1. wake[lead] <= now + SweepTime + (IF spc[lead] = "sleep" THEN SweepInterval + slack ELSE 0)
        BY <2>3 DEF SweepCovers, Timely
      <4>2. \A t \in batch[lead] : t < now + 1
        BY <1>0, <2>3 DEF FundingInv, HeldInv
      <4>3. spc[lead] \in {"sleep", "visit", "fetch", "write"}
        BY <1>b, <2>3
      <4>4. spc[lead] = "sleep" => wake[lead] + SweepTime <= (now + 1) + Cycle + slack
        BY <1>0, <2>3, <4>1 DEF Cycle
      <4>5. spc[lead] # "sleep" => /\ wake[lead] <= (now + 1) + Cycle + slack
                                   /\ wake[lead] + SweepInterval + SweepTime <= (now + 1) + Cycle + slack
        BY <1>0, <2>3, <4>1 DEF Cycle
      <4> QED
        BY <4>2, <4>3, <4>4, <4>5 DEF Promises
    <3> QED
      BY <2>2, <3>1, <3>2
  <2>7. \A s \in Missing' : now' <= s + Cycle + slack
    <3>1. \A s \in Missing' : s \in Nat
      BY <1>0, <2>2
    <3>2. \A s \in Missing' : wake[lead] <= s + Cycle + slack
      BY <2>3, <2>6, <3>1 DEF Promises
    <3> QED
      BY <1>0, <2>1, <2>3, <3>1, <3>2
  <2>8. ASSUME NEW s \in Missing', NEW n \in Node, lead' \in {n, NoNode}
        PROVE  Promises(n, s, s + Cycle + slack)'
    <3>1. n = lead /\ Promises(n, s, s + Cycle + slack)
      BY <2>1, <2>6, <2>8
    <3> QED
      BY <2>1, <3>1 DEF Promises
  <2> QED
    BY <2>1, <2>4, <2>5, <2>7, <2>8 DEF SweepCovers
<1>8. CASE UNCHANGED vars
  BY <1>8, TableGrowsCovers DEF vars, sweep, SweepCovers, Missing, Settled
<1>9. ASSUME NEW n \in Node PROVE ~SweepFetchFails(n) /\ ~Crash(n)
  BY <1>a DEF SweepFetchFails, Crash
<1>10. ~LoseLease
  BY <1>a DEF LoseLease
<1> QED
  BY <1>1, <1>2, <1>3, <1>v, <1>4, <1>5, <1>6, <1>7, <1>8, <1>9, <1>10 DEF Next

\* Every venue but OKX and the unannounced ones announces the next settlement.
LEMMA Announces ==
    ASSUME FundingInv, venue \notin Unannounced
    PROVE  FetchFunding(venue, GoodTicker).next = NextFunding
<1>1. GoodTicker.rate = "ok" /\ GoodTicker.next = NextFunding
  BY DEF GoodTicker
<1>2. venue \in Exchange \ {"okx"}
  BY DEF FundingInv, TypeOK
<1> HIDE DEF GoodTicker
<1> QED
  BY <1>1, <1>2 DEF Unannounced, Exchange, FetchFunding, BinanceFunding, BybitFunding,
     BitgetFunding, BingxFunding, KucoinFunding, AsterFunding, Bar

\* Without a fault the polls go on covering: the leader derives each
\* settlement in its own slot and writes it before the slot ends.
LEMMA PollsStep ==
    ASSUME SweepBudget, FundingInv, venue \notin Unannounced, PollsCover,
           [Next]_vars, UNCHANGED faults
    PROVE  PollsCover'
<1>0. /\ now \in Nat /\ stored \subseteq Settled /\ Missing \subseteq Settled
      /\ \A s \in Settled : s \in Nat /\ s > 0 /\ s <= now /\ s % Interval = 0
  BY SettledFacts
<1>a. faults \in Nat /\ ~Fault
  BY DEF FundingInv, TypeOK, Fault
<1>b. cursor \in [Node -> Nat] /\ event \in [Node -> Nat] /\ polled \in [Node -> BOOLEAN]
  BY DEF FundingInv, TypeOK
<1>c. now = 1 => now \notin Missing
  BY <1>0 DEF SweepBudget, Cycle
<1>d. ASSUME UNCHANGED <<now, lead, poll>>, stored \subseteq stored' PROVE PollsCover'
  <2>1. Missing' \subseteq Missing /\ NextFunding' = NextFunding
    BY <1>d DEF Missing, Settled, NextFunding
  <2> QED
    BY <1>d, <2>1 DEF PollsCover, poll
<1>1. ASSUME NEW n \in Node, PollFetch(n) PROVE PollsCover'
  <2>1. /\ Polled(n, FetchFunding(venue, GoodTicker)) /\ event[n] = NoTime
        /\ polled' = [polled EXCEPT ![n] = TRUE] /\ UNCHANGED <<now, lead, stored>>
    BY <1>1, <1>a DEF PollFetch
  <2>2. NextFunding \in Nat /\ NextFunding > now /\ NextFunding # NoTime
    BY <1>0, NextFundingIsNext DEF FundingInv
  <2>3. /\ event' = [event EXCEPT ![n] = Derive(cursor[n], NextFunding)]
        /\ cursor' = [cursor EXCEPT ![n] = NextFunding]
    BY <2>1, <2>2, Announces DEF Polled
  <2>4. Missing' = Missing /\ NextFunding' = NextFunding
    BY <2>1 DEF Missing, Settled, NextFunding
  <2>5. ASSUME NEW m \in Node
        PROVE  /\ polled'[m] => cursor'[m] = NextFunding
               /\ ~polled'[m] /\ now > 1 => cursor'[m] = IF now % Interval = 0 THEN now ELSE NextFunding
    BY <1>b, <2>1, <2>3 DEF PollsCover
  <2>6. ASSUME NEW m \in Node, lead = m, polled'[m], now \in Missing PROVE event'[m] = now
    <3>1. CASE m # n
      BY <1>b, <2>1, <2>3, <2>6, <3>1 DEF PollsCover
    <3>2. CASE m = n
      <4>1. now # NoTime /\ now > 1 /\ now % Interval = 0
        BY <1>0, <1>c, <2>6
      <4>2. ~polled[n]
        BY <2>1, <2>6, <3>2, <4>1 DEF PollsCover
      <4>3. cursor[n] = now
        BY <4>1, <4>2 DEF PollsCover
      <4>4. Derive(cursor[n], NextFunding) = now
        BY <2>2, <4>1, <4>3 DEF Derive
      <4> QED
        BY <1>b, <2>3, <3>2, <4>4
    <3> QED
      BY <3>1, <3>2
  <2> QED
    BY <2>1, <2>4, <2>5, <2>6 DEF PollsCover
<1>2. ASSUME NEW n \in Node, PollWrite(n) PROVE PollsCover'
  <2>1. /\ UNCHANGED <<now, lead, cursor, polled>> /\ stored \subseteq stored'
        /\ event' = [event EXCEPT ![n] = NoTime]
        /\ lead = n => event[n] \in stored'
    BY <1>2, <1>a DEF PollWrite
  <2>2. Missing' \subseteq Missing /\ NextFunding' = NextFunding /\ (lead = n => event[n] \notin Missing')
    BY <2>1 DEF Missing, Settled, NextFunding
  <2>3. ASSUME NEW m \in Node, lead = m, polled[m], now \in Missing' PROVE event'[m] = now
    <3>1. event[m] = now
      BY <2>2, <2>3 DEF PollsCover
    <3>2. m # n
      BY <2>2, <2>3, <3>1
    <3> QED
      BY <1>b, <2>1, <3>1, <3>2
  <2> QED
    BY <2>1, <2>2, <2>3 DEF PollsCover
<1>3. ASSUME NEW n \in Node, SweepWakes(n) \/ SweepVisits(n) \/ SweepFetch(n) \/ SweepWrite(n)
      PROVE  PollsCover'
  BY <1>3, <1>d DEF SweepWakes, SweepVisits, SweepFetch, SweepWrite
<1>4. ASSUME NEW n \in Node, Acquire(n) PROVE PollsCover'
  <2>1. lead = NoNode /\ UNCHANGED <<now, stored, cursor, event, polled>>
    BY <1>4 DEF Acquire, poll
  <2>2. now = 1 /\ Missing' = Missing /\ NextFunding' = NextFunding
    BY <2>1 DEF PollsCover, Missing, Settled, NextFunding
  <2> QED
    BY <1>c, <2>1, <2>2 DEF PollsCover
<1>5. CASE Tick
  <2>1. /\ now' = now + 1 /\ lead # NoNode /\ UNCHANGED <<lead, stored, cursor, event>>
        /\ polled' = [n \in Node |-> FALSE]
        /\ \A n \in Node : polled[n] /\ event[n] = NoTime
    BY <1>5 DEF Tick, Idle
  <2>2. lead \in Node
    BY <2>1 DEF FundingInv, TypeOK
  <2>3. Missing = {}
    <3>1. now # NoTime
      BY DEF FundingInv, TypeOK
    <3>2. now \notin Missing
      BY <2>1, <2>2, <3>1 DEF PollsCover
    <3> QED
      BY <3>2 DEF PollsCover
  <2>4. Missing' \subseteq {now'}
    BY <1>0, <2>1, <2>3 DEF Missing, Settled, Settlement
  <2>5. NextFunding = IF now' % Interval = 0 THEN now' ELSE NextFunding'
    BY <2>1, AnnouncedNext DEF FundingInv
  <2>6. \A n \in Node : cursor'[n] = NextFunding /\ ~polled'[n]
    BY <2>1 DEF PollsCover
  <2> QED
    BY <2>1, <2>4, <2>5, <2>6 DEF PollsCover
<1>6. CASE UNCHANGED vars
  BY <1>6, <1>d DEF vars
<1>7. ASSUME NEW n \in Node PROVE ~PollFails(n) /\ ~SweepFetchFails(n) /\ ~Crash(n)
  BY <1>a DEF PollFails, SweepFetchFails, Crash
<1>8. ~LoseLease
  BY <1>a DEF LoseLease
<1> QED
  BY <1>1, <1>2, <1>3, <1>4, <1>5, <1>6, <1>7, <1>8 DEF Next

-----------------------------------------------------------------------------
(* The fault.                                                              *)

\* What a fault costs: nothing is stored, no time passes, and a sweep starts
\* again a cycle later at the latest - unless its call was refused.
LEMMA FaultCosts ==
    ASSUME FundingInv, SweepCovers(0), [Next]_vars, faults' # faults
    PROVE  /\ UNCHANGED <<venue, now, stored>>
           /\ \A n \in Node :
                 \/ Timely(n, 0)'
                 \/ /\ spc'[n] = "sleep" /\ wake'[n] <= now + SweepTime + Cooldown
                    /\ SweepFetchFails(n)
<1>a. now \in Nat /\ faults \in Nat /\ spc \in [Node -> {"sleep", "visit", "fetch", "write"}]
      /\ wake \in [Node -> Nat]
  BY DEF FundingInv, TypeOK
<1>b. \A n \in Node : Timely(n, 0)
  BY DEF SweepCovers
<1>c. ASSUME NEW n \in Node, NEW slots \in Nat, now' = now,
             Sleep(n, slots) \/ (spc[n] # "sleep" /\ SleepAfterSweep(n, slots))
      PROVE  /\ spc'[n] = "sleep" /\ wake'[n] \in Nat /\ wake'[n] <= now + SweepTime + slots
             /\ \A m \in Node \ {n} : Timely(m, 0)'
  <2>1. wake[n] \in Nat /\ (spc[n] # "sleep" => wake[n] <= now + SweepTime)
    BY <1>a, <1>b DEF Timely
  <2>2. PICK to \in {now + slots, wake[n] + slots} :
            /\ SleepsUntil(n, now, to)
            /\ to = now + slots \/ spc[n] # "sleep"
    BY <1>c, SleepEffect DEF FundingInv
  <2>3. to \in Nat /\ to <= now + SweepTime + slots
    BY <1>a, <2>1, <2>2
  <2>4. PICK w \in now..to : wake' = [wake EXCEPT ![n] = w]
    BY <2>2 DEF SleepsUntil
  <2>5. spc' = [spc EXCEPT ![n] = "sleep"]
    BY <2>2 DEF SleepsUntil
  <2>6. w \in Nat /\ w <= now + SweepTime + slots
    BY <1>a, <2>3
  <2>7. \A m \in Node \ {n} : Timely(m, 0)'
    BY <1>a, <1>b, <1>c, <2>4, <2>5 DEF Timely
  <2> QED
    BY <1>a, <2>4, <2>5, <2>6, <2>7
<1>d. ASSUME NEW n \in Node, now' = now,
             \/ Sleep(n, 0)
             \/ Sleep(n, SweepInterval)
             \/ spc[n] # "sleep" /\ SleepAfterSweep(n, SweepInterval)
      PROVE  \A m \in Node : Timely(m, 0)'
  <2>1. PICK slots \in {0, SweepInterval} :
            Sleep(n, slots) \/ (spc[n] # "sleep" /\ SleepAfterSweep(n, slots))
    BY <1>d
  <2>2. slots \in Nat /\ slots <= SweepInterval
    BY <2>1
  <2>3. /\ spc'[n] = "sleep" /\ wake'[n] \in Nat /\ wake'[n] <= now + SweepTime + slots
        /\ \A m \in Node \ {n} : Timely(m, 0)'
    BY <1>c, <1>d, <2>1, <2>2
  <2>4. Timely(n, 0)'
    BY <1>a, <1>d, <2>2, <2>3 DEF Timely
  <2> QED
    BY <2>3, <2>4
<1>e. ASSUME NEW n \in Node, NEW where \in {"fetch", "write"}, now' = now, UNCHANGED wake,
             spc[n] # "sleep", spc' = [spc EXCEPT ![n] = where]
      PROVE  \A m \in Node : Timely(m, 0)'
  BY <1>a, <1>b, <1>e DEF Timely
<1>1. ASSUME NEW n \in Node, PollFetch(n) \/ PollFails(n) \/ PollWrite(n)
      PROVE  UNCHANGED <<venue, now, spc, wake>> /\ (faults' # faults => UNCHANGED stored)
  BY <1>1 DEF PollFetch, PollFails, PollWrite, sweep
<1>2. ASSUME NEW n \in Node, SweepVisits(n)
      PROVE  UNCHANGED <<venue, now, stored>> /\ \A m \in Node : Timely(m, 0)'
  <2>1. \/ SleepAfterSweep(n, SweepInterval)
        \/ spc' = [spc EXCEPT ![n] = "fetch"] /\ UNCHANGED wake
    BY <1>2 DEF SweepVisits
  <2>2. UNCHANGED <<venue, now, stored>> /\ spc[n] = "visit"
    BY <1>2 DEF SweepVisits
  <2> QED
    BY <1>d, <1>e, <2>1, <2>2
<1>3. ASSUME NEW n \in Node, SweepFetch(n)
      PROVE  UNCHANGED <<venue, now, stored>> /\ \A m \in Node : Timely(m, 0)'
  <2>1. \/ SleepAfterSweep(n, SweepInterval)
        \/ spc' = [spc EXCEPT ![n] = "write"] /\ UNCHANGED wake
    BY <1>3 DEF SweepFetch
  <2>2. UNCHANGED <<venue, now, stored>> /\ spc[n] = "fetch"
    BY <1>3 DEF SweepFetch
  <2> QED
    BY <1>d, <1>e, <2>1, <2>2
<1>4. ASSUME NEW n \in Node, SweepFetchFails(n)
      PROVE  /\ UNCHANGED <<venue, now, stored>>
             /\ \A m \in Node :
                   \/ Timely(m, 0)'
                   \/ /\ spc'[m] = "sleep" /\ wake'[m] <= now + SweepTime + Cooldown
                      /\ SweepFetchFails(m)
  <2>1. UNCHANGED <<venue, now, stored>> /\ spc[n] = "fetch"
        /\ (SleepAfterSweep(n, SweepInterval) \/ SleepAfterSweep(n, Cooldown))
    BY <1>4 DEF SweepFetchFails
  <2>2. CASE SleepAfterSweep(n, Cooldown)
    <3>1. /\ spc'[n] = "sleep" /\ wake'[n] <= now + SweepTime + Cooldown
          /\ \A m \in Node \ {n} : Timely(m, 0)'
      BY <1>c, <2>1, <2>2
    <3> QED
      BY <1>4, <2>1, <3>1
  <2> QED
    BY <1>d, <2>1, <2>2
<1>5. ASSUME NEW n \in Node, SweepWrite(n), faults' # faults
      PROVE  UNCHANGED <<venue, now, stored>> /\ \A m \in Node : Timely(m, 0)'
  <2>1. UNCHANGED <<venue, now, stored>> /\ spc[n] = "write" /\ SleepAfterSweep(n, SweepInterval)
    BY <1>5 DEF SweepWrite
  <2> QED
    BY <1>d, <2>1
<1>6. ASSUME NEW n \in Node, Crash(n)
      PROVE  UNCHANGED <<venue, now, stored>> /\ \A m \in Node : Timely(m, 0)'
  <2>1. UNCHANGED <<venue, now, stored>> /\ Sleep(n, 0)
    BY <1>6 DEF Crash
  <2> QED
    BY <1>d, <2>1
<1>7. CASE LoseLease
  BY <1>7, <1>b DEF LoseLease, sweep, Timely
<1>8. ASSUME NEW n \in Node PROVE ~Acquire(n) /\ ~SweepWakes(n)
  BY DEF Acquire, SweepWakes
<1>9. ~Tick /\ ~UNCHANGED vars
  BY DEF Tick, vars
<1>10. ASSUME UNCHANGED <<now, spc, wake>> PROVE \A m \in Node : Timely(m, 0)'
  BY <1>b, <1>10 DEF Timely
<1> QED
  BY <1>1, <1>2, <1>3, <1>4, <1>5, <1>6, <1>7, <1>8, <1>9, <1>10 DEF Next

\* One fault costs the sweep as much slack as is missing already: none where
\* the polls had everything stored, the cooldown and the sweeps around it
\* otherwise.
LEMMA FaultCovers ==
    ASSUME SweepBudget, FundingInv, FundingInv', SweepCovers(0), NEW slack \in Nat,
           \A s \in Missing : now <= s + slack,
           slack = Cooldown + 2 * SweepTime \/ \A n \in Node : ~SweepFetchFails(n),
           [Next]_vars, faults' # faults
    PROVE  SweepCovers(slack)'
<1>0. /\ now \in Nat /\ Missing \subseteq Settled /\ Cycle \in Nat
      /\ \A s \in Settled : s \in Nat /\ s <= now
  BY SettledFacts DEF Cycle
<1>1. UNCHANGED <<now, stored>> /\ Missing' = Missing /\ Settled' = Settled
  BY FaultCosts DEF Missing, Settled
<1>2. \A s \in Missing : s \in Nat /\ now <= s + Cycle /\ now <= s + slack
  BY <1>0 DEF SweepCovers
<1>3. spc' \in [Node -> {"sleep", "visit", "fetch", "write"}] /\ wake' \in [Node -> Nat]
      /\ \A n \in Node : batch'[n] \subseteq Settled
  BY <1>1 DEF FundingInv, TypeOK, HeldInv
<1>4. ASSUME NEW n \in Node, spc'[n] = "sleep"
      PROVE  /\ wake'[n] <= now + SweepTime + SweepInterval + slack
             /\ \A s \in Missing : wake'[n] + SweepTime <= s + Cycle + slack
  <2>1. CASE Timely(n, 0)'
    BY <1>0, <1>1, <1>2, <1>3, <1>4, <2>1 DEF Timely, Cycle
  <2>2. CASE wake'[n] <= now + SweepTime + Cooldown /\ slack = Cooldown + 2 * SweepTime
    BY <1>0, <1>2, <1>3, <2>2 DEF Cycle
  <2> QED
    BY <1>4, <2>1, <2>2, FaultCosts
<1>5. ASSUME NEW n \in Node, spc'[n] # "sleep"
      PROVE  /\ wake'[n] <= now + SweepTime
             /\ \A s \in Missing : /\ wake'[n] <= s + Cycle + slack
                                   /\ wake'[n] + SweepInterval + SweepTime <= s + Cycle + slack
  <2>1. Timely(n, 0)'
    BY <1>5, FaultCosts
  <2>2. wake'[n] <= now + SweepTime
    BY <1>1, <1>0, <1>3, <1>5, <2>1 DEF Timely
  <2> QED
    BY <1>0, <1>2, <1>3, <2>2 DEF Cycle
<1>6. ASSUME NEW n \in Node PROVE Timely(n, slack)'
  BY <1>0, <1>1, <1>3, <1>4, <1>5 DEF Timely
<1>7. ASSUME NEW s \in Missing, NEW n \in Node
      PROVE  Promises(n, s, s + Cycle + slack)'
  <2>1. spc'[n] \in {"sleep", "visit", "fetch", "write"}
    BY <1>3
  <2>2. \A t \in batch'[n] : t = s \/ t < s
    BY <1>0, <1>2, <1>3, MissingIsNewest
  <2>3. s \in batch'[n] \/ \A t \in batch'[n] : t < s
    BY <2>2
  <2> QED
    BY <1>4, <1>5, <2>1, <2>3 DEF Promises
<1>8. \A s \in Missing : now <= s + Cycle + slack
  BY <1>0, <1>2
<1>9. \A t \in stored, s \in Missing : t < s
  BY DEF SweepCovers
<1> QED
  BY <1>1, <1>2, <1>6, <1>7, <1>8, <1>9 DEF SweepCovers

\* A refused sweep is nothing to the polls.
LEMMA PollsUnimpressed ==
    ASSUME NEW n \in Node, SweepFetchFails(n), PollsCover
    PROVE  PollsCover'
<1>1. UNCHANGED <<now, lead, stored, cursor, event, polled>>
  BY DEF SweepFetchFails, poll
<1>2. Missing' = Missing /\ NextFunding' = NextFunding
  BY <1>1 DEF Missing, Settled, NextFunding
<1> QED
  BY <1>1, <1>2 DEF PollsCover

\* No poll of an unannounced venue derives an event.
LEMMA NothingDerived ==
    ASSUME FundingInv, venue \in Unannounced, [Next]_vars,
           \A n \in Node : cursor[n] = NoTime /\ event[n] = NoTime
    PROVE  \A n \in Node : cursor'[n] = NoTime /\ event'[n] = NoTime
<1>0. cursor \in [Node -> Nat] /\ event \in [Node -> Nat]
  BY DEF FundingInv, TypeOK
<1>1. ASSUME NEW n \in Node, PollFetch(n) PROVE UNCHANGED <<cursor, event>>
  <2>1. \A r : FetchFunding(venue, r).next = NoTime
    BY DEF Unannounced, FetchFunding, HyperliquidFunding, MexcFunding, Bar, NoBar
  <2> QED
    BY <1>1, <2>1 DEF PollFetch, Polled
<1>2. ASSUME NEW n \in Node, PollFails(n) \/ SweepWakes(n) \/ SweepVisits(n) \/ SweepFetch(n)
                             \/ SweepFetchFails(n) \/ SweepWrite(n) \/ Acquire(n)
      PROVE  UNCHANGED <<cursor, event>>
  BY <1>2 DEF PollFails, SweepWakes, SweepVisits, SweepFetch, SweepFetchFails, SweepWrite, Acquire, poll
<1>3. ASSUME NEW n \in Node, Crash(n) PROVE \A m \in Node : cursor'[m] = NoTime /\ event'[m] = NoTime
  BY <1>0, <1>3 DEF Crash
<1>4. ASSUME NEW n \in Node PROVE ~PollWrite(n)
  BY DEF PollWrite
<1>5. CASE LoseLease \/ Tick \/ UNCHANGED vars
  BY <1>5 DEF LoseLease, Tick, vars, poll
<1> QED
  BY <1>1, <1>2, <1>3, <1>4, <1>5 DEF Next

\* Each step keeps the cover that is due.
LEMMA CycleStep ==
    ASSUME SweepBudget, FundingInv, CycleInv, [Next]_vars
    PROVE  CycleInv'
<1>1. FundingInv' /\ SinceKnown' /\ SinceKnown
  BY FundingStep, SinceStep DEF CycleInv
<1>2. faults \in Nat /\ (faults' = faults \/ faults' = faults + 1) /\ venue' = venue
  <2>1. UNCHANGED faults \/ Fault
    BY DEF Next, PollFetch, PollFails, PollWrite, SweepWakes, SweepVisits, SweepFetch, SweepFetchFails,
           SweepWrite, Acquire, Crash, LoseLease, Tick, vars
  <2>2. UNCHANGED venue
    BY DEF Next, PollFetch, PollFails, PollWrite, SweepWakes, SweepVisits, SweepFetch, SweepFetchFails,
           SweepWrite, Acquire, Crash, LoseLease, Tick, vars
  <2> QED
    BY <2>1, <2>2 DEF Fault, FundingInv, TypeOK
<1> SUFFICES ASSUME faults' <= 1
             PROVE  IF venue \in Unannounced
                    THEN /\ \A n \in Node : cursor'[n] = NoTime /\ event'[n] = NoTime
                         /\ SweepCovers(Slack)'
                    ELSE IF faults' = 0 THEN SweepCovers(0)' /\ PollsCover'
                         ELSE SweepCovers(0)' \/ PollsCover'
  BY <1>1, <1>2 DEF CycleInv
<1>3. CASE faults' = faults
  <2>1. CASE venue \in Unannounced
    <3> DEFINE slack == Slack
    <3>1. SweepCovers(slack) /\ \A n \in Node : cursor[n] = NoTime /\ event[n] = NoTime
      BY <1>2, <1>3, <2>1 DEF CycleInv
    <3>2. slack \in Nat /\ slack' = slack
      BY <1>3 DEF Slack
    <3> HIDE DEF slack
    <3>3. SweepCovers(slack)'
      BY <1>1, <1>3, <3>1, <3>2, CoverStep
    <3> QED
      BY <2>1, <3>1, <3>3, NothingDerived DEF slack
  <2>2. CASE venue \notin Unannounced
    <3>1. SweepCovers(0) => SweepCovers(0)'
      BY <1>1, <1>3, CoverStep
    <3>2. PollsCover => PollsCover'
      BY <1>3, <2>2, PollsStep
    <3> QED
      BY <1>2, <1>3, <2>2, <3>1, <3>2 DEF CycleInv
  <2> QED
    BY <2>1, <2>2
<1>4. CASE faults' = faults + 1
  <2>0. faults = 0 /\ faults' = 1 /\ faults' # faults
    BY <1>2, <1>4
  <2>1. CASE venue \in Unannounced
    <3>1. SweepCovers(0) /\ \A n \in Node : cursor[n] = NoTime /\ event[n] = NoTime
      BY <2>0, <2>1 DEF CycleInv, Slack
    <3> DEFINE slack == Cooldown + 2 * SweepTime
    <3>2. slack \in Nat /\ \A s \in Missing : now <= s + slack
      <4>1. /\ now \in Nat /\ \A s \in Missing : s \in Nat
        BY SettledFacts
      <4> QED
        BY <3>1, <4>1 DEF SweepCovers, SweepBudget, Cycle
    <3>3. SweepCovers(slack)'
      BY <1>1, <2>0, <3>1, <3>2, FaultCovers
    <3>4. Slack' = slack
      BY <2>0 DEF Slack
    <3> QED
      BY <2>0, <2>1, <3>1, <3>3, <3>4, NothingDerived
  <2>2. CASE venue \notin Unannounced
    <3>1. SweepCovers(0) /\ PollsCover
      BY <2>0, <2>2 DEF CycleInv
    <3>2. CASE \E n \in Node : SweepFetchFails(n)
      BY <2>0, <2>2, <3>1, <3>2, PollsUnimpressed
    <3>3. CASE \A n \in Node : ~SweepFetchFails(n)
      <4>1. \A s \in Missing : now <= s + 0
        <5>1. now \in Nat /\ Missing \subseteq {now}
          BY <3>1, SettledFacts DEF PollsCover
        <5> QED
          BY <5>1
      <4>2. SweepCovers(0)'
        BY <1>1, <2>0, <3>1, <3>3, <4>1, FaultCovers
      <4> QED
        BY <2>0, <2>2, <4>2
    <3> QED
      BY <3>2, <3>3
  <2> QED
    BY <2>1, <2>2
<1> QED
  BY <1>2, <1>3, <1>4

\* While there has been one fault at most, whatever it was, no settlement is
\* more than one sweep cycle late, or a cycle and a cooldown with its sweeps
\* where the venue announces nothing: for any number of nodes, any intervals
\* within SweepBudget and any duration of a sweep, OKX's announcements apart.
THEOREM OneCycleLate ==
    ASSUME SweepBudget, "okx" \notin Venue
    PROVE  Spec => [](faults <= 1 => StoredWithinOneCycle)
<1>1. Init => CycleInv
  <2> SUFFICES ASSUME Init PROVE CycleInv
    OBVIOUS
  <2>1. Settled = {}
    <3>1. 1 % Interval = 1
      BY DEF SweepBudget, Cycle
    <3> QED
      BY <3>1 DEF Init, Settled, Settlement
  <2>2. Missing = {}
    BY <2>1 DEF Missing
  <2>3. SinceKnown /\ faults = 0
    BY DEF Init, SinceKnown
  <2>4. SweepCovers(0)
    BY <2>2 DEF Init, SweepCovers, Timely
  <2>5. PollsCover
    BY <2>2 DEF Init, PollsCover
  <2>6. \A n \in Node : cursor[n] = NoTime /\ event[n] = NoTime
    BY DEF Init
  <2> QED
    BY <2>3, <2>4, <2>5, <2>6 DEF CycleInv, Slack
<1>2. FundingInv /\ CycleInv => (faults <= 1 => StoredWithinOneCycle)
  <2> SUFFICES ASSUME FundingInv, CycleInv, faults <= 1 PROVE StoredWithinOneCycle
    OBVIOUS
  <2>0. \A s \in Settled : s \in Nat /\ now \in Nat
    BY SettledFacts
  <2> SUFFICES ASSUME NEW s \in Settled, s \notin stored
               PROVE  now <= s + Cycle
                               + (IF venue \in Unannounced /\ faults > 0
                                  THEN Cooldown + 2 * SweepTime ELSE 0)
    BY <2>0 DEF StoredWithinOneCycle, Cycle
  <2>1. s \in Missing /\ s \in Nat /\ now \in Nat /\ faults \in Nat /\ Cycle \in Nat
    BY SettledFacts DEF Missing, FundingInv, TypeOK, Cycle
  <2>2. ASSUME NEW slack \in Nat, SweepCovers(slack) PROVE now <= s + Cycle + slack
    BY <2>1, <2>2 DEF SweepCovers
  <2>3. PollsCover => now = s
    BY <2>1 DEF PollsCover
  <2>4. CASE venue \in Unannounced /\ faults > 0
    BY <2>1, <2>2, <2>4 DEF CycleInv, Slack
  <2>5. CASE venue \in Unannounced /\ faults = 0
    BY <2>1, <2>2, <2>5 DEF CycleInv, Slack
  <2>6. CASE venue \notin Unannounced
    <3>1. SweepCovers(0) \/ PollsCover
      BY <2>1, <2>6 DEF CycleInv
    <3> QED
      BY <2>1, <2>2, <2>3, <2>6, <3>1
  <2> QED
    BY <2>1, <2>4, <2>5, <2>6
<1>3. FundingInv /\ CycleInv /\ [Next]_vars => CycleInv'
  BY CycleStep
<1> QED
  BY <1>1, <1>2, <1>3, FundingInvariant, PTL DEF Spec
=============================================================================
