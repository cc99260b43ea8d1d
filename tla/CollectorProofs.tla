-------------------------- MODULE CollectorProofs --------------------------
(***************************************************************************)
(* TLAPS proofs about one exchange of the collector: no bar mixes minutes  *)
(* or instruments, a polled instrument's minute is stored, complete, once  *)
(* it was fetched, and its history has no holes.                           *)
(***************************************************************************)
EXTENDS Collector, FiniteSetTheorems, TLAPS

USE CollectorAssumption

-----------------------------------------------------------------------------
(* The inductive invariant.                                                *)

Samples(i, m) == {s \in got : s.inst = i /\ s.bucket = m}

\* The sleep lasts until the deadline of the tick, so a polled sample is never
\* older than the deadline of its minute.
DeadlineInv ==
    /\ pc = "sleep" => wake = Deadline(last)
    /\ pc \in {"fetch", "observe"} => now >= Deadline(last)
    /\ \A s \in got : s.inst \notin Live => s.at >= Deadline(s.bucket)

\* A polled instrument has at most one sample per minute, taken by the tick of
\* that minute; its bar lives from that sample to the flush of the same
\* iteration, and its row is written by that iteration.
RestInv ==
    /\ \A s \in got : s.inst \notin Live =>
          /\ s.bucket <= last
          /\ s.bucket = last => pc \in {"next", "observe", "remove"}
          /\ s.bucket = last /\ pc = "observe" => s.inst \notin rest
    /\ \A i \in Instrument \ Live : bars[i] # NoBar =>
          /\ pc \in {"observe", "remove"}
          /\ bars[i].bucket = last
          /\ bars[i].ids = Samples(i, last) /\ bars[i].ids # {}
          /\ pc = "remove" => i \in keys
    /\ pc # "remove" => out = {}
    /\ \A r \in out : r[1] \notin Live =>
          r[2].bucket = last /\ r[2].ids = Samples(r[1], last) /\ r[2].ids # {}
    /\ \A r \in store : r.inst \notin Live =>
          r.bucket <= last /\ (r.bucket = last => pc = "next") /\ r.ids # {}

\* Where the minute of a fetched sample is on its way to the store.
OnItsWay(f) ==
    /\ f[2] = last
    /\ \/ pc \in {"observe", "remove"} /\ bars[f[1]] # NoBar
       \/ pc = "remove" /\ \E r \in out : r[1] = f[1] /\ r[2].bucket = last

FetchedInv ==
    /\ fetched \subseteq Instrument \X Int
    /\ \A f \in fetched :
        \/ f[1] \in Live
        \/ f \in failed
        \/ OnItsWay(f)
        \/ \E r \in store : r.inst = f[1] /\ r.bucket = f[2]

\* The tick of this minute has not heard from the venue about i yet.
Pending(i, m) ==
    /\ m = last
    /\ pc \in {"sleep", "fetch"} \/ (pc = "observe" /\ i \in rest)

\* Every minute since the first tick was asked for: it is pending, fetched or
\* missed.
HistoryInv ==
    /\ first = NoMinute <=> last = NoMinute
    /\ \A i \in Instrument \ Live, m \in first..last :
          first = NoMinute \/ <<i, m>> \in fetched \union missed \/ Pending(i, m)

CollectorInv ==
    /\ TypeOK /\ DeadlineInv /\ NoMinutesMixed
    /\ RestInv /\ RestRowComplete /\ FetchedInv /\ HistoryInv
-----------------------------------------------------------------------------
(* Types and deadlines.                                                    *)

\* The clock's minute, from the first minute on.
LEMMA MinuteOfClock ==
    ASSUME NEW t \in Nat, t >= MinuteLen PROVE Minute(t) \in Nat /\ Minute(t) >= 1
BY DEF Minute

\* What a sample does to the aggregator: it starts a bar, or joins the bar of
\* its own minute (or is taken for a repeat); no other bar changes.
LEMMA SampleEffect ==
    ASSUME TypeOK, NEW i \in Instrument, NEW m \in Nat, Sample(i, m)
    PROVE  \E s \in SampleType :
             /\ s.inst = i /\ s.bucket = m /\ s.at = now
             /\ got' = got \union {s} /\ IsFiniteSet(got')
             /\ bars' \in [Instrument -> BarType]
             /\ \A j \in Instrument \ {i} : bars'[j] = bars[j]
             /\ bars'[i] # NoBar /\ bars'[i].bucket = m
             /\ \/ (bars[i] = NoBar \/ bars[i].bucket # m) /\ bars'[i].ids = {s}
                \/ /\ bars[i] # NoBar /\ bars[i].bucket = m
                   /\ bars'[i].ids \in {bars[i].ids, bars[i].ids \union {s}}
<1>1. PICK r \in BOOLEAN :
        LET s == [inst |-> i, bucket |-> m, at |-> now, n |-> Cardinality(got)]
        IN  got' = got \union {s} /\ bars' = [bars EXCEPT ![i] = Observe(@, s, r)]
  BY DEF Sample
<1> DEFINE s == [inst |-> i, bucket |-> m, at |-> now, n |-> Cardinality(got)]
<1>2. s \in SampleType /\ s.inst = i /\ s.bucket = m /\ s.at = now /\ s.at \in Nat
  BY FS_CardinalityType DEF SampleType, TypeOK
<1> HIDE DEF s
<1>3. bars[i] \in BarType
  BY DEF TypeOK
<1>4. Start(s) \in BarType /\ Start(s).bucket = m /\ Start(s).ids = {s}
  BY <1>2 DEF BarType, Start
<1> DEFINE c == [bars[i] EXCEPT !.ids = @ \union {s}, !.last = s.at]
<1>6. c \in BarType /\ c.bucket = bars[i].bucket /\ c.ids = bars[i].ids \union {s}
  BY <1>2, <1>3 DEF BarType
<1>5. \/ (bars[i] = NoBar \/ bars[i].bucket # m) /\ Observe(bars[i], s, r) = Start(s)
      \/ bars[i] # NoBar /\ bars[i].bucket = m /\ Observe(bars[i], s, r) \in {bars[i], c}
  BY <1>2 DEF Observe
<1> HIDE DEF c
<1>7. got' = got \union {s} /\ bars' = [bars EXCEPT ![i] = Observe(bars[i], s, r)]
  BY <1>1 DEF s
<1>8. IsFiniteSet(got')
  BY <1>7, FS_AddElement DEF TypeOK
<1>9. Observe(bars[i], s, r) \in BarType
  BY <1>3, <1>4, <1>5, <1>6
<1>10. bars' \in [Instrument -> BarType] /\ bars'[i] = Observe(bars[i], s, r)
       /\ \A j \in Instrument \ {i} : bars'[j] = bars[j]
  BY <1>7, <1>9 DEF TypeOK
<1>11. \A x : x.bucket = m => x # NoBar
  BY DEF NoBar, NoMinute
<1>12. Observe(bars[i], s, r).bucket = m
  BY <1>4, <1>5, <1>6
<1>13. \/ (bars[i] = NoBar \/ bars[i].bucket # m) /\ bars'[i].ids = {s}
       \/ /\ bars[i] # NoBar /\ bars[i].bucket = m
          /\ bars'[i].ids \in {bars[i].ids, bars[i].ids \union {s}}
  BY <1>4, <1>5, <1>6, <1>10
<1> QED
  BY <1>2, <1>7, <1>8, <1>10, <1>11, <1>12, <1>13

\* Every step keeps the types.
LEMMA TypesStep == ASSUME TypeOK, [Next]_vars PROVE TypeOK'
<1> USE DEF loop, flush, schedule, TypeOK
<1>1. CASE NextTick
  <2>1. last' \in Nat
    BY <1>1, MinuteOfClock DEF NextTick, Plan, NoMinute
  <2>2. wake' \in Int
    BY <1>1, <2>1 DEF NextTick, Deadline
  <2> QED
    BY <1>1, <2>1, <2>2 DEF NextTick, NoMinute
<1>2. CASE Wake
  BY <1>2 DEF Wake
<1>3. CASE FetchOk
  BY <1>3 DEF FetchOk
<1>4. CASE FetchErr
  BY <1>4 DEF FetchErr
<1>5. ASSUME NEW i \in Instrument, ObserveRest(i) PROVE TypeOK'
  BY <1>5, SampleEffect DEF ObserveRest
<1>6. ASSUME NEW i \in Instrument, Remove(i) PROVE TypeOK'
  <2>1. NoBar \in BarType
    BY DEF NoBar, BarType, NoMinute
  <2> QED
    BY <1>6, <2>1 DEF Remove
<1>7. ASSUME NEW i \in Instrument, WsFrame(i) PROVE TypeOK'
  BY <1>7, SampleEffect, MinuteOfClock DEF WsFrame
<1>8. CASE Collect
  BY <1>8 DEF Collect
<1>9. CASE Write
  <2>1. Rows \subseteq [inst : Instrument, bucket : Int, ids : SUBSET SampleType]
    BY DEF Rows, BarType
  <2> QED
    BY <1>9, <2>1 DEF Write
<1>10. CASE WriteErr
  BY <1>10 DEF WriteErr
<1>11. CASE Tick
  BY <1>11 DEF Tick
<1>12. CASE UNCHANGED vars
  BY <1>12 DEF vars
<1> QED
  BY <1>1, <1>2, <1>3, <1>4, <1>5, <1>6, <1>7, <1>8, <1>9, <1>10, <1>11, <1>12 DEF Next

\* Every step keeps the deadlines.
LEMMA DeadlineStep == ASSUME TypeOK, DeadlineInv, [Next]_vars PROVE DeadlineInv'
<1> USE DEF loop, flush, schedule, TypeOK
<1>1. CASE NextTick
  BY <1>1 DEF NextTick, DeadlineInv
<1>2. CASE Wake
  BY <1>2 DEF Wake, DeadlineInv
<1>3. CASE Tick
  <2>1. pc \in {"fetch", "observe"} => Deadline(last) \in Int
    BY DEF Deadline
  <2> QED
    BY <1>3, <2>1 DEF Tick, DeadlineInv
<1>4. CASE FetchOk \/ FetchErr \/ Collect \/ Write \/ WriteErr
  BY <1>4 DEF FetchOk, FetchErr, Collect, Write, WriteErr, DeadlineInv
<1>5. ASSUME NEW i \in Instrument, ObserveRest(i) PROVE DeadlineInv'
  <2>1. pc = "observe" /\ Sample(i, last) /\ last \in Nat /\ UNCHANGED <<pc, last, now, wake>>
    BY <1>5 DEF ObserveRest
  <2>2. PICK s \in SampleType : s.bucket = last /\ s.at = now /\ got' = got \union {s}
    BY <2>1, SampleEffect
  <2>3. s.at >= Deadline(s.bucket)
    BY <2>1, <2>2 DEF DeadlineInv
  <2> QED
    BY <2>1, <2>2, <2>3 DEF DeadlineInv
<1>6. ASSUME NEW i \in Instrument, WsFrame(i) PROVE DeadlineInv'
  <2>1. i \in Live /\ Minute(now) \in Nat /\ Sample(i, Minute(now)) /\ UNCHANGED <<pc, last, now, wake>>
    BY <1>6, MinuteOfClock DEF WsFrame
  <2>2. PICK s \in SampleType : s.inst = i /\ got' = got \union {s}
    BY <2>1, SampleEffect
  <2> QED
    BY <2>1, <2>2 DEF DeadlineInv
<1>7. ASSUME NEW i \in Instrument, Remove(i) PROVE DeadlineInv'
  BY <1>7 DEF Remove, DeadlineInv
<1>8. CASE UNCHANGED vars
  BY <1>8 DEF vars, DeadlineInv
<1> QED
  BY <1>1, <1>2, <1>3, <1>4, <1>5, <1>6, <1>7, <1>8 DEF Next

-----------------------------------------------------------------------------
(* Bars and rows.                                                          *)

\* Every step keeps bars and rows free of foreign samples.
LEMMA MixedStep == ASSUME TypeOK, NoMinutesMixed, [Next]_vars PROVE NoMinutesMixed'
<1> USE DEF loop, flush, schedule, NoMinutesMixed
<1>1. ASSUME NEW i \in Instrument, NEW m \in Nat, Sample(i, m), UNCHANGED <<out, store>>
      PROVE  NoMinutesMixed'
  <2>1. PICK s \in SampleType :
             /\ s.inst = i /\ s.bucket = m
             /\ \A j \in Instrument \ {i} : bars'[j] = bars[j]
             /\ bars'[i].bucket = m
             /\ \/ bars'[i].ids = {s}
                \/ bars[i].bucket = m /\ bars'[i].ids \in {bars[i].ids, bars[i].ids \union {s}}
    BY <1>1, SampleEffect
  <2>2. \A t \in bars'[i].ids : t.inst = i /\ t.bucket = m
    BY <2>1
  <2> QED
    BY <1>1, <2>1, <2>2
<1>2. ASSUME NEW i \in Instrument, ObserveRest(i) PROVE NoMinutesMixed'
  BY <1>1, <1>2 DEF ObserveRest, TypeOK
<1>3. ASSUME NEW i \in Instrument, WsFrame(i) PROVE NoMinutesMixed'
  BY <1>1, <1>3, MinuteOfClock DEF WsFrame, TypeOK
<1>4. ASSUME NEW i \in Instrument, Remove(i) PROVE NoMinutesMixed'
  <2>1. \A j \in Instrument : bars'[j] = IF j = i THEN NoBar ELSE bars[j]
    BY <1>4 DEF Remove, TypeOK
  <2>2. NoBar.ids = {}
    BY DEF NoBar
  <2>3. \A r \in out' : r \in out \/ r = <<i, bars[i]>>
    BY <1>4 DEF Remove
  <2> QED
    BY <1>4, <2>1, <2>2, <2>3 DEF Remove
<1>5. CASE Write
  <2>1. \A q \in Rows : \A s \in q.ids : s.inst = q.inst /\ s.bucket = q.bucket
    BY DEF Rows
  <2>2. \A q \in store' : q \in store \/ q \in Rows
    BY <1>5 DEF Write
  <2> QED
    BY <1>5, <2>1, <2>2 DEF Write
<1>6. CASE NextTick \/ Wake \/ FetchOk \/ FetchErr \/ Collect \/ WriteErr \/ Tick
  BY <1>6 DEF NextTick, Wake, FetchOk, FetchErr, Collect, WriteErr, Tick
<1>7. CASE UNCHANGED vars
  BY <1>7 DEF vars
<1> QED
  BY <1>2, <1>3, <1>4, <1>5, <1>6, <1>7 DEF Next

\* A sample of a WS feed says nothing about a polled instrument.
LEMMA LiveSample ==
    ASSUME TypeOK, NEW i \in Live, NEW m \in Nat, Sample(i, m)
    PROVE  /\ \A j \in Instrument \ Live : bars'[j] = bars[j]
           /\ \A s \in got' : s.inst \notin Live => s \in got
           /\ \A j \in Instrument \ Live, n \in Int : Samples(j, n)' = Samples(j, n)
<1>1. PICK s \in SampleType :
          /\ s.inst = i /\ got' = got \union {s}
          /\ \A j \in Instrument \ {i} : bars'[j] = bars[j]
  BY SampleEffect
<1> QED
  BY <1>1 DEF Samples

\* The REST sample of a polled instrument is the first of its minute.
LEMMA RestSample ==
    ASSUME TypeOK, RestInv, NEW i \in Instrument \ Live, ObserveRest(i)
    PROVE  /\ bars'[i] # NoBar /\ bars'[i].bucket = last
           /\ bars'[i].ids = Samples(i, last)' /\ bars'[i].ids # {}
           /\ \A j \in Instrument \ {i} : bars'[j] = bars[j]
           /\ \A s \in got' : s \in got \/ (s.inst = i /\ s.bucket = last)
           /\ \A j \in Instrument, n \in Int :
                 j # i \/ n # last => Samples(j, n)' = Samples(j, n)
<1>1. /\ pc = "observe" /\ i \in rest /\ Sample(i, last) /\ last \in Nat
  BY DEF ObserveRest, TypeOK
<1>2. PICK s \in SampleType :
          /\ s.inst = i /\ s.bucket = last /\ got' = got \union {s}
          /\ \A j \in Instrument \ {i} : bars'[j] = bars[j]
          /\ bars'[i] # NoBar /\ bars'[i].bucket = last
          /\ \/ (bars[i] = NoBar \/ bars[i].bucket # last) /\ bars'[i].ids = {s}
             \/ bars[i] # NoBar /\ bars'[i].ids \in {bars[i].ids, bars[i].ids \union {s}}
  BY <1>1, SampleEffect
<1>3. Samples(i, last) = {}
  BY <1>1 DEF RestInv, Samples
<1>4. Samples(i, last)' = {s}
  BY <1>1, <1>2, <1>3 DEF Samples, ObserveRest
<1>5. bars[i] = NoBar
  BY <1>3 DEF RestInv
<1>6. bars'[i].ids = {s}
  BY <1>2, <1>5
<1>7. last' = last
  BY DEF ObserveRest
<1>8. \A j \in Instrument, n \in Int : j # i \/ n # last => Samples(j, n)' = Samples(j, n)
  BY <1>2 DEF Samples
<1> QED
  BY <1>2, <1>4, <1>6, <1>8

\* Every step keeps what is said about polled instruments, their rows included.
LEMMA RestStep ==
    ASSUME TypeOK, RestInv, RestRowComplete, [Next]_vars PROVE RestInv' /\ RestRowComplete'
<1> USE DEF loop, flush, schedule
<1>1. CASE NextTick
  <2>1. last' \in Int /\ (last # NoMinute => last' = last + 1) /\ last' > last /\ pc = "next" /\ pc' = "sleep"
    BY <1>1, MinuteOfClock DEF NextTick, Plan, TypeOK, NoMinute
  <2>2. UNCHANGED <<got, bars, out, store, rest, keys>>
    BY <1>1 DEF NextTick
  <2>3. \A s \in got : s.bucket \in Int
    BY DEF TypeOK, SampleType
  <2>4. \A r \in store : r.bucket \in Int
    BY DEF TypeOK
  <2>5. \A i \in Instrument \ Live : bars[i] = NoBar
    BY <2>1 DEF RestInv
  <2>6. RestInv'
    BY <2>1, <2>2, <2>3, <2>4, <2>5 DEF RestInv, TypeOK
  <2>7. RestRowComplete'
    BY <2>2 DEF RestRowComplete, Complete
  <2> QED
    BY <2>6, <2>7
<1>2. CASE Wake
  BY <1>2 DEF Wake, RestInv, RestRowComplete, Complete, Samples
<1>3. CASE FetchOk
  BY <1>3 DEF FetchOk, RestInv, RestRowComplete, Complete, Samples
<1>4. CASE FetchErr
  BY <1>4 DEF FetchErr, RestInv, RestRowComplete, Complete, Samples
<1>5. ASSUME NEW i \in Instrument, ObserveRest(i), i \in Live PROVE RestInv' /\ RestRowComplete'
  <2>1. /\ \A j \in Instrument \ Live : bars'[j] = bars[j]
        /\ \A s \in got' : s.inst \notin Live => s \in got
        /\ \A j \in Instrument \ Live, n \in Int : Samples(j, n)' = Samples(j, n)
    BY <1>5, LiveSample DEF ObserveRest, TypeOK
  <2>2. RestInv'
    BY <1>5, <2>1 DEF RestInv, ObserveRest, TypeOK
  <2>3. RestRowComplete'
    BY <1>5, <2>1 DEF RestRowComplete, Complete, Samples, ObserveRest, TypeOK
  <2> QED
    BY <2>2, <2>3
<1>6. ASSUME NEW i \in Instrument \ Live, ObserveRest(i) PROVE RestInv' /\ RestRowComplete'
  <2>1. pc = "observe" /\ pc' = "observe" /\ rest' = rest \ {i} /\ i \in rest /\ last \in Nat
        /\ UNCHANGED <<last, keys, out, store>>
    BY <1>6 DEF ObserveRest, TypeOK
  <2>2. RestInv'
    BY <1>6, <2>1, RestSample DEF RestInv, TypeOK
  <2>3. \A r \in store : r.inst \notin Live => Samples(r.inst, r.bucket)' = Samples(r.inst, r.bucket)
    BY <1>6, <2>1, RestSample DEF RestInv, TypeOK
  <2>4. RestRowComplete'
    BY <2>1, <2>3 DEF RestRowComplete, Complete, Samples
  <2> QED
    BY <2>2, <2>4
<1>7. ASSUME NEW i \in Instrument, WsFrame(i) PROVE RestInv' /\ RestRowComplete'
  <2>1. /\ \A j \in Instrument \ Live : bars'[j] = bars[j]
        /\ \A s \in got' : s.inst \notin Live => s \in got
        /\ \A j \in Instrument \ Live, n \in Int : Samples(j, n)' = Samples(j, n)
    BY <1>7, LiveSample, MinuteOfClock DEF WsFrame, TypeOK
  <2>2. RestInv'
    BY <1>7, <2>1 DEF RestInv, WsFrame, TypeOK
  <2>3. RestRowComplete'
    BY <1>7, <2>1 DEF RestRowComplete, Complete, Samples, WsFrame, TypeOK
  <2> QED
    BY <2>2, <2>3
<1>8. CASE Collect
  BY <1>8 DEF Collect, RestInv, RestRowComplete, Complete, Samples, TypeOK
<1>9. ASSUME NEW i \in Instrument, Remove(i) PROVE RestInv' /\ RestRowComplete'
  <2>1. \A j \in Instrument : bars'[j] = IF j = i THEN NoBar ELSE bars[j]
    BY <1>9 DEF Remove, TypeOK
  <2>2. \A r \in out' : r \in out \/ (r = <<i, bars[i]>> /\ bars[i] # NoBar)
    BY <1>9 DEF Remove
  <2>3. RestInv'
    BY <1>9, <2>1, <2>2 DEF Remove, RestInv, Samples
  <2>4. RestRowComplete'
    BY <1>9 DEF Remove, RestRowComplete, Complete
  <2> QED
    BY <2>3, <2>4
<1>10. CASE Write
  <2>1. \A q \in Rows : q.inst \notin Live =>
            q.bucket = last /\ q.ids = Samples(q.inst, last) /\ q.ids # {}
    BY DEF Rows, RestInv
  <2>2. \A q \in store' : q \in store \/ q \in Rows
    BY <1>10 DEF Write
  <2>3. \A i \in Instrument \ Live : bars[i] = NoBar
    BY <1>10 DEF Write, RestInv
  <2>4. RestInv'
    BY <1>10, <2>1, <2>2, <2>3 DEF Write, RestInv, TypeOK
  <2>5. RestRowComplete'
    BY <1>10, <2>1, <2>2 DEF Write, RestRowComplete, Complete, Samples
  <2> QED
    BY <2>4, <2>5
<1>11. CASE WriteErr
  <2>1. \A i \in Instrument \ Live : bars[i] = NoBar
    BY <1>11 DEF WriteErr, RestInv
  <2>2. RestInv'
    BY <1>11, <2>1 DEF WriteErr, RestInv
  <2>3. RestRowComplete'
    BY <1>11 DEF WriteErr, RestRowComplete, Complete
  <2> QED
    BY <2>2, <2>3
<1>12. CASE Tick
  BY <1>12 DEF Tick, RestInv, RestRowComplete, Complete, Samples
<1>13. CASE UNCHANGED vars
  BY <1>13 DEF vars, RestInv, RestRowComplete, Complete, Samples
<1> QED
  BY <1>1, <1>2, <1>3, <1>4, <1>5, <1>6, <1>7, <1>8, <1>9, <1>10, <1>11, <1>12, <1>13 DEF Next

\* Every step keeps fetched minutes on their way to the store.
LEMMA FetchedStep ==
    ASSUME TypeOK, RestInv, FetchedInv, [Next]_vars PROVE FetchedInv'
<1> USE DEF loop, flush, schedule
<1>1. CASE NextTick
  <2>1. \A f \in fetched : ~OnItsWay(f)
    BY <1>1 DEF NextTick, OnItsWay
  <2> QED
    BY <1>1, <2>1 DEF NextTick, FetchedInv
<1>2. CASE Wake \/ FetchOk \/ FetchErr
  <2>1. \A f \in fetched : ~OnItsWay(f)
    BY <1>2 DEF Wake, FetchOk, FetchErr, OnItsWay
  <2> QED
    BY <1>2, <2>1 DEF Wake, FetchOk, FetchErr, FetchedInv
<1>3. ASSUME NEW i \in Instrument, NEW m \in Nat, Sample(i, m), UNCHANGED <<pc, last, out, store, failed>>
      PROVE  \A f \in fetched : f[1] \in Live \/ f \in failed' \/ OnItsWay(f)'
                                  \/ \E r \in store' : r.inst = f[1] /\ r.bucket = f[2]
  <2>1. \A j \in Instrument : bars[j] # NoBar => bars'[j] # NoBar
    BY <1>3, SampleEffect
  <2>2. \A f \in fetched : OnItsWay(f) => OnItsWay(f)'
    BY <1>3, <2>1 DEF OnItsWay, FetchedInv
  <2> QED
    BY <1>3, <2>2 DEF FetchedInv
<1>4. ASSUME NEW i \in Instrument, ObserveRest(i) PROVE FetchedInv'
  <2>1. pc = "observe" /\ pc' = "observe" /\ Sample(i, last) /\ last \in Nat /\ last' = last
        /\ fetched' = fetched \union {<<i, last>>} /\ UNCHANGED <<out, store, failed>>
    BY <1>4 DEF ObserveRest, TypeOK
  <2>2. bars'[i] # NoBar
    BY <2>1, SampleEffect
  <2>3. OnItsWay(<<i, last>>)'
    BY <2>1, <2>2 DEF OnItsWay
  <2> QED
    BY <1>3, <2>1, <2>3 DEF FetchedInv
<1>5. ASSUME NEW i \in Instrument, WsFrame(i) PROVE FetchedInv'
  BY <1>3, <1>5, MinuteOfClock DEF WsFrame, FetchedInv, TypeOK
<1>6. CASE Collect
  BY <1>6 DEF Collect, FetchedInv, OnItsWay
<1>7. ASSUME NEW i \in Instrument, Remove(i) PROVE FetchedInv'
  <2>1. pc = "remove" /\ UNCHANGED <<pc, last, store, failed, fetched>>
        /\ \A j \in Instrument : bars'[j] = IF j = i THEN NoBar ELSE bars[j]
    BY <1>7 DEF Remove, TypeOK
  <2>2. out \subseteq out' /\ (bars[i] # NoBar => <<i, bars[i]>> \in out')
    BY <1>7 DEF Remove
  <2>3. ASSUME NEW f \in fetched, OnItsWay(f), f[1] \notin Live PROVE OnItsWay(f)'
    <3>1. CASE f[1] = i /\ bars[i] # NoBar
      <4>1. bars[i].bucket = last
        BY <3>1, <2>3 DEF RestInv
      <4> QED
        BY <2>1, <2>2, <2>3, <3>1, <4>1 DEF OnItsWay
    <3>2. CASE f[1] # i /\ bars[f[1]] # NoBar
      BY <2>1, <2>3, <3>2 DEF OnItsWay, FetchedInv
    <3>3. CASE \E r \in out : r[1] = f[1] /\ r[2].bucket = last
      BY <2>1, <2>2, <2>3, <3>3 DEF OnItsWay
    <3> QED
      BY <2>3, <3>1, <3>2, <3>3 DEF OnItsWay
  <2> QED
    BY <2>1, <2>3 DEF FetchedInv
<1>8. CASE Write
  <2>1. UNCHANGED <<fetched, failed, last>> /\ pc = "remove" /\ keys = {}
    BY <1>8 DEF Write
  <2>2. \A r \in store : \E q \in store' : q.inst = r.inst /\ q.bucket = r.bucket
    BY <1>8 DEF Write
  <2>3. \A r \in out : \E q \in store' : q.inst = r[1] /\ q.bucket = r[2].bucket
    <3> SUFFICES ASSUME NEW r \in out PROVE \E q \in store' : q.inst = r[1] /\ q.bucket = r[2].bucket
      OBVIOUS
    <3> DEFINE q == [inst |-> r[1], bucket |-> r[2].bucket, ids |-> r[2].ids]
    <3>1. q \in Rows
      BY DEF Rows
    <3>2. q \in store'
      BY <1>8, <3>1 DEF Write
    <3> QED
      BY <3>2
  <2>4. \A f \in fetched : f[1] \notin Live => bars[f[1]] = NoBar
    BY <2>1 DEF RestInv, FetchedInv
  <2>5. \A f \in fetched : f[1] \notin Live /\ OnItsWay(f) =>
            \E q \in store' : q.inst = f[1] /\ q.bucket = f[2]
    BY <2>3, <2>4 DEF OnItsWay
  <2> QED
    BY <2>1, <2>2, <2>5 DEF FetchedInv
<1>9. CASE WriteErr
  <2>1. UNCHANGED <<fetched, store, last>> /\ failed \subseteq failed' /\ pc = "remove" /\ keys = {}
        /\ failed' = failed \union {<<r.inst, r.bucket>> : r \in Rows}
    BY <1>9 DEF WriteErr
  <2>2. \A r \in out : <<r[1], r[2].bucket>> \in failed'
    <3> SUFFICES ASSUME NEW r \in out PROVE <<r[1], r[2].bucket>> \in failed'
      OBVIOUS
    <3> DEFINE q == [inst |-> r[1], bucket |-> r[2].bucket, ids |-> r[2].ids]
    <3>1. q \in Rows
      BY DEF Rows
    <3>2. <<q.inst, q.bucket>> \in failed'
      BY <2>1, <3>1
    <3> QED
      BY <3>2
  <2>3. \A f \in fetched : f[1] \notin Live => bars[f[1]] = NoBar
    BY <2>1 DEF RestInv, FetchedInv
  <2>4. \A f \in fetched : f = <<f[1], f[2]>>
    BY DEF FetchedInv
  <2>5. \A f \in fetched : f[1] \notin Live /\ OnItsWay(f) => f \in failed'
    BY <2>2, <2>3, <2>4 DEF OnItsWay
  <2> QED
    BY <2>1, <2>5 DEF FetchedInv
<1>10. CASE Tick
  BY <1>10 DEF Tick, FetchedInv, OnItsWay
<1>11. CASE UNCHANGED vars
  BY <1>11 DEF vars, FetchedInv, OnItsWay
<1> QED
  BY <1>1, <1>2, <1>4, <1>5, <1>6, <1>7, <1>8, <1>9, <1>10, <1>11 DEF Next

\* Every step keeps the history without unasked minutes.
LEMMA HistoryStep == ASSUME TypeOK, HistoryInv, [Next]_vars PROVE HistoryInv'
<1> USE DEF loop, flush, schedule, TypeOK
<1>1. CASE NextTick
  <2>1. last' \in Nat /\ pc = "next" /\ pc' = "sleep" /\ UNCHANGED <<fetched, missed>>
    BY <1>1, MinuteOfClock DEF NextTick, Plan, NoMinute
  <2>2. CASE first = NoMinute
    BY <1>1, <2>1, <2>2 DEF NextTick, HistoryInv, Pending, NoMinute
  <2>3. CASE first # NoMinute
    <3>1. last' = last + 1 /\ first' = first
      BY <1>1, <2>3 DEF NextTick, Plan, HistoryInv
    <3>2. \A m \in first..last' : m \in first..last \/ m = last'
      BY <3>1
    <3> QED
      BY <2>1, <2>3, <3>1, <3>2 DEF HistoryInv, Pending, NoMinute
  <2> QED
    BY <2>2, <2>3
<1>2. CASE Wake
  BY <1>2 DEF Wake, HistoryInv, Pending
<1>3. CASE FetchOk
  BY <1>3 DEF FetchOk, HistoryInv, Pending
<1>4. CASE FetchErr
  BY <1>4 DEF FetchErr, HistoryInv, Pending
<1>5. ASSUME NEW i \in Instrument, ObserveRest(i) PROVE HistoryInv'
  BY <1>5 DEF ObserveRest, HistoryInv, Pending
<1>6. ASSUME NEW i \in Instrument, Remove(i) \/ WsFrame(i) PROVE HistoryInv'
  BY <1>6 DEF Remove, WsFrame, HistoryInv, Pending
<1>7. CASE Collect
  BY <1>7 DEF Collect, HistoryInv, Pending
<1>8. CASE Write \/ WriteErr
  BY <1>8 DEF Write, WriteErr, HistoryInv, Pending
<1>9. CASE Tick
  BY <1>9 DEF Tick, HistoryInv, Pending
<1>10. CASE UNCHANGED vars
  BY <1>10 DEF vars, HistoryInv, Pending
<1> QED
  BY <1>1, <1>2, <1>3, <1>4, <1>5, <1>6, <1>7, <1>8, <1>9, <1>10 DEF Next

-----------------------------------------------------------------------------
(* The theorems.                                                           *)

\* The parts together are inductive.
LEMMA CollectorInvariant == Spec => []CollectorInv
<1>1. Init => CollectorInv
  <2> SUFFICES ASSUME Init PROVE CollectorInv
    OBVIOUS
  <2>1. NoBar \in BarType /\ NoBar.ids = {}
    BY DEF NoBar, BarType, NoMinute
  <2>2. TypeOK
    BY <2>1, FS_EmptySet DEF Init, TypeOK, NoMinute
  <2>3. DeadlineInv /\ NoMinutesMixed /\ RestInv /\ RestRowComplete /\ FetchedInv /\ HistoryInv
    BY <2>1 DEF Init, DeadlineInv, NoMinutesMixed, RestInv, RestRowComplete, FetchedInv, HistoryInv
  <2> QED
    BY <2>2, <2>3 DEF CollectorInv
<1>2. CollectorInv /\ [Next]_vars => CollectorInv'
  BY TypesStep, DeadlineStep, MixedStep, RestStep, FetchedStep, HistoryStep DEF CollectorInv
<1> QED
  BY <1>1, <1>2, PTL DEF Spec

\* The loop, the aggregator and the rows always have their types.
THEOREM TypeCorrect == Spec => []TypeOK
<1>1. CollectorInv => TypeOK
  BY DEF CollectorInv
<1> QED
  BY <1>1, CollectorInvariant, PTL

\* No bar mixes minutes or instruments, whatever the order in which the REST
\* loop and the WS tasks observe and the loop flushes.
THEOREM BarsUnmixed == Spec => []NoMinutesMixed
<1>1. CollectorInv => NoMinutesMixed
  BY DEF CollectorInv
<1> QED
  BY <1>1, CollectorInvariant, PTL

\* Every fetched minute of a polled instrument is stored when the loop moves
\* on, unless its write failed, for any overruns and failed fetches.
THEOREM FetchedReachesStore == Spec => []FetchedMinuteStored
<1>1. CollectorInv => FetchedMinuteStored
  BY DEF CollectorInv, FetchedInv, OnItsWay, FetchedMinuteStored
<1> QED
  BY <1>1, CollectorInvariant, PTL

\* The stored row of a polled instrument holds exactly the samples observed
\* for its minute.
THEOREM RestRowsComplete == Spec => []RestRowComplete
<1>1. CollectorInv => RestRowComplete
  BY DEF CollectorInv
<1> QED
  BY <1>1, CollectorInvariant, PTL

\* Since the first tick the history of a polled instrument has no holes but
\* those of the venue and of failed writes, for any overruns of the loop.
THEOREM NoHoles == Spec => []HistoryWithoutHoles
<1>1. CollectorInv => HistoryWithoutHoles
  <2> SUFFICES ASSUME CollectorInv, NEW i \in Instrument \ Live,
                      NEW m \in first..(IF pc = "next" THEN last ELSE last - 1),
                      first # NoMinute, <<i, m>> \notin missed \union failed
               PROVE  \E r \in store :
                         /\ r.inst = i /\ r.bucket = m /\ r.ids # {}
                         /\ \A s \in r.ids : s.at >= (m + 1) * MinuteLen + Offset
    BY DEF HistoryWithoutHoles
  <2>1. m \in first..last /\ (m = last => pc = "next")
    BY DEF CollectorInv, TypeOK
  <2>2. <<i, m>> \in fetched
    BY <2>1 DEF CollectorInv, HistoryInv, Pending
  <2>3. ~OnItsWay(<<i, m>>)
    BY <2>1 DEF OnItsWay
  <2>4. PICK r \in store : r.inst = i /\ r.bucket = m
    BY <2>2, <2>3 DEF CollectorInv, FetchedInv
  <2>5. r.ids # {} /\ r.ids = {s \in got : s.inst = i /\ s.bucket = m}
    BY <2>4 DEF CollectorInv, RestInv, RestRowComplete, Complete
  <2>6. \A s \in r.ids : s.at >= Deadline(m)
    BY <2>5 DEF CollectorInv, DeadlineInv
  <2> QED
    BY <2>4, <2>5, <2>6 DEF Deadline
<1> QED
  BY <1>1, CollectorInvariant, PTL
=============================================================================
