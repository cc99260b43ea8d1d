----------------------------- MODULE OhlcProofs -----------------------------
(***************************************************************************)
(* TLAPS proofs about the one-minute bar: its types, that it is the OHLC   *)
(* of the samples it was folded from, and that its price explains its      *)
(* close, for any number of samples and any mix of priced and unpriced     *)
(* ones; and about the price of a sample: that the loop of module Sampling *)
(* takes the best usable quote the provider holds.                         *)
(***************************************************************************)
EXTENDS Ohlc, WellFoundedInduction, TLAPS

USE OhlcAssumption

\* One more value v at the end of a column: folding it into the OHLC of the
\* first n values gives the OHLC of the first n + 1.
LEMMA FoldStep ==
    ASSUME NEW n \in Nat, NEW col, NEW col2, NEW o \in OhlcType, NEW v \in Optional,
           \A i \in 1..n : col[i] \in Optional /\ col2[i] = col[i],
           col2[n + 1] = v,
           IsOhlcOf(o, n, col)
    PROVE  IsOhlcOf(FoldOptional(o, v), n + 1, col2)
<1> DEFINE P == Present(n, col)
           Q == Present(n + 1, col2)
<1>1. CASE v = None
  <2>1. Q = P /\ FoldOptional(o, v) = o
    BY <1>1 DEF Present, FoldOptional
  <2> QED
    BY <2>1 DEF IsOhlcOf, Present
<1>2. CASE v # None
  <2>1. /\ Q = P \union {n + 1} /\ n + 1 \notin P
        /\ \A i \in P : i \in 1..n /\ col2[i] = col[i] /\ col[i] \in Nat
    BY <1>2 DEF Present, Optional
  <2>2. v \in Nat
    BY <1>2 DEF Optional
  <2>3. CASE P = {}
    <3>1. FoldOptional(o, v) = Flat(v)
      BY <1>2, <2>3 DEF IsOhlcOf, FoldOptional, Flat
    <3>2. Q = {n + 1} /\ Flat(v).open = v /\ Flat(v).high = v /\ Flat(v).low = v /\ Flat(v).close = v
      BY <2>1, <2>3 DEF Flat
    <3> QED
      BY <2>2, <3>1, <3>2 DEF IsOhlcOf
  <2>4. CASE P # {}
    <3>1. /\ \E i \in P : o.open = col[i] /\ \A j \in P : i <= j
          /\ \E i \in P : o.high = col[i]
          /\ \E i \in P : o.low = col[i]
          /\ \A i \in P : o.low <= col[i] /\ col[i] <= o.high
      BY <2>4 DEF IsOhlcOf
    <3>2. o.open \in Nat /\ o.high \in Nat /\ o.low \in Nat
      BY <2>1, <3>1
    <3> DEFINE f == Fold(o, v)
    <3>3. FoldOptional(o, v) = f
      BY <1>2, <3>2 DEF FoldOptional
    <3>4. /\ f.open = o.open /\ f.close = v
          /\ f.high = IF v > o.high THEN v ELSE o.high
          /\ f.low = IF v < o.low THEN v ELSE o.low
      BY DEF Fold
    <3> HIDE DEF f, P, Q
    <3>5. \E i \in Q : f.open = col2[i] /\ \A j \in Q : i <= j
      BY <2>1, <3>1, <3>4
    <3>6. \E i \in Q : f.close = col2[i] /\ \A j \in Q : j <= i
      BY <2>1, <3>4
    <3>7. \E i \in Q : f.high = col2[i]
      BY <2>1, <3>1, <3>4
    <3>8. \E i \in Q : f.low = col2[i]
      BY <2>1, <3>1, <3>4
    <3>9. \A i \in Q : f.low <= col2[i] /\ col2[i] <= f.high
      BY <2>1, <2>2, <3>1, <3>2, <3>4
    <3>10. Q # {}
      BY <2>1
    <3> QED
      BY <3>3, <3>5, <3>6, <3>7, <3>8, <3>9, <3>10 DEF IsOhlcOf, Q
  <2> QED
    BY <2>3, <2>4
<1> QED
  BY <1>1, <1>2

\* Enriching a raw observation yields a sample: the native value is there,
\* the derived ones may be missing.
LEMMA EnrichType ==
    ASSUME unit \in Unit, mult \in Optional, NEW v \in Nat,
           NEW hint \in Optional, NEW joined \in Optional
    PROVE  Enrich(v, hint, joined) \in SampleType
<1>1. \A a, b \in Nat : a * b \in Nat
  OBVIOUS
<1> DEFINE p == IF hint # None THEN hint ELSE joined
<1>2. p \in Optional
  OBVIOUS
<1>3. ToCoins(unit, v, mult) \in Optional
  BY <1>1 DEF ToCoins, Unit, Optional
<1>4. \A m, q \in Nat : v * m * q \in Nat
  BY <1>1
<1>5. ToUsd(unit, v, mult, p) \in Optional
  BY <1>1, <1>2, <1>4 DEF ToUsd, Unit, Optional
<1> QED
  BY <1>2, <1>3, <1>5 DEF Enrich, SampleType

\* Folding keeps the type of the four values.
LEMMA FoldOptionalType ==
    ASSUME NEW o \in OhlcType, NEW v \in Optional PROVE FoldOptional(o, v) \in OhlcType
BY DEF FoldOptional, Fold, Flat, OhlcType

\* What one more sample does to a well-formed bar, denomination by denomination.
BarStep(s) ==
    /\ bar'.native = FoldOptional(bar.native, s.native)
    /\ bar'.coins = FoldOptional(bar.coins, s.coins)
    /\ bar'.usd = FoldOptional(bar.usd, s.usd)

\* The inductive invariant: types, the reference OHLC, and the counter.
BarInv == TypeOK /\ BarMatchesSamples

\* Starting a bar and folding into it are the same step in each column.
LEMMA SampleIsBarStep ==
    ASSUME BarInv, NEW v \in Nat, NEW hint \in Optional, NEW joined \in Optional,
           Sample(v, hint, joined)
    PROVE  BarStep(Enrich(v, hint, joined))
<1> DEFINE s == Enrich(v, hint, joined)
<1>1. s \in SampleType
  BY EnrichType DEF BarInv, TypeOK, Optional
<1>2. CASE seen = << >>
  <2>1. bar.native = Flat(None) /\ bar.coins = Flat(None) /\ bar.usd = Flat(None)
    <3>1. \A d \in Denomination : Present(Len(seen), Column(d)) = {}
      BY <1>2 DEF Present
    <3>2. \A d \in Denomination : bar[d] = Flat(None)
      BY <3>1 DEF BarInv, BarMatchesSamples, IsOhlcOf
    <3> QED
      BY <3>2 DEF Denomination
  <2>2. bar' = StartFromSample(s)
    BY <1>2 DEF Sample
  <2>3. \A x : FoldOptional(Flat(None), x) = Flat(x)
    BY DEF FoldOptional, Flat
  <2> QED
    BY <2>1, <2>2, <2>3 DEF BarStep, StartFromSample
<1>3. CASE seen # << >>
  <2>1. bar' = Observe(bar, s)
    BY <1>3 DEF Sample
  <2>2. bar.native.open \in Nat
    <3>1. Len(seen) \in Nat \ {0} /\ seen[1] \in SampleType
      BY <1>3 DEF BarInv, TypeOK
    <3>2. Column("native")[1] = seen[1].native /\ seen[1].native # None
      BY <3>1 DEF Column, SampleType
    <3>3. 1 \in Present(Len(seen), Column("native"))
      BY <3>1, <3>2 DEF Present
    <3>4. \E i \in Present(Len(seen), Column("native")) : bar.native.open = Column("native")[i]
      BY <3>3 DEF BarInv, BarMatchesSamples, Denomination, IsOhlcOf
    <3>5. \A i \in 1..Len(seen) : Column("native")[i] \in Nat
      <4>1. \A i \in 1..Len(seen) : seen[i] \in SampleType
        BY DEF BarInv, TypeOK
      <4>2. \A i \in 1..Len(seen) : seen[i].native \in Nat
        BY <4>1 DEF SampleType
      <4> QED
        BY <4>2 DEF Column
    <3> QED
      BY <3>4, <3>5 DEF Present
  <2>3. s.native # None
    BY <1>1 DEF SampleType
  <2>4. FoldOptional(bar.native, s.native) = Fold(bar.native, s.native)
    BY <2>2, <2>3 DEF FoldOptional
  <2> QED
    BY <2>1, <2>4 DEF BarStep, Observe
<1> QED
  BY <1>2, <1>3

\* Every sample preserves the invariant.
LEMMA BarInvStep == BarInv /\ [Next]_vars => BarInv'
<1> SUFFICES ASSUME BarInv, [Next]_vars PROVE BarInv'
  OBVIOUS
<1>1. ASSUME NEW v \in Amount, NEW hint \in Price \union {None}, NEW joined \in Price \union {None},
             Sample(v, hint, joined)
      PROVE  BarInv'
  <2> DEFINE s == Enrich(v, hint, joined)
             n == Len(seen)
  <2>1. v \in Nat /\ hint \in Optional /\ joined \in Optional
    BY DEF Optional
  <2>2. s \in SampleType
    BY <2>1, EnrichType DEF BarInv, TypeOK, Optional
  <2>3. BarStep(s)
    BY <1>1, <2>1, SampleIsBarStep
  <2>4. /\ seen' = Append(seen, s) /\ n \in Nat /\ Len(seen') = n + 1
        /\ seen'[n + 1] = s /\ \A i \in 1..n : seen'[i] = seen[i] /\ seen[i] \in SampleType
        /\ seen' \in Seq(SampleType)
    BY <1>1, <2>2 DEF Sample, BarInv, TypeOK
  <2> HIDE DEF s
  <2>5. ASSUME NEW d \in Denomination, NEW o \in OhlcType, s[d] \in Optional,
               IsOhlcOf(o, n, Column(d)), \A i \in 1..n : seen[i][d] \in Optional
        PROVE  IsOhlcOf(FoldOptional(o, s[d]), Len(seen'), Column(d)')
    <3>1. /\ \A i \in 1..n : Column(d)[i] \in Optional /\ Column(d)'[i] = Column(d)[i]
          /\ Column(d)'[n + 1] = s[d]
      BY <2>4, <2>5 DEF Column
    <3>2. IsOhlcOf(FoldOptional(o, s[d]), n + 1, Column(d)')
      BY <2>4, <2>5, <3>1, FoldStep
    <3> QED
      BY <2>4, <3>2
  <2>6. bar.native \in OhlcType /\ bar.coins \in OhlcType /\ bar.usd \in OhlcType
    BY DEF BarInv, TypeOK
  <2>7. s.native \in Nat /\ s.native \in Optional /\ s.coins \in Optional /\ s.usd \in Optional
        /\ s.price \in Optional
    BY <2>2 DEF SampleType, Optional
  <2>8. BarMatchesSamples'
    <3>1. \A i \in 1..n : /\ seen[i].native \in Optional /\ seen[i].coins \in Optional
                          /\ seen[i].usd \in Optional
      BY <2>4 DEF SampleType, Optional
    <3>2. /\ IsOhlcOf(bar.native, n, Column("native")) /\ IsOhlcOf(bar.coins, n, Column("coins"))
          /\ IsOhlcOf(bar.usd, n, Column("usd"))
      BY DEF BarInv, BarMatchesSamples, Denomination
    <3>3. IsOhlcOf(bar'.native, Len(seen'), Column("native")')
      BY <2>3, <2>5, <2>6, <2>7, <3>1, <3>2 DEF BarStep, Denomination
    <3>4. IsOhlcOf(bar'.coins, Len(seen'), Column("coins")')
      BY <2>3, <2>5, <2>6, <2>7, <3>1, <3>2 DEF BarStep, Denomination
    <3>5. IsOhlcOf(bar'.usd, Len(seen'), Column("usd")')
      BY <2>3, <2>5, <2>6, <2>7, <3>1, <3>2 DEF BarStep, Denomination
    <3> QED
      BY <3>3, <3>4, <3>5 DEF BarMatchesSamples, Denomination
  <2>9. TypeOK'
    <3>1. /\ bar'.native \in OhlcType /\ bar'.coins \in OhlcType /\ bar'.usd \in OhlcType
      BY <2>3, <2>6, <2>7, FoldOptionalType DEF BarStep
    <3>2. bar' \in [samples : 0..SampleCap, price : Optional,
                    native : {bar'.native}, coins : {bar'.coins}, usd : {bar'.usd}]
      BY <1>1, <2>7 DEF Sample, s, StartFromSample, Observe, BarInv, TypeOK
    <3> QED
      BY <1>1, <2>4, <3>1, <3>2 DEF Sample, BarInv, TypeOK
  <2> QED
    BY <2>8, <2>9 DEF BarInv
<1>2. CASE UNCHANGED vars
  BY <1>2 DEF BarInv, TypeOK, BarMatchesSamples, Column, vars
<1> QED
  BY <1>1, <1>2 DEF Next, SameRecvTs

\* Before the first sample every column is empty.
LEMMA BarInvInit == Init => BarInv
<1> SUFFICES ASSUME Init PROVE BarInv
  OBVIOUS
<1>1. Flat(None) \in OhlcType
  BY DEF Flat, OhlcType, Optional
<1>2. TypeOK
  BY <1>1 DEF Init, TypeOK, NoBar, Optional
<1>3. \A d \in Denomination : bar[d] = Flat(None)
  BY DEF Init, NoBar, Denomination
<1>4. \A d \in Denomination : Present(Len(seen), Column(d)) = {}
  BY DEF Init, Present
<1> QED
  BY <1>2, <1>3, <1>4 DEF Init, NoBar, BarInv, BarMatchesSamples, IsOhlcOf

\* The inductive invariant holds of every reachable state.
LEMMA BarInvariant == Spec => []BarInv
BY BarInvInit, BarInvStep, PTL DEF Spec

\* The bar and the samples it was folded from always have their types.
THEOREM TypeCorrect == Spec => []TypeOK
BY BarInvariant, PTL DEF BarInv

\* snapshot.rs folds any sequence of samples into their OHLC, in each of the
\* three denominations.
THEOREM BarCorrect == Spec => []BarMatchesSamples
BY BarInvariant, PTL DEF BarInv

-----------------------------------------------------------------------------
(* The price of the close.                                                 *)

\* Once a bar has a USD close, a further sample has a USD value exactly if it
\* has a price, so both columns move together.
LEMMA PriceStep == ASSUME BarInv, PriceExplainsClose, [Next]_vars PROVE PriceExplainsClose'
<1>1. ASSUME NEW v \in Amount, NEW hint \in Price \union {None}, NEW joined \in Price \union {None},
             Sample(v, hint, joined), unit # "usd", bar'.usd.close # None
      PROVE  \E i \in Priced' :
                /\ \A j \in Priced' : j <= i
                /\ bar'.price = seen'[i].price
                /\ bar'.usd.close = ToUsd(unit, seen'[i].native, mult, bar'.price)
  <2> DEFINE s == Enrich(v, hint, joined)
             n == Len(seen)
  <2>1. v \in Nat /\ hint \in Optional /\ joined \in Optional
    BY DEF Optional
  <2>2. s \in SampleType
    BY <2>1, EnrichType DEF BarInv, TypeOK, Optional
  <2>3. bar'.usd = FoldOptional(bar.usd, s.usd)
    BY <1>1, <2>1, SampleIsBarStep DEF BarStep
  <2>4. /\ seen' = Append(seen, s) /\ n \in Nat /\ Len(seen') = n + 1
        /\ seen'[n + 1] = s /\ \A i \in 1..n : seen'[i] = seen[i] /\ seen[i] \in SampleType
    BY <1>1, <2>2 DEF Sample, BarInv, TypeOK
  <2>5. s.native = v /\ s.usd = ToUsd(unit, s.native, mult, s.price)
    BY DEF Enrich
  <2>6. bar'.price = IF seen = << >> \/ s.price # None THEN s.price ELSE bar.price
    BY <1>1 DEF Sample, StartFromSample, Observe
  <2> HIDE DEF s
  <2>7. Priced' = Priced \union (IF s.usd # None THEN {n + 1} ELSE {})
    <3>1. \A i \in 1..n : Column("usd")'[i] = Column("usd")[i]
      BY <2>4 DEF Column
    <3>2. Column("usd")'[n + 1] = s.usd
      BY <2>4 DEF Column
    <3> QED
      BY <2>4, <3>1, <3>2 DEF Priced, Present
  <2>8. CASE s.usd # None
    <3>1. s.price # None
      BY <1>1, <2>5, <2>8 DEF ToUsd, BarInv, TypeOK, Unit
    <3>2. bar'.usd.close = s.usd
      BY <2>3, <2>8 DEF FoldOptional, Fold, Flat
    <3>3. n + 1 \in Priced' /\ \A j \in Priced' : j <= n + 1
      BY <2>4, <2>7, <2>8 DEF Priced, Present
    <3> QED
      BY <2>4, <2>5, <2>6, <3>1, <3>2, <3>3
  <2>9. CASE s.usd = None
    <3>1. bar'.usd = bar.usd /\ Priced' = Priced
      BY <2>3, <2>7, <2>9 DEF FoldOptional
    <3>2. PICK i \in Priced : /\ \A j \in Priced : j <= i
                              /\ bar.price = seen[i].price
                              /\ bar.usd.close = ToUsd(unit, seen[i].native, mult, bar.price)
      BY <1>1, <3>1 DEF PriceExplainsClose
    <3>3. i \in 1..n
      BY DEF Priced, Present
    <3>4. unit = "contracts" => mult # None
      BY <1>1, <3>1, <3>2 DEF ToUsd
    <3>5. s.price = None
      <4>1. s.native \in Nat /\ s.price \in Optional
        BY <2>2 DEF SampleType
      <4>2. \A a, b \in Nat : a * b # None
        OBVIOUS
      <4>3. mult \in Nat \union {None} /\ unit \in {"coins", "contracts"}
        BY <1>1 DEF BarInv, TypeOK, Unit
      <4>4. CASE unit = "coins"
        BY <2>5, <2>9, <4>1, <4>2, <4>4 DEF ToUsd, Optional
      <4>5. CASE unit = "contracts"
        <5>1. mult \in Nat
          BY <3>4, <4>3, <4>5
        <5>2. s.native * mult \in Nat
          BY <4>1, <5>1
        <5> QED
          BY <2>5, <2>9, <4>1, <4>2, <4>5, <5>1, <5>2 DEF ToUsd, Optional
      <4> QED
        BY <4>3, <4>4, <4>5
    <3>6. seen # << >>
      BY <3>3
    <3>7. bar'.price = bar.price
      BY <2>6, <3>5, <3>6
    <3> QED
      BY <2>4, <3>1, <3>2, <3>3, <3>7
  <2> QED
    BY <2>8, <2>9
<1>2. ASSUME NEW v \in Amount, NEW hint \in Price \union {None}, NEW joined \in Price \union {None},
             Sample(v, hint, joined)
      PROVE  UNCHANGED <<unit, mult>>
  BY <1>2 DEF Sample
<1>3. CASE UNCHANGED vars
  BY <1>3 DEF PriceExplainsClose, Priced, Column, vars
<1> QED
  BY <1>1, <1>2, <1>3 DEF Next, SameRecvTs, PriceExplainsClose

\* The price column of a bar explains its USD close: it is the price of the
\* last priced sample, for any mix of priced and unpriced samples.
THEOREM PriceCorrect == Spec => []PriceExplainsClose
<1>1. Init => PriceExplainsClose
  BY DEF Init, NoBar, Flat, PriceExplainsClose
<1> QED
  BY <1>1, BarInvariant, PriceStep, PTL DEF Spec

-----------------------------------------------------------------------------
(* Where the price of a sample comes from: the loop of module Sampling.    *)

CONSTANTS Venue, Donor, Tolerance, MaxLag, MaxFaults
VARIABLES venue, stage, listed, metas, by_base, age, lag, samples, faults

Loop == INSTANCE Sampling

\* What the provider is asked about is known to it, and known instruments
\* belong to an exchange.
ProviderInv ==
    /\ venue \in Loop!Exchange
    /\ listed \subseteq Loop!Own(venue)
    /\ by_base \subseteq Loop!Known
    /\ age \in [Loop!Known -> Nat]
    /\ lag \in Int

\* Every exchange has a rank of its own.
LEMMA RankOfExchange ==
    ASSUME NEW e, e.ex \in Loop!Exchange
    PROVE  Loop!Rank(e) \in 1..9
<1>1. Len(Loop!All) = 9
  BY DEF Loop!All
<1>2. \E k \in 1..9 : Loop!All[k] = e.ex
  BY DEF Loop!All, Loop!Exchange
<1> QED
  BY <1>1, <1>2 DEF Loop!Rank

\* Whatever the loop knows is listed on some exchange.
LEMMA KnownExchange ==
    ASSUME Loop!SamplingAssumption, ProviderInv
    PROVE  \A e \in Loop!Known : e.ex \in Loop!Exchange /\ Loop!Rank(e) \in 1..9
<1>1. \A e \in Loop!Known : e.ex \in Loop!Exchange
  BY DEF Loop!SamplingAssumption, ProviderInv, Loop!Known, Loop!Own, Loop!Peers
<1> QED
  BY <1>1, RankOfExchange

\* Among some known instruments one is on the first exchange.
LEMMA FirstRank ==
    ASSUME Loop!SamplingAssumption, ProviderInv, NEW S, S \subseteq Loop!Known, S # {}
    PROVE  \E e \in S : \A f \in S : Loop!Rank(e) <= Loop!Rank(f)
<1> DEFINE T == {Loop!Rank(e) : e \in S}
<1>0. \A e \in S : Loop!Rank(e) \in Nat
  BY KnownExchange
<1>1. T \subseteq Nat /\ T # {}
  BY <1>0
<1>2. PICK x \in T : \A y \in T : ~(<<y, x>> \in OpToRel(<, Nat))
  BY <1>1, WFMin, NatLessThanWellFounded, Zenon
<1>3. \A y \in T : ~(y < x)
  BY <1>1, <1>2 DEF OpToRel
<1>4. PICK e \in S : x = Loop!Rank(e)
  BY <1>2
<1>5. ASSUME NEW f \in S PROVE Loop!Rank(e) <= Loop!Rank(f)
  <2>1. Loop!Rank(f) \in T
    OBVIOUS
  <2>2. ~(Loop!Rank(f) < Loop!Rank(e))
    BY <1>3, <1>4, <2>1
  <2> QED
    BY <1>0, <2>2
<1> QED
  BY <1>5

\* Two spellings name the same coin if they are equal, or BTC and XBT.
LEMMA SameCoin ==
    ASSUME NEW a, NEW b
    PROVE  Loop!CanonicalBase(a) = Loop!CanonicalBase(b) <=> (a = b \/ {a, b} = {"BTC", "XBT"})
<1>1. {a, b} = {"BTC", "XBT"} <=> (a = "BTC" /\ b = "XBT") \/ (a = "XBT" /\ b = "BTC")
  OBVIOUS
<1> QED
  BY <1>1 DEF Loop!CanonicalBase

\* The three stages of price_usd_with_fallback - the instrument itself, a
\* donor of its quote family, any donor, each pass in the order of
\* Exchange::all() - find the usable quotes of the best grade.
LEMMA FallbackFindsBest ==
    ASSUME Loop!SamplingAssumption, ProviderInv, NEW i \in Loop!Known
    PROVE  Loop!PriceWithFallback(i) =
             {e \in Loop!Usable(i) : \A f \in Loop!Usable(i) : Loop!Grade(i, e) <= Loop!Grade(i, f)}
<1> DEFINE family == Loop!CanonicalQuote(i.quote)
           all == Loop!Entries(i, Loop!AnyQuote)
           strict == Loop!Entries(i, {family})
           best == {e \in Loop!Usable(i) :
                      \A f \in Loop!Usable(i) : Loop!Grade(i, e) <= Loop!Grade(i, f)}
<1>1. \A e \in Loop!Known : Loop!Rank(e) \in 1..9
  BY KnownExchange
<1>2. by_base \subseteq Loop!Known /\ i \in Loop!Known
  BY DEF ProviderInv
<1>3. ASSUME NEW e \in Loop!Known
      PROVE  Loop!Fresh(e) <=> age[e] < Loop!Old /\ age[e] - lag \in -Tolerance..Tolerance
  <2>1. age[e] \in Nat /\ lag \in Int /\ Tolerance \in Nat
    BY DEF ProviderInv, Loop!SamplingAssumption
  <2>2. age[e] - lag \in -Tolerance..Tolerance
          <=> age[e] - lag <= Tolerance /\ lag - age[e] <= Tolerance
    BY <2>1
  <2> QED
    BY <2>2 DEF Loop!Fresh
<1>4. all = {e \in by_base \ {i} : /\ e.base = i.base \/ {e.base, i.base} = {"BTC", "XBT"}
                                   /\ Loop!Fresh(e)}
  BY SameCoin, Zenon DEF Loop!Entries, Loop!AnyQuote
<1>5. strict = {e \in all : Loop!CanonicalQuote(e.quote) = family}
  BY DEF Loop!Entries, Loop!AnyQuote
<1>6. \A e : e \in Loop!Usable(i) <=> e \in all \/ (e = i /\ Loop!Fresh(i))
  BY <1>2, <1>3, <1>4 DEF Loop!Usable
<1>7. i \notin all /\ all \subseteq Loop!Known /\ strict \subseteq Loop!Known
  BY <1>2, <1>4, <1>5
<1>8. /\ Loop!Grade(i, i) = 0
      /\ \A e \in all : Loop!Grade(i, e) = IF e \in strict THEN Loop!Rank(e) ELSE 9 + Loop!Rank(e)
  <2>1. Len(Loop!All) = 9
    BY DEF Loop!All
  <2> QED
    BY <1>5, <1>7, <2>1 DEF Loop!Grade
<1> HIDE DEF all, strict, family
<1>9. CASE Loop!Fresh(i)
  <2>1. Loop!PriceWithFallback(i) = {i}
    BY <1>9 DEF Loop!PriceWithFallback
  <2>2. i \in Loop!Usable(i) /\ \A f \in Loop!Usable(i) : f # i => Loop!Grade(i, f) \in 1..18
    BY <1>1, <1>6, <1>7, <1>8, <1>9
  <2>3. best = {i}
    BY <1>8, <2>2
  <2> QED
    BY <2>1, <2>3
<1>10. CASE ~Loop!Fresh(i)
  <2>1. Loop!Usable(i) = all
    BY <1>6, <1>10
  <2>2. \A e \in all : Loop!Rank(e) \in 1..9
    BY <1>1, <1>7
  <2>3. CASE strict # {}
    <3>1. PICK first \in strict : \A f \in strict : Loop!Rank(first) <= Loop!Rank(f)
      BY <1>7, <2>3, FirstRank
    <3>2. Loop!PriceWithFallback(i) =
            {e \in strict : \A f \in strict : Loop!Rank(e) <= Loop!Rank(f)}
      BY <1>10, <3>1 DEF Loop!PriceWithFallback, Loop!ScanPass, strict, family
    <3>3. strict \subseteq all
      BY <1>5
    <3>4. ASSUME NEW e \in all, \A f \in all : Loop!Grade(i, e) <= Loop!Grade(i, f)
          PROVE  e \in strict /\ \A f \in strict : Loop!Rank(e) <= Loop!Rank(f)
      <4>1. e \in strict
        <5>1. Loop!Grade(i, e) <= Loop!Grade(i, first) /\ Loop!Grade(i, first) = Loop!Rank(first)
          BY <1>8, <3>1, <3>3, <3>4
        <5>2. Loop!Rank(first) \in 1..9 /\ Loop!Rank(e) \in 1..9
          BY <2>2, <3>1, <3>3
        <5> QED
          BY <1>8, <5>1, <5>2
      <4> QED
        BY <1>8, <3>3, <3>4, <4>1
    <3>5. ASSUME NEW e \in strict, \A f \in strict : Loop!Rank(e) <= Loop!Rank(f), NEW f \in all
          PROVE  Loop!Grade(i, e) <= Loop!Grade(i, f)
      <4>1. Loop!Rank(e) \in 1..9 /\ Loop!Rank(f) \in 1..9 /\ Loop!Grade(i, e) = Loop!Rank(e)
        BY <1>8, <2>2, <3>3
      <4> QED
        BY <1>8, <3>5, <4>1
    <3>6. best = {e \in strict : \A f \in strict : Loop!Rank(e) <= Loop!Rank(f)}
      BY <2>1, <3>3, <3>4, <3>5
    <3> QED
      BY <3>2, <3>6
  <2>4. CASE strict = {}
    <3>1. Loop!PriceWithFallback(i) = {e \in all : \A f \in all : Loop!Rank(e) <= Loop!Rank(f)}
      BY <1>10, <2>4 DEF Loop!PriceWithFallback, Loop!ScanPass, strict, all, family
    <3>2. \A e, f \in all : Loop!Grade(i, e) <= Loop!Grade(i, f) <=> Loop!Rank(e) <= Loop!Rank(f)
      BY <1>8, <2>2, <2>4
    <3> QED
      BY <2>1, <3>1, <3>2
  <2> QED
    BY <2>3, <2>4
<1> QED
  BY <1>9, <1>10

\* The answers of a venue are about the instruments they were asked for.
LEMMA RowsOf ==
    ASSUME NEW S, NEW good, NEW odd
    PROVE  /\ DOMAIN Loop!Good(S, good) = S
           /\ \A rows \in Loop!OneOdd(S, good, odd) : DOMAIN rows = S
BY DEF Loop!Good, Loop!OneOdd

\* A discovery leaves metadata of listed instruments only.
LEMMA DiscoveredListed ==
    ASSUME Loop!Rediscovered
    PROVE  DOMAIN metas' \subseteq listed
<1>1. ASSUME NEW rows, DOMAIN rows = listed
      PROVE  DOMAIN Loop!Discovered(rows) \subseteq listed
  BY <1>1 DEF Loop!Discovered
<1>2. \E rows : DOMAIN rows = listed /\ metas' = Loop!Discovered(rows)
  BY RowsOf DEF Loop!Rediscovered
<1> QED
  BY <1>1, <1>2

\* New quotes leave the ages natural numbers.
LEMMA IngestAges ==
    ASSUME ProviderInv, NEW quoted, Loop!Ingest(quoted)
    PROVE  age' \in [Loop!Known -> Nat]
BY DEF ProviderInv, Loop!Ingest

\* Every step of the loop, of the other loops and of time keeps ProviderInv.
LEMMA ProviderStep ==
    ASSUME Loop!SamplingAssumption, ProviderInv, [Loop!Next]_(Loop!vars)
    PROVE  ProviderInv'
<1> USE DEF ProviderInv
<1>1. ASSUME venue' = venue
      PROVE  Loop!Known' = Loop!Known /\ Loop!Own(venue)' = Loop!Own(venue)
  BY <1>1 DEF Loop!Known, Loop!Own, Loop!Peers, Loop!Spelling
<1>2. CASE Loop!Discover
  <2>1. DOMAIN metas' \subseteq listed
    BY <1>2, DiscoveredListed DEF Loop!Discover
  <2>2. by_base' \subseteq Loop!Known
    BY <1>2, <2>1 DEF Loop!Discover, Loop!Actives, Loop!Known
  <2> QED
    BY <1>1, <1>2, <2>2 DEF Loop!Discover
<1>3. CASE Loop!DiscoverFails
  BY <1>1, <1>3 DEF Loop!DiscoverFails
<1>4. CASE Loop!FetchPrices
  <2>1. age' = age \/ \E quoted : Loop!Ingest(quoted)
    BY <1>4 DEF Loop!FetchPrices
  <2>2. age' \in [Loop!Known -> Nat]
    BY <2>1, IngestAges
  <2> QED
    BY <1>1, <1>4, <2>2 DEF Loop!FetchPrices
<1>5. CASE Loop!FetchOi
  BY <1>1, <1>5 DEF Loop!FetchOi
<1>6. CASE Loop!FetchOiFails
  BY <1>1, <1>6 DEF Loop!FetchOiFails
<1>7. CASE Loop!SkipRefresh \/ Loop!Rediscover \/ Loop!RediscoverFails
  BY <1>1, <1>7 DEF Loop!SkipRefresh, Loop!Rediscover, Loop!RediscoverFails, Loop!EndIteration
<1>8. CASE Loop!Lists
  BY <1>1, <1>8 DEF Loop!Lists
<1>9. CASE Loop!Tick
  <2>1. Loop!Old \in Nat
    BY DEF Loop!Old, Loop!SamplingAssumption
  <2>2. age' \in [Loop!Known -> Nat]
    BY <1>9, <2>1 DEF Loop!Tick
  <2> QED
    BY <1>1, <1>9, <2>2 DEF Loop!Tick
<1>10. ASSUME NEW d \in Donor, Loop!DonorRegisters(d) PROVE ProviderInv'
  BY <1>1, <1>10 DEF Loop!DonorRegisters, Loop!Known
<1>11. ASSUME NEW d \in Donor, Loop!DonorQuotes(d) PROVE ProviderInv'
  <2>1. age' \in [Loop!Known -> Nat]
    BY <1>11, IngestAges DEF Loop!DonorQuotes
  <2> QED
    BY <1>1, <1>11, <2>1 DEF Loop!DonorQuotes
<1>12. CASE UNCHANGED Loop!vars
  BY <1>1, <1>12 DEF Loop!vars
<1> QED
  BY <1>2, <1>3, <1>4, <1>5, <1>6, <1>7, <1>8, <1>9, <1>10, <1>11, <1>12
  DEF Loop!Next, Loop!Loop

\* What the provider is asked about is known to it in every reachable state.
LEMMA ProviderInvariant ==
    ASSUME Loop!SamplingAssumption
    PROVE  Loop!Spec => []ProviderInv
<1>1. Loop!Init => ProviderInv
  BY DEF Loop!Init, ProviderInv, Loop!SamplingAssumption, Loop!Own, Loop!First, Loop!Old
<1> QED
  BY <1>1, ProviderStep, PTL DEF Loop!Spec

\* The samples a step leaves are the ones of FetchOi, or none.
LEMMA PricedAtFetch ==
    ASSUME Loop!SamplingAssumption, ProviderInv, [Loop!Next]_(Loop!vars), samples' # samples,
           NEW i \in DOMAIN samples', ~samples'[i].hint
    PROVE  i \in Loop!Known /\ samples'[i].price = Loop!PriceWithFallback(i)
<1>1. Loop!FetchOi \/ samples' = Loop!NoMetas
  BY DEF Loop!Next, Loop!Loop, Loop!vars, Loop!Discover, Loop!DiscoverFails, Loop!FetchPrices,
         Loop!FetchOiFails, Loop!SkipRefresh, Loop!Rediscover, Loop!RediscoverFails,
         Loop!EndIteration, Loop!Lists, Loop!Tick, Loop!DonorRegisters, Loop!DonorQuotes
<1>2. Loop!FetchOi
  BY <1>1 DEF Loop!NoMetas
<1>3. PICK rows : DOMAIN rows = Loop!Asked /\ samples' = Loop!Enriched(rows)
  BY <1>2, RowsOf DEF Loop!FetchOi
<1>4. i \in Loop!Asked
  BY <1>3 DEF Loop!Enriched
<1>5. i \in Loop!Known
  BY <1>4 DEF Loop!Asked, Loop!Known, ProviderInv
<1>6. PICK raw : samples'[i] = Loop!Enrich(i, raw)
  BY <1>3 DEF Loop!Enriched
<1>7. raw.hint = Loop!Nothing
  <2>1. samples'[i].hint = (raw.hint # Loop!Nothing)
    BY <1>6 DEF Loop!Enrich
  <2> QED
    BY <2>1, Zenon
<1>8. samples'[i].price = Loop!PriceWithFallback(i)
  BY <1>6, <1>7 DEF Loop!Enrich
<1> QED
  BY <1>5, <1>8

\* A sample that came without a price of its own takes the best usable quote
\* any loop has left in the provider - the instrument's own, one in its quote
\* family, one of the same coin, each in the order of the exchanges - and goes
\* unpriced only if there is none: for any instruments of the other loops,
\* any tolerance, any delay of the loop and any number of failed calls and
\* incomplete rows.
THEOREM BestPriceFound ==
    ASSUME Loop!SamplingAssumption
    PROVE  Loop!Spec => Loop!BestPriceUsed
<1>1. ProviderInv /\ [Loop!Next]_(Loop!vars) => [Loop!BestPriceTaken]_samples
  BY PricedAtFetch, FallbackFindsBest DEF Loop!BestPriceTaken
<1> QED
  BY <1>1, ProviderInvariant, PTL DEF Loop!Spec, Loop!BestPriceUsed
=============================================================================
