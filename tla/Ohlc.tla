-------------------------------- MODULE Ohlc --------------------------------
(***************************************************************************)
(* The one-minute bar of crates/oi-core/src/snapshot.rs and the unit       *)
(* conversion of unit.rs: a raw observation is enriched with a price into  *)
(* a sample, and samples of one minute are folded into an OHLC bar per     *)
(* denomination.  Decimals are integers; None is the empty Option.         *)
(***************************************************************************)
EXTENDS Integers, Sequences

CONSTANTS
    Amount,      \* native values an exchange may report
    Price,       \* USD prices
    Multiplier,  \* contract multipliers an instrument may have
    None,
    SampleCap,   \* u32::MAX, where the sample counter saturates
    MaxSamples   \* bound on the samples of one bar

ASSUME OhlcAssumption ==
    /\ Amount \subseteq Nat /\ Price \subseteq Nat /\ Multiplier \subseteq Nat
    /\ None \notin Nat
    /\ SampleCap \in Nat \ {0} /\ MaxSamples \in Nat

Unit == {"coins", "usd", "contracts"}
Denomination == {"native", "coins", "usd"}
Optional == Nat \union {None}

VARIABLES
    unit, mult,  \* the instrument's native unit and contract_multiplier
    bar,         \* the bar under construction
    seen         \* the samples that were not dropped, in order (history)

vars == <<unit, mult, bar, seen>>

-----------------------------------------------------------------------------
(* unit.rs and OiSample::enrich                                            *)

ToCoins(u, v, m) ==
    CASE u = "coins"     -> v
      [] u = "contracts" -> IF m = None THEN None ELSE v * m
      [] u = "usd"       -> None

ToUsd(u, v, m, p) ==
    CASE u = "usd"       -> v
      [] u = "coins"     -> IF p = None THEN None ELSE v * p
      [] u = "contracts" -> IF m = None \/ p = None THEN None ELSE v * m * p

\* The adapter's own price_hint wins over the joined price.
Enrich(v, hint, joined) ==
    LET p == IF hint # None THEN hint ELSE joined
    IN  [native |-> v, coins |-> ToCoins(unit, v, mult),
         usd |-> ToUsd(unit, v, mult, p), price |-> p]

-----------------------------------------------------------------------------
(* OiSnapshot::start_from_sample, observe and fold_optional                *)

Flat(v) == [open |-> v, high |-> v, low |-> v, close |-> v]

StartFromSample(s) ==
    [samples |-> 1, price |-> s.price,
     native |-> Flat(s.native), coins |-> Flat(s.coins), usd |-> Flat(s.usd)]

Fold(o, v) ==
    [open |-> o.open, close |-> v,
     high |-> IF v > o.high THEN v ELSE o.high,
     low  |-> IF v < o.low THEN v ELSE o.low]

FoldOptionalOneArm(o, v) ==
    IF v = None THEN o
    ELSE IF o.open = None THEN Flat(v)
    ELSE [Fold(o, v) EXCEPT !.low = IF v > o.high THEN o.low ELSE v]

\* An unpriced sample leaves the nullable columns alone; the first priced one
\* opens them.
FoldOptional(o, v) ==
    IF v = None THEN o
    ELSE IF o.open = None THEN Flat(v)
    ELSE Fold(o, v)

ObservePriceAlways(b, s) ==
    [samples |-> IF b.samples = SampleCap THEN SampleCap ELSE b.samples + 1,
     price |-> s.price,
     native |-> Fold(b.native, s.native),
     coins |-> FoldOptional(b.coins, s.coins),
     usd |-> FoldOptional(b.usd, s.usd)]

Observe(b, s) ==
    [samples |-> IF b.samples = SampleCap THEN SampleCap ELSE b.samples + 1,
     price |-> IF s.price # None THEN s.price ELSE b.price,
     native |-> Fold(b.native, s.native),
     coins |-> FoldOptional(b.coins, s.coins),
     usd |-> FoldOptional(b.usd, s.usd)]

-----------------------------------------------------------------------------
(* A minute: the first sample starts the bar, the others are folded in.    *)

NoBar == [samples |-> 0, price |-> None,
          native |-> Flat(None), coins |-> Flat(None), usd |-> Flat(None)]

Init ==
    /\ unit \in Unit
    /\ mult \in Multiplier \union {None}
    /\ bar = NoBar
    /\ seen = << >>

Sample(v, hint, joined) ==
    /\ Len(seen) < MaxSamples
    /\ seen' = Append(seen, Enrich(v, hint, joined))
    /\ bar' = IF seen = << >> THEN StartFromSample(Enrich(v, hint, joined))
                              ELSE Observe(bar, Enrich(v, hint, joined))
    /\ UNCHANGED <<unit, mult>>

\* OiAggregator::observe takes a sample for the one that has just started the
\* bar if it carries the same recv_ts, and drops it.
SameRecvTs == bar.samples = 1 /\ UNCHANGED vars

Next ==
    \/ \E v \in Amount, hint, joined \in Price \union {None} : Sample(v, hint, joined)
    \/ SameRecvTs

Spec == Init /\ [][Next]_vars

-----------------------------------------------------------------------------
(* Properties.                                                             *)

OhlcType == [open : Optional, high : Optional, low : Optional, close : Optional]
SampleType == [native : Nat, coins : Optional, usd : Optional, price : Optional]

\* Types of the bar and of the samples it was folded from.
TypeOK ==
    /\ unit \in Unit
    /\ mult \in Nat \union {None}
    /\ bar \in [samples : 0..SampleCap, price : Optional,
                native : OhlcType, coins : OhlcType, usd : OhlcType]
    /\ seen \in Seq(SampleType)

\* The values of denomination d, in order of arrival.
Column(d) == [i \in 1..Len(seen) |-> seen[i][d]]

\* Positions among the first n of a column that hold a value.
Present(n, col) == {i \in 1..n : col[i] # None}

\* What open, high, low and close of the present values are, said without
\* reference to the folding.
IsOhlcOf(o, n, col) ==
    IF Present(n, col) = {} THEN o = Flat(None)
    ELSE /\ \E i \in Present(n, col) : o.open = col[i] /\ \A j \in Present(n, col) : i <= j
         /\ \E i \in Present(n, col) : o.close = col[i] /\ \A j \in Present(n, col) : j <= i
         /\ \E i \in Present(n, col) : o.high = col[i]
         /\ \E i \in Present(n, col) : o.low = col[i]
         /\ \A i \in Present(n, col) : o.low <= col[i] /\ col[i] <= o.high

\* In every denomination the bar is the OHLC of exactly the samples that have
\* a value in it, whatever mix of priced and unpriced samples arrived
\* (snapshot.rs:104-108), but for the one SameRecvTs drops.
BarMatchesSamples == \A d \in Denomination : IsOhlcOf(bar[d], Len(seen), Column(d))

\* The samples that have a USD value.
Priced == Present(Len(seen), Column("usd"))

\* The price of the close explains the close (snapshot.rs:139-143): unless the
\* venue reports USD itself, a bar with a USD close has a price, and the close
\* is that price applied to the native value of the last priced sample.
PriceExplainsClose ==
    unit # "usd" /\ bar.usd.close # None =>
        \E i \in Priced :
            /\ \A j \in Priced : j <= i
            /\ bar.price = seen[i].price
            /\ bar.usd.close = ToUsd(unit, seen[i].native, mult, bar.price)
=============================================================================
