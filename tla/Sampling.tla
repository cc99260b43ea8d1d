------------------------------ MODULE Sampling ------------------------------
(***************************************************************************)
(* From a venue's answers to priced samples: the market-data half of       *)
(* run_exchange_loop (runner.rs) for one venue, any of the nine, over the  *)
(* price provider that all loops share (price_provider.rs).  The loops of  *)
(* the other venues appear as donors that register and quote one           *)
(* instrument each.                                                        *)
(*                                                                         *)
(* Time is kept relative: `age` is how many minutes ago an instrument was  *)
(* quoted, `lag` how many minutes the loop is behind; a lag of one is the  *)
(* minute that has just closed.  What becomes of the samples is the        *)
(* subject of Collector.                                                   *)
(***************************************************************************)
EXTENDS Adapters, Sequences

CONSTANTS
    Venue,      \* the venues whose loop is looked at
    Donor,      \* instruments of other loops
    Tolerance,  \* of the price provider, in minutes
    MaxLag,     \* bound on how far the loop falls behind
    MaxFaults   \* bound on failed calls and incomplete rows

SamplingAssumption ==
    /\ Venue \subseteq Exchange
    /\ \A d \in Donor : d.ex \in Exchange
    /\ Tolerance \in Nat /\ MaxLag \in Nat \ {0} /\ MaxFaults \in Nat

VARIABLES
    venue,    \* never changes
    stage,    \* where the loop is; "dead" when it has returned
    listed,   \* the venue's own instruments that it lists by now
    metas,    \* what the last discovery made of them
    by_base,  \* the registered instruments
    age,      \* minutes since an instrument's last quote, capped at Old
    lag,
    samples,  \* the samples of the minute in work
    faults

vars == <<venue, stage, listed, metas, by_base, age, lag, samples, faults>>

Old == Tolerance + MaxLag + 1

Fault == faults < MaxFaults /\ faults' = faults + 1

\* KuCoin spells Bitcoin XBT.
Spelling(v) == IF v = "kucoin" THEN "XBT" ELSE "BTC"

Own(v) == {[ex |-> v, base |-> Spelling(v), quote |-> q] : q \in {"USDT", "EUR"}}
First(v) == [ex |-> v, base |-> Spelling(v), quote |-> "USDT"]
Peers == {d \in Donor : d.ex # venue}
Known == Own(venue) \union Peers

The(option) == CHOOSE x \in option : TRUE

NoMetas == [i \in {} |-> Nothing]

Init ==
    /\ venue \in Venue
    /\ stage = "discover"
    /\ listed \in {{First(venue)}, Own(venue)}
    /\ metas = NoMetas
    /\ by_base = {}
    /\ age = [i \in Known |-> Old]
    /\ lag = 0
    /\ samples = NoMetas
    /\ faults = 0

-----------------------------------------------------------------------------
(* The price provider.                                                     *)

All == <<"binance", "bybit", "okx", "bingx", "kucoin", "mexc", "bitget",
         "hyperliquid", "aster">>

CanonicalBase(b) == IF b = "XBT" THEN "BTC" ELSE b

CanonicalQuote(q) ==
    IF q \in {"USDT", "USDC", "BUSD", "FDUSD", "USD", "TUSD", "DAI"} THEN "USD-PEG" ELSE q

FreshIfNewer(i) == age[i] < Old /\ age[i] - lag <= Tolerance

\* |near - ts| <= tolerance: a quote may also be too new for an old minute.
Fresh(i) ==
    /\ age[i] < Old
    /\ age[i] - lag <= Tolerance /\ lag - age[i] <= Tolerance

\* The registered instruments of a pass, the target left out.
Entries(target, quotes) ==
    {e \in by_base \ {target} :
        /\ CanonicalBase(e.base) = CanonicalBase(target.base)
        /\ CanonicalQuote(e.quote) \in quotes
        /\ Fresh(e)}

Rank(e) == CHOOSE k \in 1..Len(All) : All[k] = e.ex

\* Within an exchange the order of registration decides; the instruments here
\* leave one candidate at most.
ScanPass(target, quotes) ==
    LET found == Entries(target, quotes)
    IN  {e \in found : \A f \in found : Rank(e) <= Rank(f)}

AnyQuote == {CanonicalQuote(e.quote) : e \in by_base}

LooseOnly(target) ==
    IF Fresh(target) THEN {target} ELSE ScanPass(target, AnyQuote)

\* The instrument whose quote prices the target: itself, a donor in the same
\* quote family, any donor of the same base.
PriceWithFallback(target) ==
    LET strict == ScanPass(target, {CanonicalQuote(target.quote)})
    IN  IF Fresh(target) THEN {target}
        ELSE IF strict # {} THEN strict
        ELSE ScanPass(target, AnyQuote)

Ingest(quoted) == age' = [i \in DOMAIN age |-> IF i \in quoted THEN 0 ELSE age[i]]

-----------------------------------------------------------------------------
(* The venue's answers.  An incomplete row is a fault.                     *)

GoodContract == [type |-> "perpetual", trading |-> TRUE, mult |-> "ok"]
OddContract == [type : {"empty", "other"}, trading : BOOLEAN, mult : Field]

GoodRow == [value |-> "ok", alt |-> "ok", mark |-> "ok", last |-> "ok"]
OddRow == [value : Field, alt : {"bad", "ok"}, mark : Field, last : {"bad", "ok"}] \ {GoodRow}

Good(S, good) == [i \in S |-> good]
OneOdd(S, good, odd) == {[Good(S, good) EXCEPT ![i] = r] : i \in S, r \in odd}

CallFails == Fault /\ \E status \in Status : \E code \in Code : Call(venue, status, code) # "ok"

-----------------------------------------------------------------------------
(* The loop.                                                               *)

Discovered(rows) ==
    LET kept == {i \in DOMAIN rows : InstrumentMeta(venue, rows[i]) # {}}
    IN  [i \in kept |-> The(InstrumentMeta(venue, rows[i]))]

Rediscovered ==
    \/ metas' = Discovered(Good(listed, GoodContract)) /\ UNCHANGED faults
    \/ /\ Fault
       /\ \E rows \in OneOdd(listed, GoodContract, OddContract) : metas' = Discovered(rows)

Actives(ms) == {i \in DOMAIN ms : ms[i].active}

\* The first discovery registers what is active.
Discover ==
    /\ stage = "discover"
    /\ Rediscovered
    /\ by_base' = by_base \union Actives(metas')
    /\ stage' = "idle"
    /\ UNCHANGED <<venue, listed, age, lag, samples>>

\* Without a first discovery the loop returns, and nothing restarts it.
DiscoverFails ==
    /\ stage = "discover"
    /\ CallFails
    /\ stage' = "dead"
    /\ UNCHANGED <<venue, listed, metas, by_base, age, lag, samples>>

Asked == Actives(metas) \intersect listed

\* A tick, and the prices of the minute; an error only leaves them old.
FetchPrices ==
    /\ stage = "idle" /\ lag > 0
    /\ \/ Ingest(UNION Prices(venue, Good(Asked, GoodRow))) /\ UNCHANGED faults
       \/ /\ Fault
          /\ \E rows \in OneOdd(Asked, GoodRow, OddRow) : Ingest(UNION Prices(venue, rows))
       \/ CallFails /\ UNCHANGED age
    /\ stage' = "oi"
    /\ UNCHANGED <<venue, listed, metas, by_base, lag, samples>>

\* The value in coins is unknown for contracts of unknown size.
HasCoins(raw, meta) == raw.unit = "coins" \/ meta.mult

\* enrich: the price that came with the OI goes before the provider's.
Enrich(i, raw) ==
    [price |-> IF raw.hint # Nothing THEN {i} ELSE PriceWithFallback(i),
     hint  |-> raw.hint # Nothing,
     coins |-> HasCoins(raw, metas[i])]

Enriched(rows) ==
    LET got == {i \in DOMAIN rows : RawOi(venue, rows[i]) # {}}
    IN  [i \in got |-> Enrich(i, The(RawOi(venue, rows[i])))]

FetchOi ==
    /\ stage = "oi"
    /\ \/ samples' = Enriched(Good(Asked, GoodRow)) /\ UNCHANGED faults
       \/ Fault /\ \E rows \in OneOdd(Asked, GoodRow, OddRow) : samples' = Enriched(rows)
    /\ stage' = "flush"
    /\ UNCHANGED <<venue, listed, metas, by_base, age, lag>>

\* Without OI the iteration ends here: `continue`.
FetchOiFails ==
    /\ stage = "oi"
    /\ CallFails
    /\ stage' = "idle" /\ lag' = lag - 1
    /\ UNCHANGED <<venue, listed, metas, by_base, age, samples>>

EndIteration == stage' = "idle" /\ lag' = lag - 1 /\ samples' = NoMetas

\* Most iterations end without a refresh of the instruments ...
SkipRefresh ==
    /\ stage = "flush"
    /\ EndIteration
    /\ UNCHANGED <<venue, listed, metas, by_base, age, faults>>

RediscoverKeepsMetas ==
    /\ stage = "flush"
    /\ EndIteration
    /\ UNCHANGED <<venue, listed, metas, by_base, age, faults>>

\* ... and one every six hours with it.  Nothing new is registered.
Rediscover ==
    /\ stage = "flush"
    /\ Rediscovered
    /\ EndIteration
    /\ UNCHANGED <<venue, listed, by_base, age>>

RediscoverFails ==
    /\ stage = "flush"
    /\ CallFails
    /\ EndIteration
    /\ UNCHANGED <<venue, listed, metas, by_base, age>>

-----------------------------------------------------------------------------
(* The venue, the other loops and time.                                    *)

Lists ==
    /\ listed' = Own(venue) /\ listed # Own(venue)
    /\ UNCHANGED <<venue, stage, metas, by_base, age, lag, samples, faults>>

DonorRegisters(d) ==
    /\ d \in Peers \ by_base
    /\ by_base' = by_base \union {d}
    /\ UNCHANGED <<venue, stage, listed, metas, age, lag, samples, faults>>

DonorQuotes(d) ==
    /\ d \in Peers \intersect by_base /\ age[d] # 0
    /\ Ingest({d})
    /\ UNCHANGED <<venue, stage, listed, metas, by_base, lag, samples, faults>>

Tick ==
    /\ lag < MaxLag
    /\ lag' = lag + 1
    /\ age' = [i \in DOMAIN age |-> IF age[i] < Old THEN age[i] + 1 ELSE Old]
    /\ UNCHANGED <<venue, stage, listed, metas, by_base, samples, faults>>

Loop ==
    \/ Discover \/ DiscoverFails \/ FetchPrices \/ FetchOi \/ FetchOiFails
    \/ SkipRefresh \/ Rediscover \/ RediscoverFails

Next ==
    \/ Loop \/ Lists \/ Tick
    \/ \E d \in Donor : DonorRegisters(d) \/ DonorQuotes(d)

Spec == Init /\ [][Next]_vars

\* Calls end within their timeout, minutes pass, and the refresh of the
\* instruments comes round again and again.
Fairness == WF_vars(Loop) /\ WF_vars(Tick) /\ SF_vars(Rediscover)

-----------------------------------------------------------------------------
(* Properties.                                                             *)

\* How good a priced sample of the target from e is, the smaller the better.
Grade(target, e) ==
    IF e = target THEN 0
    ELSE IF CanonicalQuote(e.quote) = CanonicalQuote(target.quote) THEN Rank(e)
    ELSE Len(All) + Rank(e)

\* Every instrument of the same coin with a usable quote.
Usable(target) ==
    {e \in by_base \union {target} :
        /\ e.base = target.base \/ {e.base, target.base} = {"BTC", "XBT"}
        /\ age[e] < Old /\ age[e] - lag \in -Tolerance..Tolerance}

\* Every sample a step leaves that came without its own price has the best
\* usable quote.
BestPriceTaken ==
    \A i \in DOMAIN samples' :
        ~samples'[i].hint =>
            samples'[i].price = {e \in Usable(i) : \A f \in Usable(i) : Grade(i, e) <= Grade(i, f)}

\* runner.rs:498-502 - the USD column stays populated during partial outages
\* of price feeds: a sample that came without its own price takes the best
\* usable quote that any loop has left in the provider, and goes without one
\* only if there is none; never a quote outside the tolerance of its minute.
BestPriceUsed == [][BestPriceTaken]_samples

\* A perpetual the venue lists, at any time, is sampled sooner or later with
\* its value in coins, whatever rows and calls went wrong before - unless the
\* loop gave up at its first discovery.
ListingsSampled ==
    \A q \in {"USDT", "EUR"} :
        (\E i \in listed : i.quote = q) ~>
            \/ stage = "dead"
            \/ \E i \in DOMAIN samples : i.quote = q /\ samples[i].coins
=============================================================================
