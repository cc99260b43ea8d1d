------------------------------ MODULE Adapters ------------------------------
(***************************************************************************)
(* The market data of the nine REST adapters: what discover_instruments,   *)
(* fetch_oi and fetch_prices make of the rows of a venue's answer.         *)
(*                                                                         *)
(* A row has fields that are "empty" (or absent), "bad" (undecodable) or   *)
(* "ok": `value`, the open interest in the unit the adapter expects, `alt`,*)
(* OKX's count of contracts, and the prices `mark` and `last`; a           *)
(* discovered row has a `type`, a `trading` status and a multiplier.  An   *)
(* Option is a set of one or no element.                                   *)
(***************************************************************************)
EXTENDS VenueHttp

Field == {"empty", "bad", "ok"}
Nothing == "nothing"

-----------------------------------------------------------------------------
(* Prices.                                                                 *)

\* The first field that is present decides, decodable or not.
FirstPresent(r) ==
    CASE r.mark = "ok"                       -> "mark"
      [] r.mark = "empty" /\ r.last = "ok" -> "last"
      [] OTHER                               -> Nothing

\* The first field that decodes decides.
FirstDecodable(r) ==
    IF r.mark = "ok" THEN "mark" ELSE IF r.last = "ok" THEN "last" ELSE Nothing

MarkOnly(r) == IF r.mark = "ok" THEN "mark" ELSE Nothing

-----------------------------------------------------------------------------
(* fetch_oi: one row of the answer, or one answer per symbol where the     *)
(* venue has no batch endpoint.  A row without a usable value is skipped.  *)

Raw(unit, hint) == [unit |-> unit, hint |-> hint]

BinanceOi(r) == IF r.value = "ok" THEN {Raw("coins", Nothing)} ELSE {}

BybitOi(r) == IF r.value = "ok" THEN {Raw("coins", FirstPresent(r))} ELSE {}

\* oiCcy if present, else the number of contracts.
OkxOi(r) ==
    CASE r.value = "ok"                      -> {Raw("coins", Nothing)}
      [] r.value = "empty" /\ r.alt = "ok" -> {Raw("contracts", Nothing)}
      [] OTHER                               -> {}

BitgetOi(r) == IF r.value = "ok" THEN {Raw("coins", FirstPresent(r))} ELSE {}

HyperliquidOi(r) == IF r.value = "ok" THEN {Raw("coins", MarkOnly(r))} ELSE {}

BingxOi(r) == IF r.value = "ok" THEN {Raw("coins", Nothing)} ELSE {}

KucoinOi(r) == IF r.value = "ok" THEN {Raw("contracts", FirstDecodable(r))} ELSE {}

MexcOi(r) == IF r.value = "ok" THEN {Raw("contracts", FirstDecodable(r))} ELSE {}

\* Aster speaks Binance's protocol; only the exchange tag is rewritten.
AsterOi(r) == BinanceOi(r)

RawOi(v, r) ==
    CASE v = "binance"     -> BinanceOi(r)
      [] v = "bybit"       -> BybitOi(r)
      [] v = "okx"         -> OkxOi(r)
      [] v = "bitget"      -> BitgetOi(r)
      [] v = "hyperliquid" -> HyperliquidOi(r)
      [] v = "bingx"       -> BingxOi(r)
      [] v = "kucoin"      -> KucoinOi(r)
      [] v = "mexc"        -> MexcOi(r)
      [] v = "aster"       -> AsterOi(r)

-----------------------------------------------------------------------------
(* fetch_prices: rows is a function of the wanted instruments; the result  *)
(* is {the set that gets a quote}, or {} for an error of the call.         *)

Quoted(rows, Price(_)) == {{i \in DOMAIN rows : Price(rows[i]) # Nothing}}

\* One undecodable mark price fails the whole call.
BinancePrices(rows) ==
    IF \E i \in DOMAIN rows : rows[i].mark # "ok" THEN {} ELSE {DOMAIN rows}

BybitPrices(rows) == Quoted(rows, FirstPresent)

OkxPrices(rows) == Quoted(rows, FirstPresent)

HyperliquidPrices(rows) == Quoted(rows, MarkOnly)

BingxPrices(rows) == Quoted(rows, MarkOnly)

AsterPrices(rows) == BinancePrices(rows)

\* The default of the trait: bitget, kucoin and mexc quote with their OI only.
NoPrices(rows) == {{}}

Prices(v, rows) ==
    CASE v = "binance"     -> BinancePrices(rows)
      [] v = "bybit"       -> BybitPrices(rows)
      [] v = "okx"         -> OkxPrices(rows)
      [] v = "hyperliquid" -> HyperliquidPrices(rows)
      [] v = "bingx"       -> BingxPrices(rows)
      [] v = "aster"       -> AsterPrices(rows)
      [] OTHER             -> NoPrices(rows)

-----------------------------------------------------------------------------
(* discover_instruments: a listed contract becomes an instrument, active   *)
(* or not, with a unit and perhaps a contract multiplier, or is left out.  *)

Meta(r, unit, mult) == [active |-> r.trading, unit |-> unit, mult |-> mult]

MultiplierGiven(r) == r.mult = "ok"

BinanceMeta(r) == IF r.type = "perpetual" THEN {Meta(r, "coins", FALSE)} ELSE {}

\* Pages are followed until the cursor is empty; a row without a type passes.
BybitMeta(r) == IF r.type \in {"empty", "perpetual"} THEN {Meta(r, "coins", FALSE)} ELSE {}

\* OI comes in coins, the multiplier serves the fallback to contracts.
OkxMeta(r) ==
    IF r.type \in {"empty", "perpetual"} THEN {Meta(r, "coins", MultiplierGiven(r))} ELSE {}

BitgetMeta(r) == IF r.type \in {"empty", "perpetual"} THEN {Meta(r, "coins", FALSE)} ELSE {}

HyperliquidMeta(r) == {Meta(r, "coins", FALSE)}

BingxMeta(r) == {Meta(r, "coins", FALSE)}

KucoinMeta(r) ==
    IF r.type \in {"empty", "perpetual"} THEN {Meta(r, "contracts", MultiplierGiven(r))} ELSE {}

MexcMeta(r) == {Meta(r, "contracts", MultiplierGiven(r))}

AsterMeta(r) == BinanceMeta(r)

InstrumentMeta(v, r) ==
    CASE v = "binance"     -> BinanceMeta(r)
      [] v = "bybit"       -> BybitMeta(r)
      [] v = "okx"         -> OkxMeta(r)
      [] v = "bitget"      -> BitgetMeta(r)
      [] v = "hyperliquid" -> HyperliquidMeta(r)
      [] v = "bingx"       -> BingxMeta(r)
      [] v = "kucoin"      -> KucoinMeta(r)
      [] v = "mexc"        -> MexcMeta(r)
      [] v = "aster"       -> AsterMeta(r)
=============================================================================
