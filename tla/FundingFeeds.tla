---------------------------- MODULE FundingFeeds ----------------------------
(***************************************************************************)
(* The funding endpoints of the nine REST adapters: what                   *)
(* fetch_funding_history and fetch_funding make of a venue's answer for    *)
(* one instrument.                                                         *)
(*                                                                         *)
(* A row of the history is a settlement time `ts`, a `rate` and OKX's      *)
(* `realized` rate, a ticker is a `rate`, the `next` settlement and the    *)
(* one `after` it; a rate is "empty" (or absent), "bad" (undecodable) or   *)
(* "ok".  A page holds at least 100 rows, four days of hourly settlements, *)
(* and the cold start of Hyperliquid and KuCoin a week: paging is not      *)
(* visible here.                                                           *)
(***************************************************************************)
EXTENDS Adapters

NoTime == 0
NoBar == [bar |-> FALSE, next |-> NoTime]

-----------------------------------------------------------------------------
(* fetch_funding_history: rows that do not decode are skipped.  Where the  *)
(* venue filters by startTime the cursor's own event comes back again;     *)
(* the other adapters drop it.                                             *)

From(rows, since) == {r.ts : r \in {q \in rows : q.rate = "ok" /\ q.ts >= since}}
After(rows, since) == {r.ts : r \in {q \in rows : q.rate = "ok" /\ q.ts > since}}

BinanceHistory(rows, since) == From(rows, since)

\* startTime is only accepted together with endTime = now.
BybitHistory(rows, since) == From(rows, since)

\* The realized rate decides if present, else the predicted one.
OkxHistory(rows, since) ==
    {r.ts : r \in {q \in rows :
        /\ q.ts > since
        /\ q.realized = "ok" \/ (q.realized = "empty" /\ q.rate = "ok")}}

BitgetHistory(rows, since) == After(rows, since)

HyperliquidHistory(rows, since) == After(rows, since)

BingxHistory(rows, since) == After(rows, since)

KucoinHistory(rows, since) == After(rows, since)

MexcHistory(rows, since) == After(rows, since)

AsterHistory(rows, since) == BinanceHistory(rows, since)

History(v, rows, since) ==
    CASE v = "binance"     -> BinanceHistory(rows, since)
      [] v = "bybit"       -> BybitHistory(rows, since)
      [] v = "okx"         -> OkxHistory(rows, since)
      [] v = "bitget"      -> BitgetHistory(rows, since)
      [] v = "hyperliquid" -> HyperliquidHistory(rows, since)
      [] v = "bingx"       -> BingxHistory(rows, since)
      [] v = "kucoin"      -> KucoinHistory(rows, since)
      [] v = "mexc"        -> MexcHistory(rows, since)
      [] v = "aster"       -> AsterHistory(rows, since)

-----------------------------------------------------------------------------
(* fetch_funding: the bar of the minute, if there is one, and the next     *)
(* settlement it announces (NoTime: none).                                 *)

Bar(next) == [bar |-> TRUE, next |-> next]

BinanceFunding(r) == IF r.rate = "ok" THEN Bar(r.next) ELSE NoBar

BybitFunding(r) == IF r.rate = "ok" THEN Bar(r.next) ELSE NoBar

\* One call per symbol; an undecodable rate is an error of that call only.
\* The next settlement is in OKX's fundingTime; the adapter passes on
\* nextFundingTime, the one after it.
OkxFunding(r) == IF r.rate = "ok" THEN Bar(r.after) ELSE NoBar

BitgetFunding(r) == IF r.rate = "ok" THEN Bar(r.next) ELSE NoBar

\* The payload has no next settlement.
HyperliquidFunding(r) == IF r.rate = "ok" THEN Bar(NoTime) ELSE NoBar

BingxFunding(r) == IF r.rate = "ok" THEN Bar(r.next) ELSE NoBar

KucoinFunding(r) == IF r.rate = "ok" THEN Bar(r.next) ELSE NoBar

\* The next settlement is on an endpoint the adapter does not ask.
MexcFunding(r) == IF r.rate = "ok" THEN Bar(NoTime) ELSE NoBar

AsterFunding(r) == BinanceFunding(r)

FetchFunding(v, r) ==
    CASE v = "binance"     -> BinanceFunding(r)
      [] v = "bybit"       -> BybitFunding(r)
      [] v = "okx"         -> OkxFunding(r)
      [] v = "bitget"      -> BitgetFunding(r)
      [] v = "hyperliquid" -> HyperliquidFunding(r)
      [] v = "bingx"       -> BingxFunding(r)
      [] v = "kucoin"      -> KucoinFunding(r)
      [] v = "mexc"        -> MexcFunding(r)
      [] v = "aster"       -> AsterFunding(r)
=============================================================================
