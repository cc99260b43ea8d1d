----------------------------- MODULE VenueHttp -----------------------------
(***************************************************************************)
(* How a call to a venue ends: the rate-limited HTTP client of             *)
(* oi-exchanges/common/http.rs, which never retries, and the envelope      *)
(* check of each adapter.  An answer is a status and an envelope code; the *)
(* result is "ok" or the kind of ExchangeError.                            *)
(***************************************************************************)
EXTENDS Integers

Exchange == {"binance", "bybit", "okx", "bitget", "hyperliquid",
             "mexc", "aster", "bingx", "kucoin"}

\* Beside the status codes: no connection or no answer in time, and any
\* other transport error.
Timeout == 0
Broken == 1
Status == {Timeout, Broken, 200, 400, 401, 403, 404, 418, 429, 503}

\* "ok", the venue's throttling codes, anything else, or no decodable body.
Code == {"ok", "throttled", "other", "garbage"}

\* The status of the response.
Classify(status) ==
    CASE status \in 200..299   -> "ok"
      [] status \in {418, 429} -> "ratelimit"
      [] status \in 500..599   -> "http"
      [] status = 404          -> "notfound"
      [] status \in {401, 403} -> "auth"
      [] OTHER                 -> "schema"

\* send and get_json (post_json alike): a transport error, the status, then
\* the decoding of the body.
GetJson(status, code) ==
    CASE status = Timeout                            -> "http"
      [] status = Broken                             -> "other"
      [] Classify(status) = "ok" /\ code = "garbage" -> "schema"
      [] OTHER                                       -> Classify(status)

\* Envelope::check of a venue with throttling codes of its own.
CheckThrottled(code) ==
    CASE code = "ok"        -> "ok"
      [] code = "throttled" -> "ratelimit"
      [] OTHER              -> "schema"

CheckBybit(code) == CheckThrottled(code)
CheckBitget(code) == CheckThrottled(code)
CheckBingx(code) == CheckThrottled(code)
CheckKucoin(code) == CheckThrottled(code)

\* The envelope's `success` flag must be set too: its absence is "other".
CheckMexc(code) == CheckThrottled(code)

\* OKX has no throttling codes of its own.
CheckOkx(code) == IF code = "ok" THEN "ok" ELSE "schema"

\* Binance, Aster and Hyperliquid answer without an envelope.
Check(v, code) ==
    CASE v = "bybit"  -> CheckBybit(code)
      [] v = "bitget" -> CheckBitget(code)
      [] v = "bingx"  -> CheckBingx(code)
      [] v = "kucoin" -> CheckKucoin(code)
      [] v = "mexc"   -> CheckMexc(code)
      [] v = "okx"    -> CheckOkx(code)
      [] OTHER        -> "ok"

\* What the caller of an adapter gets.
Call(v, status, code) ==
    IF GetJson(status, code) # "ok" THEN GetJson(status, code) ELSE Check(v, code)
============================================================================
