------------------------------- MODULE Providers -------------------------------
(***************************************************************************)
(* What the engine asks of the services it does not own                    *)
(* (engine/llm_providers.py, engine/data_providers.py): which adapter a    *)
(* run gets, how its calls may end and what they cost, and which day's     *)
(* price a data provider answers with.                                     *)
(*                                                                         *)
(* A response is the set of days it has a bar for, closed or forming; a    *)
(* call ends with an answer or with an error of one of a few classes.      *)
(***************************************************************************)
EXTENDS Naturals, FiniteSetsExt

None == "none"

(* Models ------------------------------------------------------------------*)
AllowedProviders == {"openai", "anthropic", "openrouter", "gemini", "xai", "minimax", "local"}

(* A key, a token or a base_url that is empty is no credential. *)
NormalizeAuth(raw) == IF raw.filled /\ raw.type \in {"api_key", "oauth", "local"} THEN raw.type ELSE None

\* The shape before there were types held an API key.
AuthOf(raw) == IF raw.shape = "typed" THEN NormalizeAuth(raw)
               ELSE IF raw.filled THEN "api_key" ELSE None

(* ProviderConfig.from_dict: what does not fit together is no config, and the
   run gets the stub debate. *)
FromDict(raw) ==
  LET auth == AuthOf(raw)
      fits == /\ raw.provider \in AllowedProviders /\ auth # None
              /\ auth = "oauth" => raw.provider = "openai"
              /\ auth = "local" <=> raw.provider = "local"
  IN  IF fits THEN [provider |-> raw.provider, auth |-> auth, priced |-> raw.priced]
      ELSE [provider |-> None, auth |-> None, priced |-> FALSE]

AdapterFor(config) == IF config.provider = "openai" /\ config.auth = "oauth"
                      THEN "codex" ELSE config.provider

(* How a call may fail, per adapter: an error with a status, one of httpx
   itself, or anything else. *)
CodexErrors == {"codex_transient", "codex_status", "codex_stream"}
SdkErrors == {"http", "status_transient", "status_other"}
ErrorsOf(adapter) == IF adapter = "codex" THEN CodexErrors ELSE SdkErrors

(* _is_retryable *)
Retryable(error) == error \in {"http", "status_transient", "codex_transient", "codex_stream"}

(* Every adapter takes an answer that tells no usage (an OpenAI-compatible
   endpoint that reports none, a codex stream that ends early) for 0 tokens. *)
Usages == {0, 1}

(* What a model's content says of the stance.  Content cut to its reasoning
   (minimax) and content that was blocked (gemini) say nothing. *)
Contents == {"bullish", "unclear"}

(* estimate_cost, in units of a call's price: no rate, no cost. *)
EstimateCost(config, tokens) == IF config.priced THEN tokens ELSE 0

(* Prices ------------------------------------------------------------------*)
CONSTANTS
  Today,      \* the days are 0..Today
  Lookback,   \* the window, in days, cushion included
  StaleDays   \* MAX_QUOTE_STALE_DAYS

ASSUME DaysAssumption == Today \in Nat /\ Lookback \in Nat /\ StaleDays \in Nat

Window(end) == {d \in 0..Today : d <= end /\ d + Lookback >= end}

\* Yahoo is asked for the window up to the date, and may answer with an old one.
YahooAsks(date) == {d \in 0..Today : d <= date}
AlpacaAsks(date) == Window(Today)

(* Forming bars are dropped, and a frame that is too old is none at all. *)
YahooQuote(closed, date) ==
  IF closed = {} \/ (closed # {} /\ date > Max(closed) + StaleDays) THEN {}
  ELSE {Max(closed)}

AlpacaQuote(closed) == IF closed = {} THEN {} ELSE {Max(closed)}

\* provider_from_data_config: without both keys the default.
DataProvider(data) == IF data = "alpaca" THEN "alpaca" ELSE "yfinance"

(* The days a quote may say it is of; none, when there is no quote.  *)
QuoteSummary(provider, date) ==
  UNION {IF provider = "alpaca" THEN AlpacaQuote(closed) ELSE YahooQuote(closed, date) :
         closed \in SUBSET (IF provider = "alpaca" THEN AlpacaAsks(date) ELSE YahooAsks(date))}

(* Alpaca's crypto headlines fall back to Yahoo's; a failure is no headlines. *)
NewsHeadlines(provider, asset, alpaca, yahoo) ==
  IF provider = "yfinance" THEN yahoo
  ELSE alpaca \/ (asset = "crypto" /\ yahoo)
=============================================================================
