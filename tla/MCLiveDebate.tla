---------------------------- MODULE MCLiveDebate -----------------------------
(* Instances of LiveDebate. *)
EXTENDS LiveDebate

Raw(provider, type, priced) ==
  [provider |-> provider, shape |-> "typed", type |-> type, filled |-> TRUE, priced |-> priced]
Untyped == [Raw("openai", None, TRUE) EXCEPT !.shape = "untyped"]
Keyless == [Raw("gemini", "api_key", TRUE) EXCEPT !.filled = FALSE]

Frame(raw, data, asset) == [raw |-> raw, data |-> data, asset |-> asset, date |-> 1]

\* An API key, a sign-in, a local runtime, and three that are no config.
AllFrames ==
  {Frame(Untyped, "none", "equity"), Frame(Raw("openrouter", "api_key", FALSE), "alpaca", "crypto"),
   Frame(Raw("openai", "oauth", TRUE), "none", "equity"),
   Frame(Raw("local", "local", FALSE), "none", "equity"),
   Frame(Keyless, "none", "equity"), Frame(Raw("xai", "oauth", TRUE), "alpaca", "equity")}
AlpacaFrame == {Frame(Raw("xai", "oauth", TRUE), "alpaca", "equity")}

FiveAgents == <<"analysts", "analysts", "trader", "risk", "risk">>

NoHooks == <<>>
Hook(stances, actions, floor) ==
  [stances |-> stances, actions |-> actions, floor |-> floor, whole |-> TRUE]
\* One for everything, one of an old install for convinced buys, one malformed.
ThreeHooks == ("all" :> Hook({}, {}, 0)) @@ ("buys" :> Hook({}, {"BUY"}, 6))
              @@ ("broken" :> [Hook({}, {}, 0) EXCEPT !.whole = FALSE])
SomeHooks == {NoHooks, ThreeHooks}
Nobody == {NoHooks}
=============================================================================
