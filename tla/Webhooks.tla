------------------------------- MODULE Webhooks --------------------------------
(***************************************************************************)
(* Decisions and who is told of them (engine/stance.py, engine/webhooks.py *)
(* and the last lines of live_debate's _parse_decision).  A conviction is  *)
(* in tenths; a hook is what the user configured for one receiver.         *)
(***************************************************************************)
EXTENDS Naturals

Stances == {"bullish", "moderately_bullish", "neutral", "moderately_bearish", "bearish"}

Legacy == [action \in {"BUY", "SELL", "HOLD"} |->
  CASE action = "BUY" -> "bullish" [] action = "SELL" -> "bearish" [] OTHER -> "neutral"]

(* normalize_stance: what is unknown reads as neutral. *)
NormalizeStance(value) == IF value \in Stances THEN value
                          ELSE IF value \in DOMAIN Legacy THEN Legacy[value] ELSE "neutral"

Decision(stance, conviction) == [stance |-> stance, conviction |-> conviction]

(* _parse_decision: a content that names a stance, or the neutral default. *)
ParseDecision(content) == IF content = "unclear" THEN Decision("neutral", 5)
                          ELSE Decision(NormalizeStance(content), 8)

NoAssessment == Decision("neutral", 5)    \* the manager gave none
Aborted == Decision("neutral", 0)         \* the first agent failed
Canned == Decision("neutral", 5)          \* the stub's 0.55, to the tenth

(* WebhookConfig.from_dict: a hook without an id or a url is dropped; the keys
   of installs before there were stances are read too. *)
Parsed(hooks) ==
  [r \in {r \in DOMAIN hooks : hooks[r].whole} |->
     [stances |-> IF hooks[r].stances # {} THEN hooks[r].stances ELSE hooks[r].actions,
      floor |-> hooks[r].floor]]

(* WebhookFilter.passes *)
Passes(filter, decision) ==
  /\ filter.stances # {} =>
       NormalizeStance(decision.stance) \in {NormalizeStance(s) : s \in filter.stances}
  /\ decision.conviction >= filter.floor

\* What _fire_one may come to: 2xx, or any other status, a timeout, any error.
Outcomes == {"fired", "failed"}
=============================================================================
