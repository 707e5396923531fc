------------------------------ MODULE LiveDebate -------------------------------
(***************************************************************************)
(* One stream of the free engine, from the start frame to the close        *)
(* (engine/live_debate.py, engine/stub_debate.py and the handler around    *)
(* them in engine/server.py): market data, the agents' calls with their    *)
(* retries, the assessment, the row in History and the webhooks.           *)
(*                                                                         *)
(* Every send is a step of its own, at which the client may turn out to be *)
(* gone.  The reserve, and runs beside one another, are DebateRuns'.       *)
(***************************************************************************)
EXTENDS Providers, Webhooks, Sequences, SequencesExt

CONSTANTS
  Requests,     \* start frames: [raw, data, asset, date]
  Hooks,        \* the hooks a frame may bring, each a function of receivers
  Phases,       \* _AGENTS: the phase of each, the manager last
  MaxAttempts,  \* _MAX_ATTEMPTS
  Faults        \* subset of {"leave", "crash", "open", "disk"}

\* A phase has a name: None is Python's.
ASSUME PhasesAssumption == /\ Phases \in Seq(STRING) /\ Len(Phases) > 1
                           /\ \A i \in DOMAIN Phases : Phases[i] # None
ASSUME AttemptsAssumption == MaxAttempts \in Nat \ {0}

VARIABLES
  request, hooks,  \* the start frame
  at,              \* where the handler, or the generator under it, stands
  idx, lastPhase,  \* the loop over the agents
  attempt,         \* calls made for this agent's turn
  captured,        \* captured_events: what was sent
  transcript,      \* the agents that said something
  tokens,          \* input_tokens and output_tokens
  decision,        \* final_decision: none, or one
  adapter,         \* "closed", "open"
  reservation,     \* "none", "open", "final"
  billed,          \* what finalize wrote
  receiver,        \* what each parsed hook came to
  stored,          \* a row in History
  answered,        \* history: the answers the provider gave
  unmetered        \* history: those of them that told no usage

vars == <<request, hooks, at, idx, lastPhase, attempt, captured, transcript,
          tokens, decision, adapter, reservation, billed, receiver, stored,
          answered, unmetered>>
turnVars == <<request, hooks, adapter, reservation, billed, receiver, stored>>

Wire == INSTANCE DebateWire WITH heard <- captured, MaxTokens <- Len(Phases),
  LastDay <- Today, posted <- {r \in DOMAIN receiver : receiver[r] \notin {"unasked", "filtered"}}

Config == FromDict(request.raw)
Live == Config.provider # None
Agents == DOMAIN Phases
Answer == [stance : Stances, conviction : 0..10]

Init ==
  /\ request \in Requests
  /\ hooks \in {Parsed(h) : h \in Hooks}
  /\ at = "summary" /\ idx = 1 /\ lastPhase = None /\ attempt = 0
  /\ captured = <<>> /\ transcript = {} /\ tokens = 0 /\ decision = {}
  /\ adapter = "closed" /\ billed = 0
  /\ reservation = IF Live THEN "open" ELSE "none"
  /\ receiver = [r \in DOMAIN hooks |-> "unasked"] /\ stored = FALSE
  /\ answered = 0 /\ unmetered = 0

Goes(from, to) == at = from /\ at' = to
Sends(event) == captured' = Append(captured, event)

(* Before the debate -------------------------------------------------------*)
(* A failure to fetch is no event. *)
FetchSummary ==
  /\ Goes("summary", "news")
  /\ \/ \E day \in QuoteSummary(DataProvider(request.data), request.date) :
          Sends(Wire!Summary(day))
     \/ UNCHANGED captured
  /\ UNCHANGED <<turnVars, idx, lastPhase, attempt, transcript, tokens, decision,
                 answered, unmetered>>

FetchNews ==
  /\ Goes("news", IF Live THEN "opening" ELSE "starting")
  /\ \E alpaca, yahoo \in BOOLEAN :
       IF NewsHeadlines(DataProvider(request.data), request.asset, alpaca, yahoo)
       THEN Sends(Wire!Headlines) ELSE UNCHANGED captured
  /\ UNCHANGED <<turnVars, idx, lastPhase, attempt, transcript, tokens, decision,
                 answered, unmetered>>

(* adapter.open comes before the try; what it raises nobody catches. *)
OpenAdapter ==
  /\ \/ Goes("opening", "starting") /\ adapter' = "open"
     \/ "open" \in Faults /\ Goes("opening", "over") /\ UNCHANGED adapter
  /\ UNCHANGED <<request, hooks, idx, lastPhase, attempt, captured, transcript, tokens,
                 decision, reservation, billed, receiver, stored, answered, unmetered>>

StartSession ==
  /\ Goes("starting", "turn") /\ Sends(Wire!Start)
  /\ UNCHANGED <<turnVars, idx, lastPhase, attempt, transcript, tokens, decision,
                 answered, unmetered>>

(* The agents --------------------------------------------------------------*)
PhaseChanges == idx \in Agents /\ lastPhase \notin {None, Phases[idx]}

(* A phase that changes is announced before its first agent is asked. *)
AnnouncePhase ==
  /\ PhaseChanges
  /\ Goes("turn", "turn") /\ Sends(Wire!Transition(idx))
  /\ lastPhase' = Phases[idx]
  /\ UNCHANGED <<turnVars, idx, attempt, transcript, tokens, decision,
                 answered, unmetered>>

TakeTurn ==
  /\ idx \in Agents /\ ~PhaseChanges
  /\ Goes("turn", IF Live THEN "calling" ELSE "telling")
  /\ lastPhase' = Phases[idx]
  /\ attempt' = 1
  /\ UNCHANGED <<turnVars, idx, captured, transcript, tokens, decision,
                 answered, unmetered>>

(* adapter.complete returns; the manager's content is parsed. *)
AnswerCall(usage, content) ==
  /\ Goes("calling", "telling")
  /\ tokens' = tokens + usage
  /\ answered' = answered + 1 /\ unmetered' = unmetered + (1 - usage)
  /\ transcript' = transcript \cup {idx}
  /\ decision' = IF idx = Len(Phases) THEN {ParseDecision(content)} ELSE decision
  /\ UNCHANGED <<turnVars, idx, lastPhase, attempt, captured>>

\* Mutant: an attempt too many, also on local hardware.
RetriesLonger(error) == Retryable(error) /\ attempt <= MaxAttempts
(* The SDK of a local runtime retries by itself. *)
Retries(error) == Config.provider # "local" /\ Retryable(error) /\ attempt < MaxAttempts

FailCall(error) ==
  /\ IF Retries(error) THEN Goes("calling", "calling") /\ attempt' = attempt + 1
                       ELSE Goes("calling", "regretting") /\ UNCHANGED attempt
  /\ UNCHANGED <<turnVars, idx, lastPhase, captured, transcript, tokens, decision,
                 answered, unmetered>>

TellMessage ==
  /\ Sends(Wire!Message(idx, "said"))
  /\ IF Live THEN Goes("telling", "counting") /\ UNCHANGED idx
             ELSE Goes("telling", "turn") /\ idx' = idx + 1
  /\ UNCHANGED <<turnVars, lastPhase, attempt, transcript, tokens, decision,
                 answered, unmetered>>

TellUsage ==
  /\ Goes("counting", "turn") /\ Sends(Wire!Usage(tokens))
  /\ idx' = idx + 1
  /\ UNCHANGED <<turnVars, lastPhase, attempt, transcript, tokens, decision,
                 answered, unmetered>>

(* The error is told in the agent's place.  If nobody has said anything yet the
   debate is aborted. *)
\* Mutant: a failure never ends the debate.
GoesOnRegardless ==
  Goes("regretting", "turn") /\ idx' = idx + 1 /\ UNCHANGED decision
AbortsIfFirst ==
  IF transcript = {}
  THEN Goes("regretting", "concluding") /\ decision' = {Aborted} /\ UNCHANGED idx
  ELSE Goes("regretting", "turn") /\ idx' = idx + 1 /\ UNCHANGED decision

TellError ==
  /\ Sends(Wire!Message(idx, "error"))
  /\ AbortsIfFirst
  /\ UNCHANGED <<turnVars, lastPhase, attempt, transcript, tokens, answered, unmetered>>

(* Out of agents. *)
Conclude ==
  /\ idx > Len(Phases) /\ Goes("turn", "concluding")
  /\ decision' = IF ~Live THEN {Canned} ELSE IF decision = {} THEN {NoAssessment} ELSE decision
  /\ UNCHANGED <<turnVars, idx, lastPhase, attempt, captured, transcript, tokens,
                 answered, unmetered>>

CompleteSession ==
  /\ Goes("concluding", IF Live THEN "closing" ELSE "persisting")
  /\ \E d \in decision : Sends(Wire!Complete(d))
  /\ UNCHANGED <<turnVars, idx, lastPhase, attempt, transcript, tokens, decision,
                 answered, unmetered>>

(* The end -----------------------------------------------------------------*)
(* A send raises WebSocketDisconnect: a generator under way is closed at the
   yield it stands at, otherwise the handler just returns. *)
Sending == {"summary", "news", "starting", "telling", "counting", "regretting", "concluding"}
AtASend == at \in Sending \/ (at = "turn" /\ PhaseChanges)

Disconnect ==
  /\ "leave" \in Faults
  /\ AtASend
  /\ at' = IF adapter = "open" THEN "unwinding" ELSE "over"
  /\ UNCHANGED <<turnVars, idx, lastPhase, attempt, captured, transcript, tokens,
                 decision, answered, unmetered>>

\* Mutant: a stream that broke off is billed nothing.
BillsWhenComplete == IF Config.auth = "oauth" \/ at = "unwinding" THEN 0
                     ELSE EstimateCost(Config, tokens)
FinalCost == IF Config.auth = "oauth" THEN 0 ELSE EstimateCost(Config, tokens)

(* The finally block. *)
Finally ==
  /\ \/ Goes("closing", "persisting") \/ Goes("unwinding", "over")
  /\ adapter' = "closed" /\ reservation' = "final" /\ billed' = FinalCost
  /\ UNCHANGED <<request, hooks, idx, lastPhase, attempt, captured, transcript,
                 tokens, decision, receiver, stored, answered, unmetered>>

(* write_session_from_events never raises. *)
Persist ==
  /\ Goes("persisting", IF hooks = <<>> THEN "over" ELSE "dispatching")
  /\ stored' \in {TRUE} \cup (IF "disk" \in Faults THEN {FALSE} ELSE {})
  /\ UNCHANGED <<request, hooks, idx, lastPhase, attempt, captured, transcript, tokens,
                 decision, adapter, reservation, billed, receiver, answered, unmetered>>

(* dispatch_all: those the filters let through are posted side by side. *)
Dispatch ==
  /\ Goes("dispatching", "posting")
  /\ \E d \in decision : receiver' =
       [r \in DOMAIN hooks |-> IF Passes(hooks[r], d) THEN "posting" ELSE "filtered"]
  /\ UNCHANGED <<request, hooks, idx, lastPhase, attempt, captured, transcript, tokens,
                 decision, adapter, reservation, billed, stored, answered, unmetered>>

(* _fire_one: whatever happens to a post is its receiver's outcome. *)
FireOne(r, outcome) ==
  /\ Goes("posting", "posting") /\ receiver[r] = "posting"
  /\ receiver' = [receiver EXCEPT ![r] = outcome]
  /\ UNCHANGED <<request, hooks, idx, lastPhase, attempt, captured, transcript, tokens,
                 decision, adapter, reservation, billed, stored, answered, unmetered>>

(* All have an outcome.  That the client is gone is swallowed here. *)
ReportHooks ==
  /\ \A r \in DOMAIN receiver : receiver[r] # "posting"
  /\ Goes("posting", "over")
  /\ \/ Sends(Wire!Report(receiver))
     \/ "leave" \in Faults /\ UNCHANGED captured
  /\ UNCHANGED <<turnVars, idx, lastPhase, attempt, transcript, tokens, decision,
                 answered, unmetered>>

Crash ==
  /\ "crash" \in Faults
  /\ at # "over" /\ at' = "dead"
  /\ UNCHANGED <<turnVars, idx, lastPhase, attempt, captured, transcript, tokens,
                 decision, answered, unmetered>>

Next ==
  \/ FetchSummary \/ FetchNews \/ OpenAdapter \/ StartSession
  \/ AnnouncePhase \/ TakeTurn \/ TellMessage \/ TellUsage \/ TellError
  \/ \E usage \in Usages, content \in Contents :
       AnswerCall(usage, content)
  \/ \E error \in ErrorsOf(AdapterFor(Config)) : FailCall(error)
  \/ Conclude \/ CompleteSession \/ Disconnect \/ Finally
  \/ Persist \/ Dispatch \/ ReportHooks
  \/ \E r \in DOMAIN receiver, outcome \in Outcomes : FireOne(r, outcome)
  \/ Crash

Spec == Init /\ [][Next]_vars

(* Properties --------------------------------------------------------------*)
\* Types; a turn's calls are within the attempts there are, one for a local
\* runtime; an assessment is there from the conclusion on.
TypeOK ==
  /\ request \in Requests /\ hooks \in {Parsed(h) : h \in Hooks}
  /\ at \in Sending \cup {"opening", "turn", "calling", "closing", "unwinding",
                          "persisting", "dispatching", "posting", "over", "dead"}
  /\ idx \in 1 .. Len(Phases) + 1 /\ transcript \subseteq Agents
  /\ lastPhase \in {None} \cup {Phases[i] : i \in Agents}
  /\ attempt \in 0..MaxAttempts /\ (Config.provider = "local" => attempt <= 1)
  /\ tokens \in 0..Len(Phases) /\ billed \in 0..Len(Phases)
  /\ answered \in 0..Len(Phases) /\ unmetered \in 0..Len(Phases)
  /\ decision \subseteq Answer /\ Cardinality(decision) <= 1
  /\ at \in {"concluding", "closing", "persisting", "dispatching", "posting"} => decision # {}
  /\ adapter \in {"closed", "open"} /\ reservation \in {"none", "open", "final"}
  /\ receiver \in [DOMAIN hooks -> Outcomes \cup {"unasked", "posting", "filtered"}]
  /\ stored \in BOOLEAN

\* Whatever fails, whoever leaves, at whatever point: the agents are heard in
\* order, phases announced, one assessment given, each receiver told once.
KeepsProtocol == Wire!Spec

\* However a stream ends, its client is closed and its reservation, once the
\* debate began, is settled with the price of every answer the provider gave,
\* also the one nobody was told of, less exactly those that told no usage: what
\* these cost is billed to nobody.
CallsAccounted ==
  /\ reservation = "final" =>
       billed = IF Config.auth = "oauth" THEN 0
                ELSE EstimateCost(Config, answered - unmetered)
  /\ at = "over" /\ captured # <<>> /\ (\E i \in DOMAIN captured : captured[i] = Wire!Start)
       => adapter = "closed" /\ reservation # "open"

\* docs/kb/reading-the-debate.md:27 "The date the analysis is anchored to. The
\* engine fetches data up to and including this date."
QuoteAsOf ==
  \A i \in DOMAIN captured :
    captured[i].type = "data.summary" => captured[i].asOf <= request.date
=============================================================================
