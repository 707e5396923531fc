--------------------------- MODULE LiveDebate_proofs ---------------------------
(***************************************************************************)
(* Proofs about LiveDebate, for any frames, hooks, table of agents, number *)
(* of attempts, prices and faults: a stream that got as far as the debate  *)
(* is settled with what its answers cost, however it ends; the variables   *)
(* keep their types; and what is heard and posted is a behaviour of        *)
(* DebateWire.                                                             *)
(***************************************************************************)
EXTENDS LiveDebate, SequenceTheorems, FiniteSetTheorems, WellFoundedInduction, TLAPS

Before == {"summary", "news", "opening"}
During == {"starting", "turn", "calling", "telling", "counting", "regretting",
           "concluding", "closing", "unwinding"}
Ending == {"persisting", "dispatching", "posting"}

IsStream == \E S : captured \in Seq(S)
NotStarted == \A i \in DOMAIN captured : captured[i] # Wire!Start

AnswersCost == IF Config.auth = "oauth" THEN 0 ELSE EstimateCost(Config, answered - unmetered)

\* The tokens are those of the answers that told them.
Metered == /\ answered \in Nat /\ unmetered \in Nat
           /\ tokens = answered - unmetered

Held == IF Live THEN "open" ELSE "none"

\* Where a stream stands decides what is open: the reservation is held until
\* the finally block, the client is open from adapter.open to there, and only a
\* stream that never announced its debate is over with the reservation held.
IInv ==
  /\ IsStream /\ Metered
  /\ at \in Before \cup During \cup Ending \cup {"over", "dead"}
  /\ at \in Before => adapter = "closed" /\ reservation = Held /\ NotStarted
  /\ at = "opening" => Live
  /\ at \in During => reservation = Held /\ adapter = IF Live THEN "open" ELSE "closed"
  /\ at \in Ending => adapter = "closed" /\ reservation \in {"none", "final"}
  /\ at = "over" => adapter = "closed" /\ (reservation \in {"none", "final"} \/ NotStarted)
  /\ reservation = "final" => at \in Ending \cup {"over", "dead"} /\ billed = AnswersCost

-------------------------------------------------------------------------------
\* An event that is appended, and is not the start of a debate, starts none.
LEMMA SendsOne ==
  ASSUME IsStream, NEW e, Sends(e)
  PROVE  IsStream' /\ (NotStarted /\ e # Wire!Start => NotStarted')
<1>1. PICK S : captured \in Seq(S)
  BY DEF IsStream
<1>2. captured \in Seq(S \cup {e}) /\ e \in S \cup {e}
  BY <1>1
<1>3. /\ captured' \in Seq(S \cup {e})
      /\ DOMAIN captured = 1 .. Len(captured) /\ DOMAIN captured' = 1 .. Len(captured) + 1
      /\ Len(captured) \in Nat
      /\ \A i \in 1 .. Len(captured) : captured'[i] = captured[i]
      /\ captured'[Len(captured) + 1] = e
  BY <1>2 DEF Sends
<1>4. IsStream'
  BY <1>3 DEF IsStream
<1>5. ASSUME NotStarted, e # Wire!Start, NEW i \in DOMAIN captured' PROVE captured'[i] # Wire!Start
  <2>1. i \in 1 .. Len(captured) \/ i = Len(captured) + 1
    BY <1>3
  <2> QED
    BY <1>3, <1>5, <2>1 DEF NotStarted
<1>6. NotStarted /\ e # Wire!Start => NotStarted'
  BY <1>5 DEF NotStarted, Wire!Start
<1> QED
  BY <1>4, <1>6

\* The data that precedes a debate does not start it.
LEMMA DataIsNoStart == Wire!Headlines # Wire!Start /\ \A day : Wire!Summary(day) # Wire!Start
  BY DEF Wire!Headlines, Wire!Start, Wire!Summary

\* What a step leaves alone.
Rest == UNCHANGED <<request, tokens, answered, unmetered>>

LEMMA SameCost == Rest => Live' = Live /\ Held' = Held /\ AnswersCost' = AnswersCost
  BY DEF Rest, Live, Held, AnswersCost, Config

\* Before the debate.
LEMMA OpeningKeeps ==
  ASSUME IInv, FetchSummary \/ FetchNews \/ OpenAdapter \/ StartSession PROVE IInv'
<1> USE DEF Before, During, Ending
<1>0. Rest /\ Live' = Live /\ Held' = Held /\ AnswersCost' = AnswersCost
  <2>1. Rest
    BY DEF Rest, FetchSummary, FetchNews, OpenAdapter, StartSession, turnVars
  <2> QED
    BY <2>1, SameCost
<1>1. CASE FetchSummary
  <2>1. IsStream' /\ NotStarted'
    <3>1. CASE UNCHANGED captured
      BY <1>1, <3>1 DEF IInv, Metered, FetchSummary, Goes, IsStream, NotStarted, Wire!Start
    <3>2. CASE \E day \in QuoteSummary(DataProvider(request.data), request.date) :
                 Sends(Wire!Summary(day))
      BY <1>1, <3>2, SendsOne, DataIsNoStart DEF IInv, FetchSummary, Goes
    <3> QED
      BY <1>1, <3>1, <3>2 DEF FetchSummary
  <2> QED
    BY <1>0, <1>1, <2>1 DEF IInv, Metered, FetchSummary, Goes, turnVars, Rest
<1>2. CASE FetchNews
  <2>1. IsStream' /\ NotStarted'
    <3>1. CASE UNCHANGED captured
      BY <1>2, <3>1 DEF IInv, Metered, FetchNews, Goes, IsStream, NotStarted, Wire!Start
    <3>2. CASE Sends(Wire!Headlines)
      BY <1>2, <3>2, SendsOne, DataIsNoStart DEF IInv, FetchNews, Goes
    <3> QED
      BY <1>2, <3>1, <3>2 DEF FetchNews
  <2> QED
    BY <1>0, <1>2, <2>1 DEF IInv, Metered, FetchNews, Goes, turnVars, Rest, Held
<1>3. CASE OpenAdapter
  <2>1. IsStream' /\ NotStarted'
    BY <1>3 DEF IInv, Metered, OpenAdapter, Goes, IsStream, NotStarted, Wire!Start
  <2>2. reservation' = reservation /\ billed' = billed
    BY <1>3 DEF OpenAdapter
  <2>3. at = "opening" /\ Live /\ adapter = "closed" /\ reservation = Held
    BY <1>3 DEF IInv, Metered, OpenAdapter, Goes
  <2>4. CASE at' = "starting" /\ adapter' = "open"
    BY <1>0, <2>1, <2>2, <2>3, <2>4 DEF IInv, Metered, Rest, Held
  <2>5. CASE at' = "over" /\ adapter' = adapter
    BY <1>0, <2>1, <2>2, <2>3, <2>5 DEF IInv, Metered, Rest, Held
  <2> QED
    BY <1>3, <2>4, <2>5 DEF OpenAdapter, Goes
<1>4. CASE StartSession
  <2>1. IsStream'
    BY <1>4, SendsOne DEF IInv, StartSession
  <2> QED
    BY <1>0, <1>4, <2>1 DEF IInv, Metered, StartSession, Goes, turnVars, Rest
<1> QED
  BY <1>1, <1>2, <1>3, <1>4

\* A step within the debate that changes none of the accounts.
LEMMA DuringKeeps ==
  ASSUME IInv, Rest, UNCHANGED <<adapter, reservation, billed>>, IsStream',
         at \in During, at' \in During
  PROVE  IInv'
<1>1. Live' = Live /\ Held' = Held /\ AnswersCost' = AnswersCost
  BY SameCost
<1> QED
  BY <1>1 DEF IInv, Metered, Before, During, Ending, Rest

LEMMA AgentsKeep ==
  ASSUME IInv, AnnouncePhase \/ TakeTurn \/ TellMessage \/ TellUsage \/ TellError \/ Conclude
  PROVE  IInv'
<1>1. Rest /\ UNCHANGED <<adapter, reservation, billed>>
  BY DEF Rest, turnVars, AnnouncePhase, TakeTurn, TellMessage, TellUsage, TellError, Conclude
<1>2. IsStream'
  <2>1. UNCHANGED captured \/ \E e : Sends(e)
    BY DEF AnnouncePhase, TakeTurn, TellMessage, TellUsage, TellError, Conclude
  <2> QED
    BY <2>1, SendsOne DEF IInv, IsStream
<1>3. at \in During /\ at' \in During
  BY DEF Goes, During, AnnouncePhase, TakeTurn, TellMessage, TellUsage, TellError, Conclude, AbortsIfFirst
<1> QED
  BY <1>1, <1>2, <1>3, DuringKeeps

LEMMA CallsKeep ==
  ASSUME IInv,
         \/ \E usage \in Usages, content \in Contents : AnswerCall(usage, content)
         \/ \E error \in ErrorsOf(AdapterFor(Config)) : FailCall(error)
  PROVE  IInv'
<1>1. ASSUME NEW usage \in Usages, NEW content, AnswerCall(usage, content) PROVE IInv'
  <2>1. /\ at = "calling" /\ at' = "telling"
        /\ UNCHANGED <<request, adapter, reservation, billed, captured>>
        /\ tokens' = tokens + usage /\ answered' = answered + 1
        /\ unmetered' = unmetered + (1 - usage)
    BY <1>1 DEF AnswerCall, Goes, turnVars
  <2>2. Live' = Live /\ Held' = Held
    BY <2>1 DEF Live, Held, Config
  <2>3. Metered'
    BY <2>1 DEF IInv, Metered, Usages
  <2> QED
    BY <2>1, <2>2, <2>3 DEF IInv, Before, During, Ending, IsStream
<1>2. ASSUME NEW error, FailCall(error) PROVE IInv'
  <2>1. Rest /\ UNCHANGED <<adapter, reservation, billed>> /\ IsStream'
    BY <1>2 DEF FailCall, Rest, turnVars, IInv, IsStream
  <2>2. at \in During /\ at' \in During
    BY <1>2 DEF FailCall, Goes, During
  <2> QED
    BY <2>1, <2>2, DuringKeeps
<1> QED
  BY <1>1, <1>2

\* How a stream ends.
LEMMA EndKeeps ==
  ASSUME IInv, CompleteSession \/ Disconnect \/ Finally \/ Persist \/ Dispatch \/ ReportHooks \/ Crash
                 \/ \E r \in DOMAIN receiver, outcome \in Outcomes : FireOne(r, outcome)
  PROVE  IInv'
<1> USE DEF Before, During, Ending
<1>0. Rest /\ Live' = Live /\ Held' = Held /\ AnswersCost' = AnswersCost
  <2>1. Rest
    BY DEF Rest, turnVars, CompleteSession, Disconnect, Finally, Persist, Dispatch, ReportHooks,
           Crash, FireOne
  <2> QED
    BY <2>1, SameCost
<1>1. CASE CompleteSession
  <2>1. IsStream'
    BY <1>1, SendsOne DEF IInv, CompleteSession
  <2> QED
    BY <1>0, <1>1, <2>1 DEF IInv, Metered, CompleteSession, Goes, turnVars, Rest, Held
<1>2. CASE Disconnect
  <2>1. at \in Before \cup During /\ at' = IF adapter = "open" THEN "unwinding" ELSE "over"
    BY <1>2 DEF Disconnect, AtASend, Sending
  <2>2. UNCHANGED <<adapter, reservation, billed, captured>>
    BY <1>2 DEF Disconnect, turnVars
  <2>3. (NotStarted => NotStarted') /\ IsStream'
    BY <2>2 DEF IInv, Metered, IsStream, NotStarted, Wire!Start
  <2>4. CASE at \in Before
    BY <1>0, <2>1, <2>2, <2>3, <2>4 DEF IInv, Metered, Rest, Held
  <2>5. CASE at \in During
    BY <1>0, <2>1, <2>2, <2>3, <2>5 DEF IInv, Metered, Rest, Held
  <2> QED
    BY <2>1, <2>4, <2>5
<1>3. CASE Finally
  <2>1. /\ at \in {"closing", "unwinding"} /\ at' \in {"persisting", "over"}
        /\ adapter' = "closed" /\ reservation' = "final" /\ billed' = FinalCost
        /\ UNCHANGED captured
    BY <1>3 DEF Finally, Goes
  <2>2. FinalCost = AnswersCost
    BY DEF IInv, Metered, FinalCost, AnswersCost
  <2> QED
    BY <1>0, <2>1, <2>2 DEF IInv, Metered, Rest, IsStream
<1>4. CASE Persist \/ Dispatch \/ \E r \in DOMAIN receiver, outcome \in Outcomes : FireOne(r, outcome)
  <2>1. /\ at \in Ending /\ at' \in Ending \cup {"over"}
        /\ UNCHANGED <<adapter, reservation, billed, captured>>
    BY <1>4 DEF Persist, Dispatch, FireOne, Goes
  <2> QED
    BY <1>0, <2>1 DEF IInv, Metered, Rest, IsStream
<1>5. CASE ReportHooks
  <2>1. /\ at = "posting" /\ at' = "over" /\ UNCHANGED <<adapter, reservation, billed>>
    BY <1>5 DEF ReportHooks, Goes, turnVars
  <2>2. IsStream'
    BY <1>5, SendsOne DEF IInv, ReportHooks, IsStream
  <2> QED
    BY <1>0, <2>1, <2>2 DEF IInv, Metered, Rest
<1>6. CASE Crash
  <2>1. at' = "dead" /\ UNCHANGED <<adapter, reservation, billed, captured>>
    BY <1>6 DEF Crash, turnVars
  <2> QED
    BY <1>0, <2>1 DEF IInv, Metered, Rest, IsStream
<1> QED
  BY <1>1, <1>2, <1>3, <1>4, <1>5, <1>6

LEMMA AccountsInit == Init => IInv
<1> SUFFICES ASSUME Init PROVE IInv
  OBVIOUS
<1>1. captured \in Seq({}) /\ DOMAIN captured = {}
  BY EmptySeq DEF Init
<1> QED
  BY <1>1 DEF Init, IInv, Metered, IsStream, NotStarted, Held, Before, During, Ending

LEMMA AccountsNext == IInv /\ [Next]_vars => IInv'
<1> SUFFICES ASSUME IInv, [Next]_vars PROVE IInv'
  OBVIOUS
<1>1. CASE UNCHANGED vars
  BY <1>1, SameCost DEF vars, Rest, IInv, Metered, IsStream, NotStarted, Wire!Start
<1> QED
  BY <1>1, OpeningKeeps, AgentsKeep, CallsKeep, EndKeeps DEF Next

LEMMA Inductive == Spec => []IInv
BY AccountsInit, AccountsNext, PTL DEF Spec

\* However a stream ends - an agent that fails, a client that leaves at any
\* send, an adapter that does not open - its client is closed, and once the
\* debate began its reservation is settled with the price of every answer the
\* provider gave but those that told no usage, whatever adapter gave them.
THEOREM SettledAtCost == Spec => []CallsAccounted
<1>1. IInv => CallsAccounted
  <2> SUFFICES ASSUME IInv PROVE CallsAccounted
    OBVIOUS
  <2>1. reservation = "final" =>
          billed = IF Config.auth = "oauth" THEN 0 ELSE EstimateCost(Config, answered - unmetered)
    BY DEF IInv, Metered, AnswersCost
  <2>2. (\E i \in DOMAIN captured : captured[i] = Wire!Start) => ~NotStarted
    BY DEF NotStarted
  <2> QED
    BY <2>1, <2>2 DEF IInv, Metered, CallsAccounted
<1> QED
  BY <1>1, Inductive, PTL

-------------------------------------------------------------------------------
(***************************************************************************)
(* Type correctness, with what a turn is.                                  *)
(***************************************************************************)
Early == {"summary", "news", "opening", "starting"}
Turned == {"turn", "calling", "telling", "regretting"}
Debating == Turned \cup {"counting", "concluding"}
After == {"closing", "persisting", "dispatching", "posting"}

Convinced == {Decision(stance, conviction) : stance \in Stances, conviction \in 1..10}

\* A turn is an agent's; the answers that were billed, and the agents that said
\* something, are of agents that had their turn; the decision is the manager's.
TurnInv ==
  /\ at \in Early => /\ idx = 1 /\ tokens = 0 /\ answered = 0 /\ transcript = {}
                     /\ decision = {} /\ lastPhase = None
  /\ at \in {"calling", "telling", "counting", "regretting"} =>
       idx \in Agents /\ lastPhase = Phases[idx]
  /\ at \in {"calling", "counting", "regretting"} => Live
  /\ at \in {"turn", "calling", "regretting"} =>
       tokens < idx /\ answered < idx /\ transcript \subseteq 1 .. idx - 1
  /\ at \in {"telling", "counting"} =>
       tokens <= idx /\ answered <= idx /\ transcript \subseteq 1 .. idx
  /\ at \in {"turn", "calling", "regretting"} /\ Live /\ idx > 1 => transcript # {}
  /\ at \in {"telling", "counting"} /\ Live => transcript # {}
  /\ at \in {"calling", "regretting"} => decision = {}
  /\ at \in Turned \cup {"counting"} =>
       decision \subseteq Convinced /\ (idx < Len(Phases) => decision = {})
  /\ at = "turn" /\ idx \in Agents => decision = {}
  /\ \E d : decision \subseteq {d}

\* The table of agents, and what the assessments are.
LEMMA Tables ==
  /\ Len(Phases) \in Nat /\ Len(Phases) > 1 /\ Agents = 1 .. Len(Phases)
  /\ \A i \in Agents : Phases[i] # None
  /\ \A content \in Contents : ParseDecision(content) \in Convinced
  /\ Convinced \subseteq Answer
  /\ NoAssessment \in Convinced /\ Canned \in Convinced /\ Aborted \in Answer
  /\ Usages = 0 .. 1
<1>1. /\ Len(Phases) \in Nat /\ Len(Phases) > 1 /\ Agents = 1 .. Len(Phases)
      /\ \A i \in Agents : Phases[i] # None
  BY PhasesAssumption DEF Agents
<1>2. "neutral" \in Stances /\ "bullish" \in Stances
  BY DEF Stances
<1>3. \A content \in Contents : ParseDecision(content) \in Convinced
  BY <1>2 DEF Contents, ParseDecision, NormalizeStance, Convinced, Decision
<1>4. NoAssessment \in Convinced /\ Canned \in Convinced
  BY <1>2 DEF NoAssessment, Canned, Convinced
<1>5. Aborted \in Answer
  BY <1>2 DEF Aborted, Answer, Decision
<1>6. Convinced \subseteq Answer
  BY DEF Convinced, Answer, Decision
<1>7. Usages = 0 .. 1
  BY DEF Usages
<1> QED
  BY <1>1, <1>3, <1>4, <1>5, <1>6, <1>7

\* At most one assessment.
LEMMA OneDecision ==
  /\ Cardinality({}) <= 1
  /\ \A d : Cardinality({d}) <= 1
BY FS_EmptySet, FS_Singleton

LEMMA SameConfig == request' = request => Config' = Config /\ Live' = Live
BY DEF Config, Live

\* The starting point.
LEMMA TurnInit == Init => TypeOK /\ TurnInv
<1> SUFFICES ASSUME Init PROVE TypeOK /\ TurnInv
  OBVIOUS
<1> USE DEF Init
<1>1. /\ idx \in 1 .. Len(Phases) + 1 /\ attempt \in 0 .. MaxAttempts
      /\ tokens \in 0 .. Len(Phases) /\ billed \in 0 .. Len(Phases)
      /\ answered \in 0 .. Len(Phases) /\ unmetered \in 0 .. Len(Phases)
  BY Tables, AttemptsAssumption
<1>2. Cardinality(decision) <= 1
  BY OneDecision
<1>3. TurnInv
  BY DEF TurnInv, Early, Turned
<1>4. receiver \in [DOMAIN hooks -> Outcomes \cup {"unasked", "posting", "filtered"}]
  OBVIOUS
<1>5. lastPhase \in {None} \cup {Phases[i] : i \in Agents} /\ attempt <= 1
  OBVIOUS
<1>6. at = "summary" /\ decision \subseteq Answer /\ transcript \subseteq Agents
  OBVIOUS
<1>7. TypeOK
  BY <1>1, <1>2, <1>4, <1>5, <1>6 DEF TypeOK, Sending
<1> QED
  BY <1>3, <1>7


Places == Sending \cup {"opening", "turn", "calling", "closing", "unwinding",
                        "persisting", "dispatching", "posting", "over", "dead"}

\* A step that moves only the place, to one that asks nothing more, keeps types.
LEMMA MoveKeeps ==
  ASSUME TypeOK, TurnInv, at' \in Places, adapter' \in {"closed", "open"},
         UNCHANGED <<request, hooks, idx, lastPhase, attempt, transcript, tokens, decision,
                     reservation, billed, receiver, stored, answered, unmetered>>,
         at' \in {"concluding"} \cup (After \ {"posting"}) => decision # {},
         at' = "posting" => decision # {},
         at' \in Early => at \in Early,
         at' = "turn" => at \in {"starting", "turn"},
         at' \notin {"calling", "telling", "counting", "regretting"}
  PROVE  TypeOK' /\ TurnInv'
<1>1. Config' = Config /\ Live' = Live
  BY SameConfig
<1>2. TypeOK'
  BY <1>1 DEF TypeOK, Places, After
<1>3. TurnInv'
  <2>1. \E d : decision' \subseteq {d}
    BY DEF TurnInv
  <2>2. CASE at' = "turn"
    <3>1. /\ tokens < idx /\ transcript \subseteq 1 .. idx - 1
          /\ Live /\ idx > 1 => transcript # {}
          /\ decision \subseteq Convinced /\ (idx < Len(Phases) => decision = {})
          /\ idx \in Agents => decision = {}
      BY <2>2, Tables DEF TurnInv, Early, Turned
    <3> QED
      BY <1>1, <2>1, <2>2, <3>1 DEF TurnInv, Early, Turned
  <2>3. CASE at' # "turn"
    BY <1>1, <2>1, <2>3 DEF TurnInv, Early, Turned
  <2> QED
    BY <2>2, <2>3
<1> QED
  BY <1>2, <1>3

\* Before the debate, and from its end on.
LEMMA TypeEnds ==
  ASSUME TypeOK, TurnInv,
         \/ FetchSummary \/ FetchNews \/ OpenAdapter \/ StartSession
         \/ CompleteSession \/ Disconnect \/ ReportHooks \/ Crash
  PROVE  TypeOK' /\ TurnInv'
<1>1. UNCHANGED <<request, hooks, idx, lastPhase, attempt, transcript, tokens, decision,
                  reservation, billed, receiver, stored, answered, unmetered>>
  BY DEF FetchSummary, FetchNews, OpenAdapter, StartSession, CompleteSession, Disconnect,
         ReportHooks, Crash, turnVars
<1>2. adapter' \in {"closed", "open"}
  BY DEF TypeOK, FetchSummary, FetchNews, OpenAdapter, StartSession, CompleteSession, Disconnect,
         ReportHooks, Crash, turnVars
<1>3. /\ at' \in {"news", "opening", "starting", "turn", "closing", "persisting",
                  "unwinding", "over", "dead"}
      /\ at' \in {"news", "opening", "starting"} => at \in Early
      /\ at' = "turn" => at = "starting"
      /\ at' \in {"closing", "persisting"} => at = "concluding"
  BY DEF FetchSummary, FetchNews, OpenAdapter, StartSession, CompleteSession, Disconnect,
         ReportHooks, Crash, Goes, Early
<1>4. at = "concluding" => decision # {}
  BY DEF TypeOK
<1> QED
  BY <1>1, <1>2, <1>3, <1>4, MoveKeeps DEF Places, Sending, Early, After

\* The settling of the accounts and the webhooks.
LEMMA TypeTail ==
  ASSUME TypeOK, TurnInv,
         \/ Finally \/ Persist \/ Dispatch
         \/ \E r \in DOMAIN receiver, outcome \in Outcomes : FireOne(r, outcome)
  PROVE  TypeOK' /\ TurnInv'
<1>1. UNCHANGED <<request, hooks, idx, lastPhase, attempt, transcript, tokens, decision,
                  answered, unmetered>>
  BY DEF Finally, Persist, Dispatch, FireOne
<1>2. Config' = Config /\ Live' = Live
  BY <1>1, SameConfig
<1>3. /\ at' \in {"persisting", "over", "dispatching", "posting"}
      /\ at' # "over" => decision # {}
  BY DEF Finally, Persist, Dispatch, FireOne, Goes, TypeOK
<1>4. TurnInv'
  <2>1. \E d : decision' \subseteq {d}
    BY <1>1 DEF TurnInv
  <2> QED
    BY <1>3, <2>1 DEF TurnInv, Early, Turned
<1>5. /\ adapter' \in {"closed", "open"} /\ reservation' \in {"none", "open", "final"}
      /\ stored' \in BOOLEAN
  BY DEF Finally, Persist, Dispatch, FireOne, TypeOK
<1>6. billed' \in 0 .. Len(Phases)
  <2>1. FinalCost \in 0 .. Len(Phases)
    BY Tables DEF FinalCost, EstimateCost, TypeOK
  <2> QED
    BY <2>1 DEF Finally, Persist, Dispatch, FireOne, TypeOK
<1>7. receiver' \in [DOMAIN hooks -> Outcomes \cup {"unasked", "posting", "filtered"}]
  <2>1. CASE Dispatch
    BY <2>1 DEF Dispatch
  <2>2. ASSUME NEW r \in DOMAIN receiver, NEW outcome \in Outcomes, FireOne(r, outcome)
        PROVE  receiver' \in [DOMAIN hooks -> Outcomes \cup {"unasked", "posting", "filtered"}]
    BY <2>2 DEF FireOne, TypeOK
  <2>3. CASE Finally \/ Persist
    BY <2>3 DEF Finally, Persist, TypeOK
  <2> QED
    BY <2>1, <2>2, <2>3
<1>8. TypeOK'
  BY <1>1, <1>2, <1>3, <1>5, <1>6, <1>7 DEF TypeOK
<1> QED
  BY <1>4, <1>8

\* A turn begins: its phase is announced, or its agent asked.
LEMMA TypeTurn ==
  ASSUME TypeOK, TurnInv, AnnouncePhase \/ TakeTurn
  PROVE  TypeOK' /\ TurnInv'
<1>1. /\ at = "turn" /\ at' \in {"turn", "calling", "telling"} /\ idx \in Agents
      /\ at' = "calling" => Live
      /\ lastPhase' = Phases[idx] /\ attempt' \in {attempt, 1}
      /\ UNCHANGED <<request, hooks, idx, transcript, tokens, decision, adapter,
                     reservation, billed, receiver, stored, answered, unmetered>>
  BY DEF AnnouncePhase, TakeTurn, PhaseChanges, Goes, turnVars
<1>2. Config' = Config /\ Live' = Live
  BY <1>1, SameConfig
<1>3. at' = "telling" => ~Live
  BY DEF AnnouncePhase, TakeTurn, Goes
<1>4. TurnInv'
  <2>1. /\ idx \in Nat /\ tokens \in Nat /\ tokens < idx /\ transcript \subseteq 1 .. idx - 1
        /\ answered \in Nat /\ answered < idx /\ tokens <= idx /\ answered <= idx
        /\ transcript \subseteq 1 .. idx
    BY <1>1, Tables DEF TypeOK, TurnInv
  <2> QED
    BY <1>1, <1>2, <1>3, <2>1 DEF TurnInv, Early, Turned
<1>5. attempt' \in 0 .. MaxAttempts /\ (Config.provider = "local" => attempt' <= 1)
  BY <1>1, AttemptsAssumption DEF TypeOK
<1>6. TypeOK'
  BY <1>1, <1>2, <1>5 DEF TypeOK, Sending
<1> QED
  BY <1>4, <1>6

\* A call that comes back.
LEMMA TypeAnswer ==
  ASSUME TypeOK, TurnInv, Metered, NEW usage \in Usages,
         NEW content \in Contents, AnswerCall(usage, content)
  PROVE  TypeOK' /\ TurnInv'
<1>1. /\ at = "calling" /\ at' = "telling" /\ idx \in Agents /\ Live
      /\ tokens' = tokens + usage /\ answered' = answered + 1
      /\ unmetered' = unmetered + (1 - usage)
      /\ transcript' = transcript \cup {idx}
      /\ decision' = IF idx = Len(Phases) THEN {ParseDecision(content)} ELSE decision
      /\ UNCHANGED <<request, hooks, idx, lastPhase, attempt, adapter,
                     reservation, billed, receiver, stored>>
  BY DEF AnswerCall, Goes, turnVars, TurnInv
<1>2. Config' = Config /\ Live' = Live
  BY <1>1, SameConfig
<1>3. /\ idx \in 1 .. Len(Phases) /\ tokens \in Nat /\ tokens < idx /\ usage \in 0 .. 1
      /\ answered \in Nat /\ answered < idx /\ unmetered \in Nat
      /\ unmetered <= answered
      /\ transcript \subseteq 1 .. idx - 1 /\ decision = {} /\ lastPhase = Phases[idx]
  BY <1>1, Tables DEF TypeOK, TurnInv, Metered
<1>4. tokens' <= idx /\ answered' <= idx /\ tokens' \in 0 .. Len(Phases) /\ transcript' \subseteq 1 .. idx
  BY <1>1, <1>3, Tables
<1>5. decision' \subseteq Convinced /\ (idx < Len(Phases) => decision' = {})
      /\ Cardinality(decision') <= 1
  <2>1. CASE idx = Len(Phases)
    <3>1. ParseDecision(content) \in Convinced /\ decision' = {ParseDecision(content)}
      BY <1>1, <2>1, Tables
    <3>2. Cardinality(decision') <= 1
      BY <3>1, OneDecision
    <3>3. ~(idx < Len(Phases))
      BY <2>1, Tables
    <3> QED
      BY <3>1, <3>2, <3>3
  <2>2. CASE idx # Len(Phases)
    BY <1>1, <1>3, <2>2, OneDecision
  <2> QED
    BY <2>1, <2>2
<1>6. TurnInv'
  BY <1>1, <1>2, <1>3, <1>4, <1>5 DEF TurnInv, Early, Turned
<1>7. transcript' \subseteq Agents /\ answered' \in 0 .. Len(Phases) /\ unmetered' \in 0 .. Len(Phases)
      /\ decision' \subseteq Answer
  BY <1>1, <1>3, <1>4, <1>5, Tables
<1>8. TypeOK'
  BY <1>1, <1>2, <1>4, <1>5, <1>7 DEF TypeOK, Sending
<1> QED
  BY <1>6, <1>8

\* A call that fails: another attempt, or the agent's turn is over.
LEMMA TypeFail ==
  ASSUME TypeOK, TurnInv, NEW error, FailCall(error)
  PROVE  TypeOK' /\ TurnInv'
<1>1. /\ at = "calling" /\ at' \in {"calling", "regretting"}
      /\ \/ attempt' = attempt + 1 /\ Config.provider # "local" /\ attempt < MaxAttempts
         \/ attempt' = attempt
      /\ UNCHANGED <<request, hooks, idx, lastPhase, transcript, tokens, decision, adapter,
                     reservation, billed, receiver, stored, answered, unmetered>>
  BY DEF FailCall, Retries, Goes, turnVars
<1>2. Config' = Config /\ Live' = Live
  BY <1>1, SameConfig
<1>3. attempt' \in 0 .. MaxAttempts /\ (Config.provider = "local" => attempt' <= 1)
  BY <1>1, AttemptsAssumption DEF TypeOK
<1>4. TurnInv'
  BY <1>1, <1>2 DEF TurnInv, Early, Turned
<1>5. TypeOK'
  BY <1>1, <1>2, <1>3 DEF TypeOK, Sending
<1> QED
  BY <1>4, <1>5

\* What an agent said, used or could not do is told.
LEMMA TypeTell ==
  ASSUME TypeOK, TurnInv, TellMessage \/ TellUsage \/ TellError
  PROVE  TypeOK' /\ TurnInv'
<1>1. /\ at \in {"telling", "counting", "regretting"} /\ idx \in Agents
      /\ UNCHANGED <<request, hooks, lastPhase, attempt, transcript, tokens, adapter,
                     reservation, billed, receiver, stored, answered, unmetered>>
      /\ \/ at' = "turn" /\ idx' = idx + 1 /\ decision' = decision
         \/ at = "telling" /\ Live /\ at' = "counting" /\ idx' = idx /\ decision' = decision
         \/ at' = "concluding" /\ idx' = idx /\ decision' = {Aborted}
      /\ at = "regretting" /\ at' = "turn" => transcript # {}
      /\ at = "telling" /\ at' = "turn" => ~Live
  BY DEF TellMessage, TellUsage, TellError, AbortsIfFirst, Goes, turnVars, TurnInv
<1>2. Config' = Config /\ Live' = Live
  BY <1>1, SameConfig
<1>3. /\ idx \in 1 .. Len(Phases) /\ tokens \in Nat /\ answered \in Nat
      /\ idx' \in 1 .. Len(Phases) + 1
      /\ tokens <= idx /\ answered <= idx /\ transcript \subseteq 1 .. idx
  <2>1. at = "regretting" =>
          tokens < idx /\ answered < idx /\ transcript \subseteq 1 .. idx - 1
    BY <1>1 DEF TurnInv
  <2>2. idx \in 1 .. Len(Phases) /\ tokens \in Nat /\ answered \in Nat
    BY <1>1, Tables DEF TypeOK
  <2>3. at # "regretting" => tokens <= idx /\ answered <= idx /\ transcript \subseteq 1 .. idx
    BY <1>1 DEF TurnInv
  <2> QED
    BY <1>1, <2>1, <2>2, <2>3, Tables
<1>4. TurnInv'
  <2>1. CASE at' = "turn" /\ idx' = idx + 1 /\ decision' = decision
    <3>1. tokens' < idx' /\ answered' < idx' /\ transcript' \subseteq 1 .. idx' - 1
      BY <1>1, <1>3, <2>1
    <3>2. Live => transcript # {}
      BY <1>1, <2>1 DEF TurnInv
    <3>3. decision' \subseteq Convinced /\ (idx < Len(Phases) => decision' = {})
      BY <1>1, <2>1 DEF TurnInv, Turned
    <3>4. idx' < Len(Phases) => decision' = {}
      BY <1>3, <2>1, <3>3, Tables
    <3>5. idx' \in Agents => decision' = {}
      BY <1>3, <2>1, <3>3, Tables
    <3> QED
      BY <1>1, <1>2, <2>1, <3>1, <3>2, <3>3, <3>4, <3>5 DEF TurnInv, Early, Turned
  <2>2. CASE at = "telling" /\ Live /\ at' = "counting" /\ idx' = idx /\ decision' = decision
    BY <1>1, <1>2, <2>2 DEF TurnInv, Early, Turned
  <2>3. CASE at' = "concluding"
    <3>1. \E d : decision' \subseteq {d}
      BY <1>1, <2>3
    <3> QED
      BY <2>3, <3>1 DEF TurnInv, Early, Turned
  <2> QED
    BY <1>1, <2>1, <2>2, <2>3
<1>5. /\ decision' \subseteq Answer /\ Cardinality(decision') <= 1
      /\ at' = "concluding" => decision' # {}
  BY <1>1, Tables, OneDecision DEF TypeOK
<1>6. TypeOK'
  BY <1>1, <1>2, <1>3, <1>5 DEF TypeOK, Sending
<1> QED
  BY <1>4, <1>6

\* The assessment.
LEMMA TypeConclude ==
  ASSUME TypeOK, TurnInv, Conclude
  PROVE  TypeOK' /\ TurnInv'
<1>1. /\ at = "turn" /\ at' = "concluding"
      /\ decision' \in {{Canned}, {NoAssessment}, decision} /\ decision' # {}
      /\ UNCHANGED <<request, hooks, idx, lastPhase, attempt, transcript, tokens, adapter,
                     reservation, billed, receiver, stored, answered, unmetered>>
  BY DEF Conclude, Goes, turnVars
<1>2. Config' = Config
  BY <1>1, SameConfig
<1>3. decision' \subseteq Answer /\ Cardinality(decision') <= 1
  BY <1>1, Tables, OneDecision DEF TypeOK
<1>4. TurnInv'
  BY <1>1 DEF TurnInv, Early, Turned
<1>5. TypeOK'
  BY <1>1, <1>2, <1>3 DEF TypeOK, Sending
<1> QED
  BY <1>4, <1>5

LEMMA TypeNext == TypeOK /\ TurnInv /\ IInv /\ [Next]_vars => TypeOK' /\ TurnInv'
<1> SUFFICES ASSUME TypeOK, TurnInv, IInv, [Next]_vars PROVE TypeOK' /\ TurnInv'
  OBVIOUS
<1>1. Metered
  BY DEF IInv
<1>2. CASE UNCHANGED vars
  <2>1. Config' = Config /\ Live' = Live
    BY <1>2, SameConfig DEF vars
  <2>2. TypeOK'
    BY <1>2, <2>1 DEF vars, TypeOK
  <2> QED
    BY <1>2, <2>1, <2>2 DEF vars, TurnInv
<1> QED
  BY <1>1, <1>2, TypeEnds, TypeTail, TypeTurn, TypeAnswer, TypeFail, TypeTell, TypeConclude DEF Next

\* Whatever fails and whoever leaves: a turn's calls are within the attempts
\* there are, one for a local runtime; there is one assessment at most, and one
\* from the conclusion on.
THEOREM TypeCorrect == Spec => []TypeOK
BY TurnInit, TypeNext, Inductive, PTL DEF Spec


-------------------------------------------------------------------------------
(***************************************************************************)
(* What a stream's listeners hear.                                         *)
(***************************************************************************)
\* Some numbers up to a bound have a largest.
LEMMA LargestOf ==
  ASSUME NEW n \in Nat, NEW S \in SUBSET (0 .. n), S # {}
  PROVE  Max(S) \in S /\ \A y \in S : Max(S) >= y
<1> DEFINE T == {n - x : x \in S}
<1>1. T \subseteq Nat /\ T # {}
  OBVIOUS
<1>2. IsWellFoundedOn(OpToRel(<, Nat), Nat)
  BY NatLessThanWellFounded
<1>3. PICK a \in T : \A b \in T : ~(<<b, a>> \in OpToRel(<, Nat))
  BY <1>1, <1>2, WFMin
<1>4. \A b \in T : ~(b < a)
  BY <1>1, <1>3 DEF OpToRel
<1>5. PICK x \in S : a = n - x
  BY <1>3
<1>6. \A y \in S : x >= y
  BY <1>4, <1>5
<1>7. \E z \in S : \A y \in S : z >= y
  BY <1>6
<1> QED
  BY <1>7 DEF Max

\* A quote is of a day there has been.
LEMMA QuotedDays ==
  ASSUME NEW provider, NEW date
  PROVE  QuoteSummary(provider, date) \subseteq 0 .. Today
<1>1. ASSUME NEW closed \in SUBSET (0 .. Today)
      PROVE  AlpacaQuote(closed) \subseteq 0 .. Today /\ YahooQuote(closed, date) \subseteq 0 .. Today
  <2>1. closed # {} => Max(closed) \in closed
    BY DaysAssumption, LargestOf
  <2> QED
    BY <2>1 DEF AlpacaQuote, YahooQuote
<1>2. AlpacaAsks(date) \subseteq 0 .. Today /\ YahooAsks(date) \subseteq 0 .. Today
  BY DEF AlpacaAsks, YahooAsks, Window
<1> QED
  BY <1>1, <1>2 DEF QuoteSummary

\* The operators both modules take from others are the same.
LEMMA SameOperators ==
  /\ \A S : Wire!Cardinality(S) = Cardinality(S)
  /\ \A S : Wire!Max(S) = Max(S)
  /\ \A s : Wire!Last(s) = Last(s)
  /\ \A filter, d : Wire!Passes(filter, d) <=> Passes(filter, d)
  /\ \A stance, conviction : Wire!Decision(stance, conviction) = Decision(stance, conviction)
  /\ Wire!NoAssessment = NoAssessment /\ Wire!Aborted = Aborted
  /\ Wire!Stances = Stances /\ Wire!Outcomes = Outcomes /\ Wire!Agents = Agents
<1>1. \A S : Wire!Cardinality(S) = Cardinality(S)
  BY DEF Wire!Cardinality, Cardinality
<1>2. \A S : Wire!Max(S) = Max(S)
  BY DEF Wire!Max, Max
<1>3. \A s : Wire!Last(s) = Last(s)
  BY DEF Wire!Last, Last
<1>4. /\ \A stance, conviction : Wire!Decision(stance, conviction) = Decision(stance, conviction)
      /\ Wire!Stances = Stances /\ Wire!Outcomes = Outcomes /\ Wire!Agents = Agents
  BY DEF Wire!Decision, Decision, Wire!Stances, Stances, Wire!Outcomes, Outcomes, Wire!Agents, Agents
<1>5. Wire!NoAssessment = NoAssessment /\ Wire!Aborted = Aborted
  BY <1>4 DEF Wire!NoAssessment, NoAssessment, Wire!Aborted, Aborted
<1>6. \A value : Wire!NormalizeStance(value) = NormalizeStance(value)
  BY <1>4 DEF Wire!NormalizeStance, NormalizeStance, Wire!Legacy, Legacy
<1>7. \A filter, d : Wire!Passes(filter, d) <=> Passes(filter, d)
  BY <1>6 DEF Wire!Passes, Passes
<1> QED
  BY <1>1, <1>2, <1>3, <1>4, <1>5, <1>7

\* An event that is sent is the latest of its type, and of all.
LEMMA HeardGrows ==
  ASSUME IsStream, NEW e, Sends(e)
  PROVE  /\ \A type : Wire!Heard(type)' <=> Wire!Heard(type) \/ e.type = type
         /\ Wire!Spoken \in Nat
         /\ Wire!Spoken' = IF e.type = "agent.message" THEN Wire!Spoken + 1 ELSE Wire!Spoken
         /\ Wire!LastType' = e.type /\ Last(captured') = e
         /\ \A type : e.type = type => Wire!Latest(type)' = e
         /\ \A type : e.type # type /\ Wire!Heard(type) => Wire!Latest(type)' = Wire!Latest(type)
<1> DEFINE n == Len(captured)
<1>1. PICK S : captured \in Seq(S)
  BY DEF IsStream
<1>2. captured \in Seq(S \cup {e}) /\ e \in S \cup {e}
  BY <1>1
<1>3. /\ captured' \in Seq(S \cup {e})
      /\ n \in Nat /\ Len(captured') = n + 1
      /\ DOMAIN captured = 1 .. n /\ DOMAIN captured' = 1 .. n + 1
      /\ \A i \in 1 .. n : captured'[i] = captured[i]
      /\ captured'[n + 1] = e
  BY <1>2 DEF Sends
<1> HIDE DEF n
<1>4. ASSUME NEW type
      PROVE  /\ Wire!At(type) \in SUBSET (1 .. n)
             /\ Wire!At(type)' = IF e.type = type THEN Wire!At(type) \cup {n + 1} ELSE Wire!At(type)
  <2>1. Wire!At(type) = {i \in 1 .. n : captured[i].type = type}
    BY <1>3 DEF Wire!At
  <2>2. Wire!At(type)' = {i \in 1 .. n + 1 : captured'[i].type = type}
    BY <1>3 DEF Wire!At
  <2>3. CASE e.type = type
    BY <1>3, <2>1, <2>2, <2>3
  <2>4. CASE e.type # type
    BY <1>3, <2>1, <2>2, <2>4
  <2> QED
    BY <2>1, <2>3, <2>4
<1>5. \A type : Wire!Heard(type)' <=> Wire!Heard(type) \/ e.type = type
  BY <1>4 DEF Wire!Heard
<1>6. /\ Wire!Spoken \in Nat
      /\ Wire!Spoken' = IF e.type = "agent.message" THEN Wire!Spoken + 1 ELSE Wire!Spoken
  <2> DEFINE A == Wire!At("agent.message")
  <2>1. A \in SUBSET (1 .. n) /\ n + 1 \notin A
    BY <1>3, <1>4
  <2>2. IsFiniteSet(1 .. n)
    BY <1>3, FS_Interval
  <2>3. IsFiniteSet(A)
    BY <2>1, <2>2, FS_Subset
  <2>4. Cardinality(A) \in Nat /\ Cardinality(A \cup {n + 1}) = Cardinality(A) + 1
    BY <2>1, <2>3, FS_CardinalityType, FS_AddElement
  <2>5. Wire!At("agent.message")' = IF e.type = "agent.message" THEN A \cup {n + 1} ELSE A
    BY <1>4
  <2> QED
    BY <2>4, <2>5, SameOperators DEF Wire!Spoken
<1>7. Wire!LastType' = e.type /\ Last(captured') = e
  <2>1. captured' # <<>>
    BY <1>3
  <2> QED
    BY <1>3, <2>1, SameOperators DEF Wire!LastType, Last
<1>8. ASSUME NEW type, e.type = type
      PROVE  Wire!Latest(type)' = e
  <2>1. Wire!At(type)' = Wire!At(type) \cup {n + 1} /\ Wire!At(type) \in SUBSET (1 .. n)
    BY <1>4, <1>8
  <2>2. Wire!At(type)' \in SUBSET (0 .. n + 1) /\ n + 1 \in Wire!At(type)' /\ n + 1 \in Nat
    BY <1>3, <2>1
  <2> DEFINE X == Wire!At(type)'
  <2> HIDE DEF X
  <2>3. X \in SUBSET (0 .. n + 1) /\ n + 1 \in X
    BY <2>2 DEF X
  <2>4. Max(X) \in X /\ Max(X) >= n + 1
    BY <2>2, <2>3, LargestOf
  <2>5. Max(X) = n + 1
    <3>1. n \in Nat
      BY <1>3
    <3>2. Max(X) \in 0 .. n + 1
      BY <2>3, <2>4
    <3> QED
      BY <2>4, <3>1, <3>2
  <2>6. Wire!Latest(type)' = captured'[Max(X)]
    BY SameOperators DEF Wire!Latest, X
  <2> QED
    BY <1>3, <2>5, <2>6
<1>9. ASSUME NEW type, e.type # type, Wire!Heard(type)
      PROVE  Wire!Latest(type)' = Wire!Latest(type)
  <2> DEFINE X == Wire!At(type)
  <2>1. Wire!At(type)' = X /\ X \in SUBSET (1 .. n) /\ X # {}
    BY <1>4, <1>9 DEF Wire!Heard
  <2>2. Wire!Latest(type)' = captured'[Max(X)] /\ Wire!Latest(type) = captured[Max(X)]
    BY <2>1, SameOperators DEF Wire!Latest
  <2> HIDE DEF X
  <2>3. X \in SUBSET (0 .. n)
    BY <1>3, <2>1
  <2>4. Max(X) \in 1 .. n
    BY <1>3, <2>1, <2>3, LargestOf
  <2> QED
    BY <1>3, <2>2, <2>4
<1> QED
  BY <1>5, <1>6, <1>7, <1>8, <1>9

\* What is not told changes nothing for them.
LEMMA HeardStays ==
  ASSUME UNCHANGED captured
  PROVE  /\ \A type : /\ Wire!Heard(type)' <=> Wire!Heard(type)
                      /\ Wire!Latest(type)' = Wire!Latest(type)
         /\ Wire!Spoken' = Wire!Spoken /\ Wire!LastType' = Wire!LastType
         /\ Last(captured') = Last(captured)
BY DEF Wire!Heard, Wire!Latest, Wire!Spoken, Wire!LastType, Wire!At

\* The types of the events.
LEMMA EventTypes ==
  /\ Wire!Start.type = "session.start" /\ Wire!Headlines.type = "news.headlines"
  /\ \A x : /\ Wire!Summary(x).type = "data.summary" /\ Wire!Transition(x).type = "phase.transition"
            /\ Wire!Usage(x).type = "cost.usage" /\ Wire!Usage(x).tokens = x
            /\ Wire!Complete(x).type = "session.complete" /\ Wire!Complete(x).decision = x
            /\ Wire!Report(x).type = "webhook.report"
  /\ \A x, kind : Wire!Message(x, kind).type = "agent.message" /\ Wire!Message(x, kind).kind = kind
BY DEF Wire!Start, Wire!Headlines, Wire!Summary, Wire!Transition, Wire!Usage, Wire!Complete,
       Wire!Report, Wire!Message


LastSaid == Wire!Latest("agent.message").kind

\* A phase that is not the last speaker's was announced, and no other was.
PhaseInv ==
  /\ at \in {"calling", "telling", "regretting"} /\ idx > 1 /\ Phases[idx - 1] # Phases[idx] =>
       Wire!LastType = "phase.transition"
  /\ at = "turn" =>
       /\ idx = 1 => lastPhase = None
       /\ idx > 1 => \/ lastPhase = Phases[idx - 1] /\ Wire!LastType # "phase.transition"
                     \/ /\ idx \in Agents /\ lastPhase = Phases[idx]
                        /\ Wire!LastType = "phase.transition"

\* Data comes before the debate, the assessment after it, the report last; the
\* running total does not fall.
HeardInv ==
  /\ at = "summary" => ~Wire!Heard("data.summary")
  /\ at \in {"summary", "news"} => ~Wire!Heard("news.headlines")
  /\ at \in Early => ~Wire!Heard("session.start") /\ Wire!Spoken = 0 /\ ~Wire!Heard("cost.usage")
  /\ at \in Debating => Wire!Heard("session.start")
  /\ at \in Early \cup Debating => ~Wire!Decided /\ ~Wire!Heard("webhook.report")
  /\ at \in After => /\ Wire!Decided /\ ~Wire!Heard("webhook.report")
                     /\ decision = {Wire!Assessment}
  /\ at \in Debating /\ Wire!Heard("cost.usage") =>
       Wire!Latest("cost.usage").tokens \in Nat /\ Wire!Latest("cost.usage").tokens <= tokens

\* Those before the agent whose turn it is were heard.  An error of the first
\* ends the debate, one of the manager leaves no assessment.
SpokenInv ==
  /\ at \in Turned => Wire!Spoken = idx - 1
  /\ at = "counting" => /\ Wire!Spoken = idx /\ Wire!LastType = "agent.message"
                        /\ Last(captured).kind = "said" /\ LastSaid = "said"
  /\ at \in Debating /\ Wire!Spoken > 0 =>
       Wire!Heard("agent.message") /\ (LastSaid = "error" => Live)
  /\ at \in Turned \cup {"counting"} /\ Wire!Spoken = 1 => LastSaid # "error"
  /\ at = "turn" /\ Wire!Spoken = Len(Phases) /\ LastSaid = "error" => decision = {}
  /\ at = "concluding" =>
       \/ /\ Wire!Spoken = Len(Phases) /\ decision \subseteq Convinced
          /\ LastSaid = "error" => decision = {NoAssessment}
       \/ Wire!Spoken = 1 /\ LastSaid = "error" /\ decision = {Aborted}

\* Nobody is posted before the assessment, and then those it asks for.
PostInv ==
  /\ at \notin {"posting", "over", "dead"} => \A r \in DOMAIN hooks : receiver[r] = "unasked"
  /\ at = "posting" => \A r \in DOMAIN hooks :
       /\ receiver[r] \in Outcomes \cup {"posting", "filtered"}
       /\ receiver[r] = "filtered" <=> ~Passes(hooks[r], Wire!Assessment)

WireInv == PhaseInv /\ HeardInv /\ SpokenInv /\ PostInv

AllInv == TypeOK /\ TurnInv /\ IInv /\ WireInv

\* Nothing was heard at the start.
LEMMA WireStart == Init => WireInv
<1> SUFFICES ASSUME Init PROVE WireInv
  OBVIOUS
<1>1. \A type : Wire!At(type) = {}
  <2>1. DOMAIN captured = {}
    BY DEF Init
  <2> QED
    BY <2>1 DEF Wire!At
<1>2. \A type : ~Wire!Heard(type)
  BY <1>1 DEF Wire!Heard
<1>3. Wire!Spoken = 0
  BY <1>1, SameOperators, FS_EmptySet DEF Wire!Spoken
<1>4. at = "summary" /\ \A r \in DOMAIN hooks : receiver[r] = "unasked"
  BY DEF Init
<1> QED
  BY <1>2, <1>3, <1>4 DEF WireInv, PhaseInv, HeardInv, SpokenInv, PostInv, Early, Turned,
     Debating, After, Wire!Decided

\* A step that tells nothing leaves what was heard.
LEMMA SilentHeard ==
  ASSUME UNCHANGED captured
  PROVE  /\ \A type : Wire!Heard(type)' <=> Wire!Heard(type)
         /\ Wire!Latest("cost.usage")' = Wire!Latest("cost.usage")
         /\ Wire!Decided' = Wire!Decided /\ Wire!Assessment' = Wire!Assessment
         /\ Wire!Spoken' = Wire!Spoken /\ Wire!LastType' = Wire!LastType
         /\ Last(captured') = Last(captured) /\ LastSaid' = LastSaid
<1>1. /\ \A type : /\ Wire!Heard(type)' <=> Wire!Heard(type)
                   /\ Wire!Latest(type)' = Wire!Latest(type)
      /\ Wire!Spoken' = Wire!Spoken /\ Wire!LastType' = Wire!LastType
      /\ Last(captured') = Last(captured)
  BY HeardStays
<1>2. Wire!Decided' = Wire!Decided
  BY DEF Wire!Decided, Wire!Heard, Wire!At
<1>3. Wire!Assessment' = Wire!Assessment /\ LastSaid' = LastSaid
  BY <1>1 DEF Wire!Assessment, LastSaid
<1> QED
  BY <1>1, <1>2, <1>3

\* Steps that tell nothing: an agent is asked, and answers or fails.
LEMMA WireCalls ==
  ASSUME AllInv, TypeOK', TurnInv',
         \/ TakeTurn \/ \E error \in ErrorsOf(AdapterFor(Config)) : FailCall(error)
         \/ \E usage \in Usages, content \in Contents :
              AnswerCall(usage, content)
  PROVE  WireInv'
<1> USE DEF AllInv, WireInv
<1>1. /\ UNCHANGED <<request, hooks, captured, receiver, idx>>
      /\ at \in {"turn", "calling"} /\ at' \in {"calling", "telling", "regretting"}
      /\ at = "turn" => ~PhaseChanges
      /\ tokens' \in Int /\ tokens' >= tokens
  <2>1. CASE TakeTurn
    BY <2>1 DEF TakeTurn, Goes, turnVars, TypeOK
  <2>2. ASSUME NEW error, FailCall(error)
        PROVE  <1>1!1 /\ at = "calling" /\ at' \in {"calling", "regretting"} /\ tokens' = tokens
    BY <2>2 DEF FailCall, Goes, turnVars
  <2>3. ASSUME NEW usage \in Usages, NEW content, AnswerCall(usage, content)
        PROVE  /\ <1>1!1 /\ at = "calling" /\ at' = "telling"
               /\ tokens' \in Int /\ tokens' >= tokens
    <3>1. usage \in 0 .. 1
      BY Tables
    <3> QED
      BY <2>3, <3>1 DEF AnswerCall, Goes, turnVars, TypeOK
  <2> QED
    BY <2>1, <2>2, <2>3 DEF TypeOK
<1>2. /\ \A type : Wire!Heard(type)' <=> Wire!Heard(type)
      /\ Wire!Latest("cost.usage")' = Wire!Latest("cost.usage")
      /\ Wire!Decided' = Wire!Decided /\ Wire!Assessment' = Wire!Assessment
      /\ Wire!Spoken' = Wire!Spoken /\ Wire!LastType' = Wire!LastType
      /\ LastSaid' = LastSaid
  BY <1>1, SilentHeard
<1>3. Live' = Live
  BY <1>1, SameConfig
<1>4. idx \in 1 .. Len(Phases) /\ Len(Phases) \in Nat
  BY <1>1, Tables DEF TypeOK, TurnInv
<1>5. PhaseInv'
  <2> SUFFICES ASSUME idx > 1, Phases[idx - 1] # Phases[idx]
               PROVE  Wire!LastType = "phase.transition"
    BY <1>1, <1>2 DEF PhaseInv
  <2>1. CASE at = "calling"
    BY <1>1, <2>1 DEF PhaseInv
  <2>2. CASE at = "turn"
    <3>1. idx \in Agents /\ idx - 1 \in Agents
      BY <1>4, Tables
    <3>2. lastPhase \in {None, Phases[idx]}
      BY <1>1, <2>2, <3>1 DEF PhaseChanges
    <3>3. Phases[idx - 1] # None
      BY <3>1, Tables
    <3> QED
      BY <2>2, <3>2, <3>3 DEF PhaseInv
  <2> QED
    BY <1>1, <2>1, <2>2
<1>6. HeardInv'
  <2>1. at' \in Debating /\ at \in Debating /\ at \notin Early \cup After
        /\ at' \notin Early \cup After
    BY <1>1 DEF Debating, Turned, Early, After
  <2>2. Wire!Heard("cost.usage") => Wire!Latest("cost.usage").tokens <= tokens'
    BY <1>1, <2>1 DEF HeardInv, TypeOK
  <2> QED
    BY <1>1, <1>2, <2>1, <2>2 DEF HeardInv, Early
<1>7. SpokenInv'
  BY <1>1, <1>2, <1>3 DEF SpokenInv, Debating, Turned
<1>8. PostInv'
  BY <1>1, <1>2 DEF PostInv
<1> QED
  BY <1>5, <1>6, <1>7, <1>8


\* The agents are through.
LEMMA WireConclude ==
  ASSUME AllInv, Conclude
  PROVE  WireInv'
<1> USE DEF AllInv, WireInv
<1>1. /\ UNCHANGED <<request, hooks, captured, receiver, idx, tokens>>
      /\ at = "turn" /\ at' = "concluding" /\ idx > Len(Phases)
      /\ decision' = IF ~Live THEN {Canned} ELSE IF decision = {} THEN {NoAssessment} ELSE decision
  BY DEF Conclude, Goes, turnVars
<1>2. /\ \A type : Wire!Heard(type)' <=> Wire!Heard(type)
      /\ Wire!Latest("cost.usage")' = Wire!Latest("cost.usage")
      /\ Wire!Decided' = Wire!Decided /\ Wire!Assessment' = Wire!Assessment
      /\ Wire!Spoken' = Wire!Spoken /\ Wire!LastType' = Wire!LastType
      /\ LastSaid' = LastSaid
  BY <1>1, SilentHeard
<1>3. Live' = Live
  BY <1>1, SameConfig
<1>4. Wire!Spoken = Len(Phases) /\ Len(Phases) \in Nat /\ Len(Phases) > 1
  BY <1>1, Tables DEF SpokenInv, Turned, TypeOK
<1>5. PhaseInv' /\ PostInv'
  BY <1>1, <1>2 DEF PhaseInv, PostInv
<1>6. HeardInv'
  BY <1>1, <1>2 DEF HeardInv, Debating, Turned, Early, After
<1>7. decision' \subseteq Convinced /\ (LastSaid = "error" => decision' = {NoAssessment})
  <2>1. decision \subseteq Convinced
    BY <1>1 DEF TurnInv, Turned
  <2>2. LastSaid = "error" => Live /\ decision = {}
    BY <1>1, <1>4 DEF SpokenInv, Debating, Turned
  <2> QED
    BY <1>1, <2>1, <2>2, Tables
<1>8. SpokenInv'
  BY <1>1, <1>2, <1>3, <1>4, <1>7 DEF SpokenInv, Debating, Turned
<1> QED
  BY <1>5, <1>6, <1>8

\* A stream that ends, or opens its client, tells nothing.
LEMMA WireQuiet ==
  ASSUME AllInv,
         \/ OpenAdapter \/ Disconnect \/ Finally \/ Persist \/ Crash \/ UNCHANGED vars
  PROVE  WireInv'
<1> USE DEF AllInv, WireInv
<1>1. UNCHANGED <<request, hooks, captured, receiver, idx, tokens, decision, lastPhase>>
  BY DEF OpenAdapter, Disconnect, Finally, Persist, Crash, turnVars, vars
<1>2. /\ \A type : Wire!Heard(type)' <=> Wire!Heard(type)
      /\ Wire!Latest("cost.usage")' = Wire!Latest("cost.usage")
      /\ Wire!Decided' = Wire!Decided /\ Wire!Assessment' = Wire!Assessment
      /\ Wire!Spoken' = Wire!Spoken /\ Wire!LastType' = Wire!LastType
      /\ Last(captured') = Last(captured) /\ LastSaid' = LastSaid
  BY <1>1, SilentHeard
<1>3. Live' = Live
  BY <1>1, SameConfig
<1>4. \/ at' = at
      \/ at = "opening" /\ at' = "starting"
      \/ at \in {"closing", "persisting"} /\ at' \in {"persisting", "dispatching"}
      \/ at' \in {"over", "dead"}
      \/ at' = "unwinding" /\ at \notin {"posting", "over", "dead"}
  BY DEF OpenAdapter, Disconnect, Finally, Persist, Crash, AtASend, Sending, Goes, vars
<1>5. PhaseInv'
  BY <1>1, <1>2, <1>4 DEF PhaseInv
<1>6. HeardInv'
  BY <1>1, <1>2, <1>4 DEF HeardInv, Debating, Turned, Early, After
<1>7. SpokenInv'
  BY <1>1, <1>2, <1>3, <1>4 DEF SpokenInv, Debating, Turned
<1>8. PostInv'
  BY <1>1, <1>2, <1>4 DEF PostInv
<1> QED
  BY <1>5, <1>6, <1>7, <1>8

\* The webhooks: nothing is told while they are posted.
LEMMA WirePosts ==
  ASSUME AllInv,
         Dispatch \/ \E r \in DOMAIN receiver, outcome \in Outcomes : FireOne(r, outcome)
  PROVE  WireInv'
<1> USE DEF AllInv, WireInv
<1>1. /\ UNCHANGED <<request, hooks, captured, idx, tokens, decision, lastPhase>>
      /\ at \in {"dispatching", "posting"} /\ at' = "posting"
  BY DEF Dispatch, FireOne, Goes
<1>2. /\ \A type : Wire!Heard(type)' <=> Wire!Heard(type)
      /\ Wire!Latest("cost.usage")' = Wire!Latest("cost.usage")
      /\ Wire!Decided' = Wire!Decided /\ Wire!Assessment' = Wire!Assessment
      /\ Wire!Spoken' = Wire!Spoken /\ Wire!LastType' = Wire!LastType
      /\ LastSaid' = LastSaid
  BY <1>1, SilentHeard
<1>3. decision = {Wire!Assessment}
  BY <1>1 DEF HeardInv, After
<1>4. PhaseInv'
  BY <1>1, <1>2 DEF PhaseInv
<1>5. HeardInv'
  BY <1>1, <1>2 DEF HeardInv, Debating, Turned, Early, After
<1>6. SpokenInv'
  BY <1>1, <1>2 DEF SpokenInv, Debating, Turned
<1>7. CASE Dispatch
  <2>1. receiver' = [r \in DOMAIN hooks |->
                       IF Passes(hooks[r], Wire!Assessment) THEN "posting" ELSE "filtered"]
    BY <1>3, <1>7 DEF Dispatch
  <2>2. PostInv'
    BY <1>1, <1>2, <2>1 DEF PostInv
  <2> QED
    BY <1>4, <1>5, <1>6, <2>2
<1>8. ASSUME NEW r \in DOMAIN receiver, NEW outcome \in Outcomes, FireOne(r, outcome)
      PROVE  PostInv'
  <2>1. /\ at = "posting" /\ receiver[r] = "posting" /\ r \in DOMAIN hooks
        /\ receiver' = [receiver EXCEPT ![r] = outcome]
        /\ DOMAIN receiver = DOMAIN hooks /\ outcome \in {"fired", "failed"}
    BY <1>8 DEF FireOne, Goes, TypeOK, Outcomes
  <2>2. \A q \in DOMAIN hooks : receiver'[q] = IF q = r THEN outcome ELSE receiver[q]
    BY <2>1 DEF TypeOK
  <2>3. Passes(hooks[r], Wire!Assessment)
    BY <2>1 DEF PostInv
  <2>4. \A q \in DOMAIN hooks :
          /\ receiver'[q] \in Outcomes \cup {"posting", "filtered"}
          /\ receiver'[q] = "filtered" <=> ~Passes(hooks[q], Wire!Assessment)
    BY <1>8, <2>1, <2>2, <2>3 DEF PostInv
  <2> QED
    BY <1>1, <1>2, <2>4 DEF PostInv
<1> QED
  BY <1>4, <1>5, <1>6, <1>7, <1>8


\* What an event changes of what the invariants speak of.
LEMMA SentHeard ==
  ASSUME IsStream, NEW e, Sends(e)
  PROVE  /\ \A type : Wire!Heard(type)' <=> Wire!Heard(type) \/ e.type = type
         /\ Wire!Decided' <=> Wire!Decided \/ e.type = "session.complete"
         /\ Wire!Spoken \in Nat
         /\ Wire!Spoken' = IF e.type = "agent.message" THEN Wire!Spoken + 1 ELSE Wire!Spoken
         /\ Wire!LastType' = e.type /\ Last(captured') = e
         /\ e.type = "agent.message" => LastSaid' = e.kind
         /\ e.type # "agent.message" /\ Wire!Heard("agent.message") => LastSaid' = LastSaid
         /\ e.type = "cost.usage" => Wire!Latest("cost.usage")' = e
         /\ e.type # "cost.usage" /\ Wire!Heard("cost.usage") =>
              Wire!Latest("cost.usage")' = Wire!Latest("cost.usage")
         /\ e.type = "session.complete" => Wire!Assessment' = e.decision
         /\ e.type # "session.complete" /\ Wire!Decided => Wire!Assessment' = Wire!Assessment
<1>1. /\ \A type : Wire!Heard(type)' <=> Wire!Heard(type) \/ e.type = type
      /\ Wire!Spoken \in Nat
      /\ Wire!Spoken' = IF e.type = "agent.message" THEN Wire!Spoken + 1 ELSE Wire!Spoken
      /\ Wire!LastType' = e.type /\ Last(captured') = e
      /\ \A type : e.type = type => Wire!Latest(type)' = e
      /\ \A type : e.type # type /\ Wire!Heard(type) => Wire!Latest(type)' = Wire!Latest(type)
  BY HeardGrows
<1>2. Wire!Decided' <=> Wire!Heard("session.complete")'
  BY DEF Wire!Decided
<1>3. Wire!Decided' <=> Wire!Decided \/ e.type = "session.complete"
  BY <1>1, <1>2 DEF Wire!Decided
<1>4. /\ e.type = "agent.message" => LastSaid' = e.kind
      /\ e.type # "agent.message" /\ Wire!Heard("agent.message") => LastSaid' = LastSaid
  BY <1>1 DEF LastSaid
<1>5. /\ e.type = "session.complete" => Wire!Assessment' = e.decision
      /\ e.type # "session.complete" /\ Wire!Decided => Wire!Assessment' = Wire!Assessment
  BY <1>1 DEF Wire!Assessment, Wire!Decided
<1> QED
  BY <1>1, <1>3, <1>4, <1>5

\* The data of the debate, and its start.
LEMMA WireOpens ==
  ASSUME AllInv, FetchSummary \/ FetchNews \/ StartSession
  PROVE  WireInv'
<1> USE DEF AllInv, WireInv
<1>1. /\ UNCHANGED <<request, hooks, receiver, idx, tokens, decision, lastPhase>>
      /\ \/ /\ at = "summary" /\ at' = "news"
            /\ UNCHANGED captured \/ \E day : Sends(Wire!Summary(day))
         \/ /\ at = "news" /\ at' \in {"opening", "starting"}
            /\ UNCHANGED captured \/ Sends(Wire!Headlines)
         \/ at = "starting" /\ at' = "turn" /\ Sends(Wire!Start)
  BY DEF FetchSummary, FetchNews, StartSession, Goes, turnVars
<1>2. idx = 1 /\ tokens = 0 /\ lastPhase = None /\ decision = {}
      /\ ~Wire!Heard("session.start") /\ Wire!Spoken = 0 /\ ~Wire!Heard("cost.usage")
      /\ ~Wire!Decided /\ ~Wire!Heard("webhook.report")
  BY <1>1 DEF TurnInv, HeardInv, Early
<1>3. CASE UNCHANGED captured /\ at # "starting"
  <2>1. /\ \A type : Wire!Heard(type)' <=> Wire!Heard(type)
        /\ Wire!Decided' = Wire!Decided /\ Wire!Spoken' = Wire!Spoken
    BY <1>3, SilentHeard
  <2>2. PhaseInv' /\ PostInv'
    BY <1>1, <1>3 DEF PhaseInv, PostInv
  <2>3. HeardInv'
    BY <1>1, <1>2, <1>3, <2>1 DEF HeardInv, Debating, Turned, Early, After
  <2>4. SpokenInv'
    BY <1>1, <1>2, <1>3, <2>1 DEF SpokenInv, Debating, Turned
  <2> QED
    BY <2>2, <2>3, <2>4
<1>4. ASSUME NEW e, Sends(e),
             \/ at = "summary" /\ at' = "news" /\ e.type = "data.summary"
             \/ at = "news" /\ at' \in {"opening", "starting"} /\ e.type = "news.headlines"
             \/ at = "starting" /\ at' = "turn" /\ e.type = "session.start"
      PROVE  WireInv'
  <2>1. /\ \A type : Wire!Heard(type)' <=> Wire!Heard(type) \/ e.type = type
        /\ Wire!Decided' <=> Wire!Decided \/ e.type = "session.complete"
        /\ Wire!Spoken' = IF e.type = "agent.message" THEN Wire!Spoken + 1 ELSE Wire!Spoken
    BY <1>4, SentHeard DEF IInv
  <2>2. PhaseInv' /\ PostInv'
    BY <1>1, <1>2, <1>4 DEF PhaseInv, PostInv
  <2>3. HeardInv'
    BY <1>1, <1>2, <1>4, <2>1 DEF HeardInv, Debating, Turned, Early, After
  <2>4. SpokenInv'
    <3>1. Wire!Spoken' = 0 /\ Len(Phases) > 1
      BY <1>2, <1>4, <2>1, Tables
    <3> QED
      BY <1>1, <1>2, <1>4, <3>1, Tables DEF SpokenInv, Debating, Turned
  <2> QED
    BY <2>2, <2>3, <2>4
<1> QED
  BY <1>1, <1>3, <1>4, EventTypes

\* A phase is announced.
LEMMA WireAnnounces ==
  ASSUME AllInv, AnnouncePhase
  PROVE  WireInv'
<1> USE DEF AllInv, WireInv
<1>1. /\ UNCHANGED <<request, hooks, receiver, idx, tokens, decision>>
      /\ at = "turn" /\ at' = "turn" /\ PhaseChanges /\ Sends(Wire!Transition(idx))
      /\ lastPhase' = Phases[idx]
  BY DEF AnnouncePhase, Goes, turnVars
<1>2. Wire!Transition(idx).type = "phase.transition"
  BY EventTypes
<1>3. /\ \A type : Wire!Heard(type)' <=> Wire!Heard(type) \/ type = "phase.transition"
      /\ (Wire!Decided' <=> Wire!Decided) /\ Wire!Spoken' = Wire!Spoken
      /\ Wire!LastType' = "phase.transition"
      /\ Wire!Heard("agent.message") => LastSaid' = LastSaid
      /\ Wire!Heard("cost.usage") => Wire!Latest("cost.usage")' = Wire!Latest("cost.usage")
  BY <1>1, <1>2, SentHeard DEF IInv
<1>4. Live' = Live
  BY <1>1, SameConfig
<1>5. idx \in Agents /\ idx # 1
  BY <1>1 DEF PhaseChanges, PhaseInv
<1>6. PhaseInv' /\ PostInv'
  BY <1>1, <1>3, <1>5 DEF PhaseInv, PostInv
<1>7. HeardInv'
  BY <1>1, <1>3 DEF HeardInv, Debating, Turned, Early, After
<1>8. SpokenInv'
  <2>1. Wire!Spoken > 0 => Wire!Heard("agent.message") /\ (LastSaid = "error" => Live)
    BY <1>1 DEF SpokenInv, Debating, Turned
  <2>2. Wire!Spoken = idx - 1 /\ idx \in 1 .. Len(Phases) /\ Len(Phases) > 1
    BY <1>1, <1>5, Tables DEF SpokenInv, Turned
  <2>3. Wire!Spoken = 1 => LastSaid # "error"
    BY <1>1 DEF SpokenInv, Turned
  <2> QED
    BY <1>1, <1>3, <1>4, <2>1, <2>2, <2>3 DEF SpokenInv, Debating, Turned
<1> QED
  BY <1>6, <1>7, <1>8


\* An agent is heard.
LEMMA WireTells ==
  ASSUME AllInv, TypeOK', TurnInv', TellMessage \/ TellError
  PROVE  WireInv'
<1> USE DEF AllInv, WireInv
<1> DEFINE kind == IF at = "telling" THEN "said" ELSE "error"
           e == Wire!Message(idx, kind)
<1>1. /\ UNCHANGED <<request, hooks, receiver, tokens, lastPhase, transcript>>
      /\ at \in {"telling", "regretting"} /\ Sends(e)
      /\ \/ at' = "turn" /\ idx' = idx + 1 /\ decision' = decision
         \/ at = "telling" /\ at' = "counting" /\ idx' = idx /\ decision' = decision /\ Live
         \/ at = "regretting" /\ at' = "concluding" /\ idx' = idx /\ decision' = {Aborted}
              /\ transcript = {}
      /\ at = "regretting" /\ at' = "turn" => transcript # {}
  <2>1. CASE TellMessage
    BY <2>1 DEF TellMessage, Goes, turnVars
  <2>2. CASE TellError
    BY <2>2 DEF TellError, AbortsIfFirst, Goes, turnVars
  <2> QED
    BY <2>1, <2>2
<1>2. e.type = "agent.message" /\ e.kind = kind
  BY EventTypes
<1> HIDE DEF e
<1>3. /\ \A type : Wire!Heard(type)' <=> Wire!Heard(type) \/ type = "agent.message"
      /\ (Wire!Decided' <=> Wire!Decided) /\ Wire!Spoken' = Wire!Spoken + 1
      /\ Wire!LastType' = "agent.message" /\ Last(captured') = e /\ LastSaid' = kind
      /\ Wire!Heard("cost.usage") => Wire!Latest("cost.usage")' = Wire!Latest("cost.usage")
  BY <1>1, <1>2, SentHeard DEF IInv
<1>4. Live' = Live
  BY <1>1, SameConfig
<1>5. /\ idx \in 1 .. Len(Phases) /\ Len(Phases) \in Nat /\ Len(Phases) > 1
      /\ Wire!Spoken = idx - 1 /\ Wire!Spoken' = idx /\ lastPhase = Phases[idx]
      /\ at = "regretting" => Live /\ decision = {}
  BY <1>1, <1>3, Tables DEF TurnInv, SpokenInv, Turned
<1>6. at = "regretting" => (transcript = {} <=> idx = 1)
  <2>1. at = "regretting" => transcript \subseteq 1 .. idx - 1 /\ (idx > 1 => transcript # {})
    BY <1>1, <1>5 DEF TurnInv
  <2> QED
    BY <1>5, <2>1
<1>7. PhaseInv' /\ PostInv'
  BY <1>1, <1>3, <1>5 DEF PhaseInv, PostInv
<1>8. HeardInv'
  BY <1>1, <1>3 DEF HeardInv, Debating, Turned, Early, After
<1>9. SpokenInv'
  <2>1. CASE at' = "turn" /\ idx' = idx + 1 /\ decision' = decision
    <3>1. Wire!Spoken' = idx' - 1
      BY <1>5, <2>1
    <3>2. Wire!Spoken' = 1 => LastSaid' # "error"
      BY <1>1, <1>3, <1>5, <1>6, <2>1
    <3>3. LastSaid' = "error" => Live' /\ decision' = {}
      BY <1>1, <1>3, <1>4, <1>5, <2>1
    <3> QED
      BY <1>3, <2>1, <3>1, <3>2, <3>3 DEF SpokenInv, Debating, Turned
  <2>2. CASE at = "telling" /\ at' = "counting" /\ idx' = idx
    BY <1>2, <1>3, <1>5, <2>2 DEF SpokenInv, Debating, Turned
  <2>3. CASE at = "regretting" /\ at' = "concluding" /\ decision' = {Aborted} /\ transcript = {}
    BY <1>3, <1>4, <1>5, <1>6, <2>3 DEF SpokenInv, Debating, Turned
  <2> QED
    BY <1>1, <2>1, <2>2, <2>3
<1> QED
  BY <1>7, <1>8, <1>9

\* The running total is told.
LEMMA WireCounts ==
  ASSUME AllInv, TellUsage
  PROVE  WireInv'
<1> USE DEF AllInv, WireInv
<1> DEFINE e == Wire!Usage(tokens)
<1>1. /\ UNCHANGED <<request, hooks, receiver, tokens, lastPhase, decision>>
      /\ at = "counting" /\ at' = "turn" /\ idx' = idx + 1 /\ Sends(e)
  BY DEF TellUsage, Goes, turnVars
<1>2. e.type = "cost.usage" /\ e.tokens = tokens
  BY EventTypes
<1> HIDE DEF e
<1>3. /\ \A type : Wire!Heard(type)' <=> Wire!Heard(type) \/ type = "cost.usage"
      /\ (Wire!Decided' <=> Wire!Decided) /\ Wire!Spoken' = Wire!Spoken
      /\ Wire!LastType' = "cost.usage" /\ Wire!Latest("cost.usage")' = e
      /\ Wire!Heard("agent.message") => LastSaid' = LastSaid
  BY <1>1, <1>2, SentHeard DEF IInv
<1>4. /\ idx \in 1 .. Len(Phases) /\ Wire!Spoken = idx /\ lastPhase = Phases[idx]
      /\ LastSaid = "said" /\ tokens \in Nat
  BY <1>1, Tables DEF TurnInv, SpokenInv, TypeOK
<1>5. Wire!Heard("agent.message") /\ LastSaid' = "said"
  BY <1>1, <1>3, <1>4 DEF SpokenInv, Debating
<1>6. PhaseInv' /\ PostInv'
  BY <1>1, <1>3, <1>4 DEF PhaseInv, PostInv
<1>7. HeardInv'
  BY <1>1, <1>2, <1>3, <1>4 DEF HeardInv, Debating, Turned, Early, After
<1>8. SpokenInv'
  BY <1>1, <1>3, <1>4, <1>5 DEF SpokenInv, Debating, Turned
<1> QED
  BY <1>6, <1>7, <1>8

\* The assessment and the report are told.
LEMMA WireEnds ==
  ASSUME AllInv, CompleteSession \/ ReportHooks
  PROVE  WireInv'
<1> USE DEF AllInv, WireInv
<1>1. UNCHANGED <<request, hooks, receiver, tokens, lastPhase, decision, idx>>
  BY DEF CompleteSession, ReportHooks, turnVars
<1>2. CASE CompleteSession
  <2>1. at = "concluding" /\ at' \in {"closing", "persisting"}
    BY <1>2 DEF CompleteSession, Goes
  <2>2. PICK d \in decision : Sends(Wire!Complete(d))
    BY <1>2 DEF CompleteSession
  <2>3. decision = {d}
    <3>1. PICK x : decision \subseteq {x}
      BY DEF TurnInv
    <3> QED
      BY <2>2, <3>1
  <2>4. /\ \A type : Wire!Heard(type)' <=> Wire!Heard(type) \/ type = "session.complete"
        /\ Wire!Decided' /\ Wire!Assessment' = d
    BY <2>2, EventTypes, SentHeard DEF IInv
  <2>5. PhaseInv' /\ PostInv'
    BY <1>1, <2>1 DEF PhaseInv, PostInv
  <2>6. HeardInv'
    BY <1>1, <2>1, <2>3, <2>4 DEF HeardInv, Debating, Turned, Early, After
  <2>7. SpokenInv'
    BY <2>1 DEF SpokenInv, Debating, Turned
  <2> QED
    BY <2>5, <2>6, <2>7
<1>3. CASE ReportHooks
  <2>1. at' = "over"
    BY <1>3 DEF ReportHooks, Goes
  <2> QED
    BY <2>1 DEF PhaseInv, HeardInv, SpokenInv, PostInv, Debating, Turned, Early, After
<1> QED
  BY <1>2, <1>3


LEMMA AllInit == Init => AllInv
BY TurnInit, AccountsInit, WireStart DEF AllInv

LEMMA AllNext == AllInv /\ [Next]_vars => AllInv'
<1> SUFFICES ASSUME AllInv, [Next]_vars PROVE AllInv'
  OBVIOUS
<1>1. TypeOK' /\ TurnInv' /\ IInv'
  BY TypeNext, AccountsNext DEF AllInv
<1>2. WireInv'
  BY <1>1, WireCalls, WireConclude, WireQuiet, WirePosts, WireOpens, WireAnnounces, WireTells,
     WireCounts, WireEnds DEF Next
<1> QED
  BY <1>1, <1>2 DEF AllInv

-------------------------------------------------------------------------------
(***************************************************************************)
(* Every step of a stream is a step of the protocol, or none.              *)
(***************************************************************************)
Posted == {r \in DOMAIN receiver : receiver[r] \notin {"unasked", "filtered"}}

Told == <<captured, hooks, Posted>>

\* An event that is sent is said to the listeners.
LEMMA SendSays ==
  ASSUME NEW e, Sends(e), UNCHANGED <<hooks, receiver>>
  PROVE  Wire!Says(e)
BY DEF Sends, Wire!Says

\* The data and the start.
LEMMA OpensImplements ==
  ASSUME AllInv, FetchSummary \/ FetchNews \/ StartSession
  PROVE  Wire!Next \/ UNCHANGED Told
<1> USE DEF AllInv, WireInv
<1>1. UNCHANGED <<hooks, receiver>>
  BY DEF FetchSummary, FetchNews, StartSession, turnVars
<1>2. CASE UNCHANGED captured
  BY <1>1, <1>2 DEF Told, Posted
<1>3. ASSUME FetchSummary, ~UNCHANGED captured
      PROVE  Wire!Opens
  <2>1. PICK day \in QuoteSummary(DataProvider(request.data), request.date) :
          Sends(Wire!Summary(day))
    BY <1>3 DEF FetchSummary
  <2>2. day \in 0 .. Today
    BY <2>1, QuotedDays
  <2>3. /\ ~Wire!Heard("session.start") /\ ~Wire!Heard("news.headlines")
        /\ ~Wire!Heard("data.summary")
    BY <1>3 DEF FetchSummary, Goes, HeardInv, Early
  <2>4. Wire!Says(Wire!Summary(day))
    BY <1>1, <2>1, SendSays
  <2> QED
    BY <2>2, <2>3, <2>4 DEF Wire!Opens
<1>4. ASSUME FetchNews, ~UNCHANGED captured
      PROVE  Wire!Opens
  <2>1. Sends(Wire!Headlines)
    BY <1>4 DEF FetchNews
  <2>2. ~Wire!Heard("session.start") /\ ~Wire!Heard("news.headlines")
    BY <1>4 DEF FetchNews, Goes, HeardInv, Early
  <2>3. Wire!Says(Wire!Headlines)
    BY <1>1, <2>1, SendSays
  <2> QED
    BY <2>2, <2>3 DEF Wire!Opens
<1>5. ASSUME StartSession
      PROVE  Wire!Starts
  <2>1. Sends(Wire!Start) /\ ~Wire!Heard("session.start")
    BY <1>5 DEF StartSession, Goes, HeardInv, Early
  <2> QED
    BY <1>1, <2>1, SendSays DEF Wire!Starts
<1> QED
  BY <1>2, <1>3, <1>4, <1>5 DEF Wire!Next

\* A phase that is announced, an agent that is heard.
LEMMA AgentsImplement ==
  ASSUME AllInv, AnnouncePhase \/ TellMessage \/ TellError \/ TellUsage
  PROVE  Wire!Next
<1> USE DEF AllInv, WireInv
<1>1. UNCHANGED <<hooks, receiver>>
  BY DEF AnnouncePhase, TellMessage, TellError, TellUsage, turnVars
<1>2. Wire!Between
  BY DEF AnnouncePhase, TellMessage, TellError, TellUsage, Goes, AbortsIfFirst, HeardInv,
         Debating, Turned, Wire!Between
<1>3. ASSUME AnnouncePhase
      PROVE  Wire!Announces
  <2>1. at = "turn" /\ PhaseChanges /\ Sends(Wire!Transition(idx))
    BY <1>3 DEF AnnouncePhase, Goes
  <2>2. Wire!Spoken = idx - 1 /\ idx \in 1 .. Len(Phases) /\ idx # 1 /\ Len(Phases) \in Nat
    BY <2>1, Tables DEF SpokenInv, Turned, PhaseChanges, PhaseInv
  <2>3. lastPhase = Phases[idx - 1] /\ Wire!LastType # "phase.transition"
    BY <2>1, <2>2 DEF PhaseInv, PhaseChanges
  <2>4. Phases[idx - 1] # Phases[idx]
    BY <2>1, <2>3 DEF PhaseChanges
  <2>5. Wire!Spoken + 1 = idx /\ Wire!Spoken > 0 /\ Wire!Spoken < Len(Phases)
    BY <2>2
  <2>6. Wire!NewPhase
    BY <2>2, <2>4, <2>5 DEF Wire!NewPhase
  <2>7. Wire!Says(Wire!Transition(Wire!Spoken + 1))
    BY <1>1, <2>1, <2>5, SendSays
  <2> QED
    BY <1>2, <2>3, <2>6, <2>7 DEF Wire!Announces
<1>4. ASSUME TellMessage \/ TellError
      PROVE  Wire!Speaks
  <2>1. PICK kind \in {"said", "error"} : Sends(Wire!Message(idx, kind))
    BY <1>4 DEF TellMessage, TellError
  <2>2. at \in {"telling", "regretting"}
    BY <1>4 DEF TellMessage, TellError, AbortsIfFirst, Goes
  <2>3. Wire!Spoken = idx - 1 /\ idx \in 1 .. Len(Phases) /\ Len(Phases) \in Nat
    BY <2>2, Tables DEF SpokenInv, Turned, TurnInv
  <2>4. Wire!Spoken + 1 = idx /\ Wire!Spoken < Len(Phases)
    BY <2>3
  <2>5. ~Wire!Hopeless
    BY <2>2 DEF SpokenInv, Turned, LastSaid, Wire!Hopeless
  <2>6. Wire!NewPhase => Wire!LastType = "phase.transition"
    <3> SUFFICES ASSUME Wire!NewPhase PROVE Wire!LastType = "phase.transition"
      OBVIOUS
    <3>1. idx > 1 /\ Phases[idx - 1] # Phases[idx]
      BY <2>3, <2>4 DEF Wire!NewPhase
    <3> QED
      BY <2>2, <3>1 DEF PhaseInv
  <2>7. Wire!Says(Wire!Message(Wire!Spoken + 1, kind))
    BY <1>1, <2>1, <2>4, SendSays
  <2> QED
    BY <1>2, <2>4, <2>5, <2>6, <2>7 DEF Wire!Speaks
<1>5. ASSUME TellUsage
      PROVE  Wire!Counts
  <2>1. at = "counting" /\ Sends(Wire!Usage(tokens))
    BY <1>5 DEF TellUsage, Goes
  <2>2. Wire!LastType = "agent.message" /\ Wire!Last(captured).kind = "said"
    BY <2>1, SameOperators DEF SpokenInv
  <2>3. tokens \in 0 .. Len(Phases)
    BY DEF TypeOK
  <2>4. Wire!Heard("cost.usage") => tokens >= Wire!Latest("cost.usage").tokens
    BY <2>1, <2>3 DEF HeardInv, Debating
  <2>5. Wire!Says(Wire!Usage(tokens))
    BY <1>1, <2>1, SendSays
  <2> QED
    BY <1>2, <2>2, <2>3, <2>4, <2>5 DEF Wire!Counts
<1> QED
  BY <1>3, <1>4, <1>5 DEF Wire!Next

\* The assessment.
LEMMA CompleteImplements ==
  ASSUME AllInv, CompleteSession
  PROVE  Wire!Next
<1> USE DEF AllInv, WireInv
<1>1. UNCHANGED <<hooks, receiver>> /\ at = "concluding"
  BY DEF CompleteSession, turnVars, Goes
<1>2. Wire!Between
  BY <1>1 DEF HeardInv, Debating, Wire!Between
<1>3. PICK d \in decision : Sends(Wire!Complete(d))
  BY DEF CompleteSession
<1>4. Wire!Says(Wire!Complete(d))
  BY <1>1, <1>3, SendSays
<1>5. CASE /\ Wire!Spoken = Len(Phases) /\ decision \subseteq Convinced
           /\ LastSaid = "error" => decision = {NoAssessment}
  <2>1. PICK stance \in Stances, conviction \in 1..10 : d = Decision(stance, conviction)
    BY <1>3, <1>5 DEF Convinced
  <2>2. LastSaid = "error" => d = NoAssessment
    BY <1>3, <1>5
  <2>3. /\ stance \in Wire!Stances /\ d = Wire!Decision(stance, conviction)
        /\ LastSaid = "error" => d = Wire!NoAssessment
    BY <2>1, <2>2, SameOperators
  <2>4. Wire!Concludes
    BY <1>2, <1>4, <1>5, <2>3 DEF Wire!Concludes, LastSaid
  <2> QED
    BY <2>4 DEF Wire!Next
<1>6. CASE Wire!Spoken = 1 /\ LastSaid = "error" /\ decision = {Aborted}
  <2>1. d = Wire!Aborted
    BY <1>3, <1>6, SameOperators
  <2>2. Wire!Hopeless /\ Wire!Spoken # Len(Phases)
    BY <1>6, Tables DEF Wire!Hopeless, LastSaid
  <2>3. Wire!Concludes
    BY <1>2, <1>4, <2>1, <2>2 DEF Wire!Concludes
  <2> QED
    BY <2>3 DEF Wire!Next
<1> QED
  BY <1>1, <1>5, <1>6 DEF SpokenInv

\* The receivers that are posted.
LEMMA PostsImplement ==
  ASSUME AllInv,
         Dispatch \/ \E r \in DOMAIN receiver, outcome \in Outcomes : FireOne(r, outcome)
  PROVE  Wire!Next \/ UNCHANGED Told
<1> USE DEF AllInv, WireInv
<1>1. UNCHANGED <<hooks, captured>>
  BY DEF Dispatch, FireOne
<1>2. DOMAIN receiver = DOMAIN hooks
  BY DEF TypeOK
<1>3. ASSUME Dispatch
      PROVE  Wire!Posts
  <2>1. at = "dispatching" /\ decision = {Wire!Assessment}
    BY <1>3 DEF Dispatch, Goes, HeardInv, After
  <2>2. Wire!Decided /\ ~Wire!Heard("webhook.report")
    BY <2>1 DEF HeardInv, After
  <2>3. receiver' = [r \in DOMAIN hooks |->
                       IF Passes(hooks[r], Wire!Assessment) THEN "posting" ELSE "filtered"]
    BY <1>3, <2>1 DEF Dispatch
  <2>4. Posted = {}
    BY <1>2, <2>1 DEF Posted, PostInv
  <2> DEFINE rs == {r \in DOMAIN hooks : Passes(hooks[r], Wire!Assessment)}
  <2>5. Posted' = rs
    BY <2>3 DEF Posted
  <2>6. rs \in SUBSET (DOMAIN hooks \ Posted) /\ Posted' = Posted \cup rs
    BY <2>4, <2>5
  <2>7. \A r \in rs : Wire!Passes(hooks[r], Wire!Assessment)
    BY SameOperators
  <2> HIDE DEF rs
  <2> QED
    BY <1>1, <2>2, <2>6, <2>7 DEF Wire!Posts, Posted
<1>4. ASSUME NEW r \in DOMAIN receiver, NEW outcome \in Outcomes, FireOne(r, outcome)
      PROVE  UNCHANGED Told
  <2>1. /\ receiver[r] = "posting" /\ receiver' = [receiver EXCEPT ![r] = outcome]
        /\ outcome \in {"fired", "failed"}
    BY <1>4 DEF FireOne, Outcomes
  <2>2. \A q \in DOMAIN receiver : receiver'[q] = IF q = r THEN outcome ELSE receiver[q]
    BY <2>1, <1>2 DEF TypeOK
  <2>3. DOMAIN receiver' = DOMAIN receiver
    BY <2>1
  <2>4. Posted' = Posted
    BY <2>1, <2>2, <2>3 DEF Posted
  <2> QED
    BY <1>1, <2>4 DEF Told
<1> QED
  BY <1>3, <1>4 DEF Wire!Next

\* The report of what each came to.
LEMMA ReportImplements ==
  ASSUME AllInv, ReportHooks
  PROVE  Wire!Next \/ UNCHANGED Told
<1> USE DEF AllInv, WireInv
<1>1. /\ UNCHANGED <<hooks, receiver>> /\ at = "posting"
      /\ \A r \in DOMAIN receiver : receiver[r] # "posting"
  BY DEF ReportHooks, turnVars, Goes
<1>2. CASE UNCHANGED captured
  BY <1>1, <1>2 DEF Told, Posted
<1>3. CASE Sends(Wire!Report(receiver))
  <2>1. Wire!Decided /\ ~Wire!Heard("webhook.report")
    BY <1>1 DEF HeardInv, After
  <2>2. /\ receiver \in [DOMAIN hooks -> Outcomes \cup {"unasked", "posting", "filtered"}]
        /\ DOMAIN receiver = DOMAIN hooks
    BY DEF TypeOK
  <2>3. \A r \in DOMAIN hooks :
          /\ receiver[r] \in Outcomes \cup {"posting", "filtered"}
          /\ receiver[r] = "filtered" <=> ~Passes(hooks[r], Wire!Assessment)
    BY <1>1 DEF PostInv
  <2>4. \A r \in DOMAIN hooks : /\ receiver[r] \in Outcomes \cup {"filtered"}
                                /\ receiver[r] \notin {"unasked", "posting"}
    BY <1>1, <2>2, <2>3 DEF Outcomes
  <2>5. receiver \in [DOMAIN hooks -> Wire!Outcomes \cup {"filtered"}]
    BY <2>2, <2>4, SameOperators
  <2>6. \A r \in DOMAIN hooks : receiver[r] = "filtered" <=> r \notin Posted
    BY <2>2, <2>4 DEF Posted
  <2>7. Posted = {r \in DOMAIN hooks : Wire!Passes(hooks[r], Wire!Assessment)}
    BY <2>2, <2>3, <2>4, SameOperators DEF Posted
  <2>8. Wire!Says(Wire!Report(receiver))
    BY <1>1, <1>3, SendSays
  <2>9. Wire!Reports
    BY <2>1, <2>5, <2>6, <2>7, <2>8 DEF Wire!Reports, Posted
  <2> QED
    BY <2>9 DEF Wire!Next
<1> QED
  BY <1>2, <1>3 DEF ReportHooks

\* Every other step is silent.
LEMMA SilentImplements ==
  ASSUME \/ OpenAdapter \/ TakeTurn \/ Conclude \/ Disconnect \/ Finally \/ Persist \/ Crash
         \/ \E error \in ErrorsOf(AdapterFor(Config)) : FailCall(error)
         \/ \E usage \in Usages, content \in Contents :
              AnswerCall(usage, content)
         \/ UNCHANGED vars
  PROVE  UNCHANGED Told
<1>1. UNCHANGED <<captured, hooks, receiver>>
  BY DEF OpenAdapter, TakeTurn, Conclude, Disconnect, Finally, Persist, Crash, FailCall,
         AnswerCall, turnVars, vars
<1> QED
  BY <1>1 DEF Told, Posted

\* However many agents there are, whatever fails and whoever leaves: a stream
\* is a run of the protocol.  The agents are heard in the order of their table,
\* each once, phases announced between them; the assessment is given once and is
\* the neutral one when the manager, or the first agent, failed; a receiver is
\* posted once, if the assessment is one it asks for; and the report names all.
THEOREM StreamKeepsProtocol == Spec => KeepsProtocol
<1>1. Init => Wire!Init
  BY DEF Init, Wire!Init
<1>2. AllInv /\ [Next]_vars => [Wire!Next]_Told
  BY OpensImplements, AgentsImplement, CompleteImplements, PostsImplement, ReportImplements,
     SilentImplements DEF Next
<1>3. AllInv /\ [Next]_vars => [Wire!Next]_<<captured, hooks,
        {r \in DOMAIN receiver : receiver[r] \notin {"unasked", "filtered"}}>>
  BY <1>2 DEF Told, Posted
<1> QED
  BY <1>1, <1>3, AllInit, AllNext, PTL DEF Spec, KeepsProtocol, Wire!Spec

=============================================================================
