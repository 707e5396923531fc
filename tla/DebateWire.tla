------------------------------ MODULE DebateWire -------------------------------
(***************************************************************************)
(* What one stream of the free debate promises to those who listen: the    *)
(* order of its events, and who is posted the decision.                    *)
(*                                                                         *)
(* The agents speak in the order of their table, each once; phases are     *)
(* announced between them; the assessment comes last, from the manager if  *)
(* the manager said anything; a receiver is posted at most once, only when *)
(* the assessment is out and asks for it; and the report names them all.   *)
(***************************************************************************)
EXTENDS Webhooks, Sequences, SequencesExt

CONSTANTS
  Phases,     \* the phase of each agent of the table, the manager last
  MaxTokens,  \* bound on the running total
  LastDay     \* the days are 0..LastDay

VARIABLES
  heard,      \* the events of the stream
  hooks,      \* the parsed hooks of the stream
  posted      \* the receivers that were contacted

Agents == DOMAIN Phases

Start == [type |-> "session.start"]
Transition(i) == [type |-> "phase.transition", agent |-> i]      \* to the phase of agent i
Message(i, kind) == [type |-> "agent.message", agent |-> i, kind |-> kind]
Usage(tokens) == [type |-> "cost.usage", tokens |-> tokens]
Complete(decision) == [type |-> "session.complete", decision |-> decision]
Report(results) == [type |-> "webhook.report", results |-> results]

Summary(day) == [type |-> "data.summary", asOf |-> day]
Headlines == [type |-> "news.headlines"]

\* Where the events of a type stand, and the latest of them.
At(type) == {i \in DOMAIN heard : heard[i].type = type}
Heard(type) == At(type) # {}
Latest(type) == heard[Max(At(type))]

Spoken == Cardinality(At("agent.message"))
LastType == IF heard = <<>> THEN "nothing" ELSE Last(heard).type

Decided == Heard("session.complete")
Assessment == Latest("session.complete").decision

\* Whether the next agent is of another phase than the one who spoke last.
NewPhase == Spoken > 0 /\ Spoken < Len(Phases) /\ Phases[Spoken] # Phases[Spoken + 1]

Says(e) == heard' = Append(heard, e) /\ UNCHANGED <<hooks, posted>>

Opens == /\ ~Heard("session.start") /\ ~Heard("news.headlines")
         /\ \/ ~Heard("data.summary") /\ \E day \in 0..LastDay : Says(Summary(day))
            \/ Says(Headlines)

Starts == ~Heard("session.start") /\ Says(Start)

Between == Heard("session.start") /\ ~Decided

Announces == /\ Between /\ NewPhase /\ LastType # "phase.transition"
             /\ Says(Transition(Spoken + 1))

Hopeless == Spoken = 1 /\ Latest("agent.message").kind = "error"

Speaks == /\ Between /\ Spoken < Len(Phases) /\ ~Hopeless
          /\ NewPhase => LastType = "phase.transition"
          /\ \E kind \in {"said", "error"} : Says(Message(Spoken + 1, kind))

Counts == /\ Between /\ LastType = "agent.message" /\ Last(heard).kind = "said"
          /\ \E tokens \in 0..MaxTokens :
               /\ Heard("cost.usage") => tokens >= Latest("cost.usage").tokens
               /\ Says(Usage(tokens))

\* All have spoken, or the first had nothing to say.
Concludes ==
  /\ Between
  /\ LET last == Latest("agent.message")
     IN  IF Spoken = Len(Phases)
         THEN \E stance \in Stances, conviction \in 1..10 :
                /\ last.kind = "error" => Decision(stance, conviction) = NoAssessment
                /\ Says(Complete(Decision(stance, conviction)))
         ELSE Hopeless /\ Says(Complete(Aborted))

Posts ==
  /\ Decided /\ ~Heard("webhook.report")
  /\ \E rs \in SUBSET (DOMAIN hooks \ posted) :
       /\ \A r \in rs : Passes(hooks[r], Assessment)
       /\ posted' = posted \cup rs
  /\ UNCHANGED <<heard, hooks>>

Reports ==
  /\ Decided /\ ~Heard("webhook.report")
  /\ posted = {r \in DOMAIN hooks : Passes(hooks[r], Assessment)}
  /\ \E results \in [DOMAIN hooks -> Outcomes \cup {"filtered"}] :
       /\ \A r \in DOMAIN hooks : results[r] = "filtered" <=> r \notin posted
       /\ Says(Report(results))

Init == heard = <<>> /\ posted = {}

Next == \/ Opens \/ Starts \/ Announces \/ Speaks \/ Counts \/ Concludes
        \/ Posts \/ Reports

Spec == Init /\ [][Next]_<<heard, hooks, posted>>
=============================================================================
