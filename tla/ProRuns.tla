------------------------------ MODULE ProRuns -------------------------------
(***************************************************************************)
(* The three ways the Pro graph is run: the library's propagate(), the     *)
(* app's full_debate() and the command line.  They drive the same graph    *)
(* (AgentGraph) and share the decision log (MemoryLog); only propagate()   *)
(* resolves the log's pending decisions and resumes from a checkpoint, and *)
(* only the app has a token cap and a wire.  Days pass, nodes fail, runs   *)
(* are cut off, and the process of a library run crashes.                  *)
(***************************************************************************)
EXTENDS AgentGraph, CliView, MemoryLog

CONSTANTS
  Slots,       \* where a run can be under way
  Kind,        \* [Slots -> {"lib", "app", "cli"}]: which entry point drives it
  Tickers,     \* the tickers and the trade dates that are run
  Dates,
  FirstDay,    \* the day it begins
  MaxDay,      \* bound: the last day
  Histories,   \* the logs that earlier runs may have left
  MaxRuns,     \* bound: runs started
  Limit,       \* recursion_limit: steps of one invocation
  Cap,         \* token_cap of an app run
  MaxTokens,   \* bound: tokens of one model call
  SharedLog,   \* another process may append while the log is being rewritten
  Faults       \* subset of {"node", "crash", "leave"}

ASSUME LimitAssumption == Limit \in Nat
ASSUME CalendarAssumption == /\ FirstDay \in Nat /\ MaxDay \in Nat /\ FirstDay <= MaxDay
                             /\ Dates \subseteq Nat
ASSUME NamesAssumption == /\ Tickers \subseteq STRING
                          /\ \A d \in Decisions : d.form = "neither" \/ d.rating \in Ratings
\* An earlier run left what a run leaves (OnePending, and no outcome from a day
\* to come).
ASSUME HistoriesAssumption ==
  \A old \in Histories :
    /\ old \in Seq(Entries)
    /\ SinglePending(old)
    /\ \A i \in DOMAIN old : ~old[i].pending => old[i].resolved <= FirstDay
ASSUME RunsAssumption == MaxRuns \in Nat
ASSUME TokensAssumption == Cap \in Nat /\ MaxTokens \in Nat \ {0}

VARIABLES
  today,     \* the day
  log,       \* the decision log
  ckpt,      \* job -> the graph state its checkpoint holds, or Nothing
  filed,     \* jobs whose state file was written (_log_state)
  run,       \* what each slot is doing
  started    \* runs started so far

vars == <<today, log, ckpt, filed, run, started>>

Jobs == [ticker : Tickers, date : Dates]
Nothing == [at |-> The("none")]
NoRun == [phase |-> "idle"]
NoWire == [phase |-> None, round |-> 0, from |-> None, author |-> None]

Idle(s) == run[s].phase = "idle"
InGraph(s) == run[s].phase = "graph"
Rewriting == \E s \in Slots : run[s].phase = "rewriting"
MayWriteLog == SharedLog \/ ~Rewriting

Init == /\ today = FirstDay
        /\ log \in Histories
        /\ ckpt = [j \in Jobs |-> Nothing]
        /\ filed = {}
        /\ run = [s \in Slots |-> NoRun]
        /\ started = 0

DayPasses == /\ today < MaxDay
             /\ today' = today + 1
             /\ UNCHANGED <<log, ckpt, filed, run, started>>

Graphing(job, g) ==
  [phase |-> "graph", job |-> job, graph |-> g, steps |-> 0, tokens |-> 0,
   wire |-> NoWire, view |-> Opened]

(* Library runs ------------------------------------------------------------*)
(* propagate: _resolve_pending_entries looks at the pending entries of the
   ticker, and fetches the outcome of each; a fetch may fail, an outcome not
   be known yet.  Every one it has is reflected on before the log is read
   again. *)
Propagate(s, job) ==
  /\ Kind[s] = "lib" /\ Idle(s)
  /\ started < MaxRuns /\ job.date <= today
  /\ \E known \in SUBSET {e \in PendingOf(log, job.ticker) : Settles(e, today)} :
       run' = [run EXCEPT ![s] =
                 [phase |-> IF known = {} THEN "ready" ELSE "reflecting", job |-> job,
                  jobs |-> {[ticker |-> e.ticker, date |-> e.date] : e \in known}]]
  /\ started' = started + 1
  /\ UNCHANGED <<today, log, ckpt, filed>>

(* batch_update_with_outcomes reads the file ... *)
ReadLog(s) ==
  /\ run[s].phase = "reflecting" /\ MayWriteLog
  /\ run' = [run EXCEPT ![s] = [phase |-> "rewriting", job |-> @.job,
                                text |-> Updated(log, @.jobs)]]
  /\ UNCHANGED <<today, log, ckpt, filed, started>>

(* ... and replaces it *)
ReplaceLog(s) ==
  /\ run[s].phase = "rewriting"
  /\ log' = run[s].text
  /\ run' = [run EXCEPT ![s] = [phase |-> "ready", job |-> @.job, jobs |-> {}]]
  /\ UNCHANGED <<today, ckpt, filed, started>>

\* Mutant: lessons are never cut off.
NoCutoff(date) == {}
(* _memory_as_of: a past trade date cuts the lessons off at that date *)
MemoryAsOf(date) == IF date < today THEN {date} ELSE {}

\* Mutant: the run always starts from its initial state.
FreshInput(job, opening) == opening
(* checkpoint_input: nothing to pass in when the job's checkpoint is there *)
CheckpointInput(job, opening) == IF ckpt[job] # Nothing THEN ckpt[job] ELSE opening

(* begin_checkpoint and the start of _run_graph *)
BeginGraph(s) ==
  /\ run[s].phase = "ready"
  /\ LET job == run[s].job
         g == CheckpointInput(job, Opening(PastContext(log, job.ticker, MemoryAsOf(job.date))))
     IN  /\ run' = [run EXCEPT ![s] = Graphing(job, g)]
         /\ ckpt' = [ckpt EXCEPT ![job] = g]
  /\ UNCHANGED <<today, log, filed, started>>

\* Mutant: one step more than the limit.
LibStepPastLimit(s) ==
  /\ Kind[s] = "lib" /\ InGraph(s) /\ run[s].steps <= Limit
  /\ \E h \in Successors(run[s].graph) :
       /\ run' = [run EXCEPT ![s].graph = h, ![s].steps = @ + 1]
       /\ \E durable \in {run[s].graph, h} : ckpt' = [ckpt EXCEPT ![run[s].job] = durable]
  /\ UNCHANGED <<today, log, filed, started>>
\* Mutant: tool rounds do not count as steps.
LibStepToolsFree(s) ==
  /\ Kind[s] = "lib" /\ InGraph(s) /\ run[s].steps < Limit
  /\ \E h \in Successors(run[s].graph) :
       /\ run' = [run EXCEPT ![s].graph = h,
                            ![s].steps = IF h.at.kind \in {"tools", "agent"} THEN @ ELSE @ + 1]
       /\ \E durable \in {run[s].graph, h} : ckpt' = [ckpt EXCEPT ![run[s].job] = durable]
  /\ UNCHANGED <<today, log, filed, started>>
(* A step of the graph.  Its checkpoint is written in the background, while
   the next step runs. *)
LibStep(s) ==
  /\ Kind[s] = "lib" /\ InGraph(s) /\ run[s].steps < Limit
  /\ \E h \in Successors(run[s].graph) :
       /\ run' = [run EXCEPT ![s].graph = h, ![s].steps = @ + 1]
       /\ \E durable \in {run[s].graph, h} : ckpt' = [ckpt EXCEPT ![run[s].job] = durable]
  /\ UNCHANGED <<today, log, filed, started>>

(* end_checkpoint: the writes under way are finished, the saver is closed *)
EndCheckpoint(s) == ckpt' = [ckpt EXCEPT ![run[s].job] = run[s].graph]

(* A node raises, or the steps are used up: propagate() raises. *)
LibFails(s) ==
  /\ Kind[s] = "lib" /\ InGraph(s) /\ ~Ended(run[s].graph)
  /\ "node" \in Faults \/ run[s].steps = Limit
  /\ EndCheckpoint(s)
  /\ run' = [run EXCEPT ![s] = NoRun]
  /\ UNCHANGED <<today, log, filed, started>>

(* The end of _run_graph, in its order: the state file, the decision, the
   checkpoint. *)
LogState(s) ==
  /\ Kind[s] = "lib" /\ InGraph(s) /\ Ended(run[s].graph)
  /\ EndCheckpoint(s)
  /\ filed' = filed \cup {run[s].job}
  /\ run' = [run EXCEPT ![s] = [phase |-> "store", job |-> @.job, decision |-> @.graph.decision]]
  /\ UNCHANGED <<today, log, started>>

StoreDecision(s) ==
  /\ run[s].phase = "store" /\ MayWriteLog
  /\ log' = Stored(log, run[s].job, run[s].decision)
  /\ run' = [run EXCEPT ![s] = [phase |-> "clear", job |-> @.job]]
  /\ UNCHANGED <<today, ckpt, filed, started>>

ClearCheckpoint(s) ==
  /\ run[s].phase = "clear"
  /\ ckpt' = [ckpt EXCEPT ![run[s].job] = Nothing]
  /\ run' = [run EXCEPT ![s] = NoRun]
  /\ UNCHANGED <<today, log, filed, started>>

(* The process of a library run dies: what was not written is gone. *)
Crash(s) ==
  /\ "crash" \in Faults /\ Kind[s] = "lib" /\ ~Idle(s)
  /\ run' = [run EXCEPT ![s] = NoRun]
  /\ UNCHANGED <<today, log, ckpt, filed, started>>

(* App runs ----------------------------------------------------------------*)
(* full_debate up to the graph: no checkpoint, and a past context without a
   cutoff *)
FullDebate(s, job) ==
  /\ Kind[s] = "app" /\ Idle(s)
  /\ started < MaxRuns /\ job.date <= today
  /\ run' = [run EXCEPT ![s] = Graphing(job, Opening(PastContext(log, job.ticker, {})))]
  /\ started' = started + 1
  /\ UNCHANGED <<today, log, ckpt, filed>>

(* invoke_structured_or_freetext and _TokenMeter.on_llm_end: a call that takes
   the total to the cap raises; a structured node takes that for a failed
   parse and asks once more.  The totals a node can end with, and whether it
   raised. *)
\* Mutant: the callback's raise is swallowed (raise_error is off).
MeteredQuietly(node, total) ==
  {[total |-> total + n, raises |-> FALSE] :
     n \in IF CallsModel(node) THEN 0..MaxTokens ELSE {0}}
Metered(node, total) ==
  LET over(n) == n >= Cap
      once == {[total |-> total + n, raises |-> over(total + n)] : n \in 0..MaxTokens}
      twice == {[total |-> total + n, raises |-> over(total + n)] : n \in 0..(2 * MaxTokens)}
  IN  CASE ~CallsModel(node) -> {[total |-> total, raises |-> FALSE]}
        [] CallsModel(node) /\ ~Structured(node) -> once
        [] OTHER -> {c \in once : ~c.raises} \cup twice

(* What the loop over the graph's updates puts on the wire for a node *)
Event(node, h) ==
  [phase |-> PhaseOf(node), round |-> RoundOf(PhaseOf(node), h),
   from |-> Author(node), author |-> AuthorShown(node, h)]
IsMessage(node, h) == PhaseOf(node) # None /\ h.at.kind # "tools"

(* What a step leaves: the raise of the meter, or the next state and its event *)
Raised(r, c) == [phase |-> "capped", job |-> r.job, tokens |-> c.total]
Moved(r, h, c) ==
  [r EXCEPT !.graph = h, !.steps = @ + 1, !.tokens = c.total,
            !.wire = IF IsMessage(r.graph.at, h) THEN Event(r.graph.at, h) ELSE @]

AppStep(s) ==
  /\ Kind[s] = "app" /\ InGraph(s) /\ run[s].steps < Limit
  /\ \E h \in Successors(run[s].graph), c \in Metered(run[s].graph.at, run[s].tokens) :
       run' = [run EXCEPT ![s] = IF c.raises THEN Raised(@, c) ELSE Moved(@, h, c)]
  /\ UNCHANGED <<today, log, ckpt, filed, started>>

(* run.token_cap, run.error or a client that left: nothing more is done *)
AppStops(s) ==
  /\ Kind[s] = "app"
  /\ \/ run[s].phase = "capped"
     \/ InGraph(s) /\ ~Ended(run[s].graph) /\ ("node" \in Faults \/ run[s].steps = Limit)
     \/ run[s].phase \in {"graph", "complete"} /\ "leave" \in Faults
  /\ run' = [run EXCEPT ![s] = NoRun]
  /\ UNCHANGED <<today, log, ckpt, filed, started>>

(* The tail: the strengths are scored with one more metered call, whose raise
   is swallowed, and the decision is stored; a failed store is passed over. *)
ScoreAndStore(s) ==
  /\ Kind[s] = "app" /\ InGraph(s) /\ Ended(run[s].graph) /\ MayWriteLog
  /\ log' \in {Stored(log, run[s].job, run[s].graph.decision)}
              \cup (IF "node" \in Faults THEN {log} ELSE {})
  /\ \E n \in 0..MaxTokens :
       run' = [run EXCEPT ![s] = [phase |-> "complete", job |-> @.job, tokens |-> @.tokens + n]]
  /\ UNCHANGED <<today, ckpt, filed, started>>

SessionComplete(s) ==
  /\ run[s].phase = "complete"
  /\ run' = [run EXCEPT ![s] = NoRun]
  /\ UNCHANGED <<today, log, ckpt, filed, started>>

(* Command-line runs -------------------------------------------------------*)
(* The stream of the plain graph: no checkpoint is begun, no lesson is read,
   no decision stored. *)
RunAnalysis(s, job) ==
  /\ Kind[s] = "cli" /\ Idle(s)
  /\ started < MaxRuns /\ job.date <= today
  /\ run' = [run EXCEPT ![s] = Graphing(job, Opening({}))]
  /\ started' = started + 1
  /\ UNCHANGED <<today, log, ckpt, filed>>

CliStep(s) ==
  /\ Kind[s] = "cli" /\ InGraph(s) /\ run[s].steps < Limit
  /\ \E h \in Successors(run[s].graph) :
       run' = [run EXCEPT ![s].graph = h, ![s].steps = @ + 1, ![s].view = Chunk(@, h)]
  /\ UNCHANGED <<today, log, ckpt, filed, started>>

CliEnds(s) ==
  /\ Kind[s] = "cli" /\ InGraph(s)
  /\ \/ Ended(run[s].graph)
     \/ "node" \in Faults \/ run[s].steps = Limit
  /\ run' = [run EXCEPT ![s] = NoRun]
  /\ UNCHANGED <<today, log, ckpt, filed, started>>

(* The specification -------------------------------------------------------*)
LibNext(s) == \/ \E job \in Jobs : Propagate(s, job)
              \/ ReadLog(s) \/ ReplaceLog(s) \/ BeginGraph(s) \/ LibStep(s) \/ LibFails(s)
              \/ LogState(s) \/ StoreDecision(s) \/ ClearCheckpoint(s) \/ Crash(s)
AppNext(s) == \/ \E job \in Jobs : FullDebate(s, job)
              \/ AppStep(s) \/ AppStops(s) \/ ScoreAndStore(s) \/ SessionComplete(s)
CliNext(s) == \/ \E job \in Jobs : RunAnalysis(s, job)
              \/ CliStep(s) \/ CliEnds(s)

Next == DayPasses \/ \E s \in Slots : LibNext(s) \/ AppNext(s) \/ CliNext(s)

Spec == Init /\ [][Next]_vars

(* A run that is under way goes on, whether or not a node fails or a client
   leaves: nobody owes it a failure. *)
OutOfSteps(s) == InGraph(s) /\ run[s].steps = Limit /\ ~Ended(run[s].graph)
Proceeds(s) ==
  \/ ReadLog(s) \/ ReplaceLog(s) \/ BeginGraph(s) \/ LibStep(s)
  \/ LogState(s) \/ StoreDecision(s) \/ ClearCheckpoint(s)
  \/ AppStep(s) \/ ScoreAndStore(s) \/ SessionComplete(s) \/ CliStep(s) \/ CliEnds(s)
  \/ (LibFails(s) \/ AppStops(s)) /\ (OutOfSteps(s) \/ run[s].phase = "capped")
FairSpec == Spec /\ \A s \in Slots : WF_vars(Proceeds(s))

(* Properties --------------------------------------------------------------*)
Graphs == {run[s].graph : s \in {t \in Slots : InGraph(t)}}
            \cup ({ckpt[j] : j \in Jobs} \ {Nothing})

GraphStates ==
  [at       : Nodes,
   messages : [by : SUBSET (Analysts \cup {"human", "tool", "Trader"}), asks : BOOLEAN],
   reports  : SUBSET Analysts,
   debate   : [turns : Seq(Debaters), response : Debaters \cup {None, "Manager"}, count : Nat],
   risk     : [turns : Seq(Riskers), latest : Riskers \cup {None, "Judge"}, count : Nat,
               spoken : SUBSET Riskers],
   plan     : BOOLEAN,
   proposal : BOOLEAN,
   decision : Decisions \cup {Undecided},
   past     : SUBSET Entries]

(* The graph states that runs and checkpoints hold are graph states, and no
   invocation takes more steps than its limit. *)
TypeOK ==
  /\ today \in 0..MaxDay /\ started \in 0..MaxRuns /\ filed \subseteq Jobs
  /\ Graphs \subseteq GraphStates
  /\ \A s \in Slots : InGraph(s) => run[s].job \in Jobs /\ run[s].steps \in 0..Limit

(* The two debates go by the counters and the speakers' names in the state,
   and still come out in the written order: Bull and Bear alternate, the three
   risk analysts take turns, the Research Manager speaks after exactly the
   configured rounds and the Portfolio Manager after exactly his, nobody argues
   before every analyst has reported, and an analyst's conversation holds
   nothing of the others'. *)
Shape(g) ==
  /\ \A i \in 1..Len(g.debate.turns) :
       g.debate.turns[i] = IF i % 2 = 1 THEN "Bull" ELSE "Bear"
  /\ \A i \in 1..Len(g.risk.turns) :
       g.risk.turns[i] = CASE i % 3 = 1 -> "Aggressive"
                           [] i % 3 = 2 -> "Conservative"
                           [] OTHER -> "Neutral"
  /\ g.debate.turns # << >> => \A i \in 1..Len(Plan) : Plan[i] \in g.reports
  /\ Len(g.debate.turns) <= 2 * DebateRounds
  /\ g.plan => Len(g.debate.turns) = 2 * DebateRounds
  /\ g.risk.turns # << >> => g.plan /\ g.proposal
  /\ Len(g.risk.turns) <= 3 * RiskRounds
  /\ g.decision # Undecided => Len(g.risk.turns) = 3 * RiskRounds
  /\ g.at.kind \in {"agent", "tools"} =>
       g.messages.by \subseteq {"human", "tool", Plan[g.at.analyst]}
DebateShape == \A g \in Graphs : Shape(g)

(* The token cap is a backstop with a known reach: the raise of the meter is
   taken for a failed parse and the model asked again, and the scoring call
   comes on top, yet a run never ends two calls or more over its cap. *)
CapBackstop ==
  \A s \in Slots : Kind[s] = "app" /\ run[s].phase \in {"graph", "capped", "complete"} =>
    run[s].tokens < (IF Cap = 0 THEN 1 ELSE Cap) + 2 * MaxTokens

(* What the app is told of a run: each message shows the line of the agent it
   is from, phases come in their order and a debate's rounds count up by one. *)
PhaseRank(p) == CASE p = "analysts" -> 1 [] p = "researchers" -> 2
                  [] p = "trader" -> 3 [] p = "risk" -> 4 [] OTHER -> 0
WireOrder ==
  [][\A s \in Slots :
       Kind[s] = "app" /\ InGraph(s) /\ InGraph(s)' =>
         LET old == run[s].wire
             new == run'[s].wire
         IN  /\ new.author = new.from
             /\ PhaseRank(new.phase) \in {PhaseRank(old.phase), PhaseRank(old.phase) + 1}
             /\ new.phase = old.phase => new.round \in {old.round, old.round + 1}
             /\ new.phase \in {"researchers", "risk"} \ {old.phase} => new.round = 1]_vars

(* What the command line shows only goes forward: the loop sets agents back to
   work on every chunk, and has them completed again by its end; a report that
   was counted as done stays done, and one counts only when its last agent has
   spoken. *)
StatusRank(status) == CASE status = "pending" -> 0 [] status = "in_progress" -> 1 [] OTHER -> 2
ViewForward ==
  [][\A s \in Slots :
       Kind[s] = "cli" /\ InGraph(s) /\ InGraph(s)' =>
         /\ \A a \in Agents : StatusRank(run[s].view[a]) <= StatusRank(run'[s].view[a])
         /\ DoneReports(run[s].view, run[s].graph) \subseteq DoneReports(run'[s].view, run'[s].graph)
         /\ "ResearchManager" \in DoneReports(run'[s].view, run'[s].graph) => run'[s].graph.plan
         /\ "PortfolioManager" \in DoneReports(run'[s].view, run'[s].graph)
              => Ended(run'[s].graph)]_vars

(* A decision whose outcome is not known yet stays in the log until it has one,
   whatever is resolved, rotated out or stored around it. *)
PendingKept ==
  [][\A i \in DOMAIN log :
       log[i].pending /\ ~Settles(log[i], today) =>
         \E k \in DOMAIN log' : log'[k] = log[i]]_vars

(* A rerun of a job, after a crash between its last writes or on purpose, adds
   no second pending decision for the job. *)
OnePending == SinglePending(log)

(* Nothing an agent said in a checkpointed run is unsaid or asked for again,
   and the checkpoint goes only when the decision and the state file are
   written. *)
Continues(g, h) ==
  /\ IsPrefix(g.debate.turns, h.debate.turns)
  /\ IsPrefix(g.risk.turns, h.risk.turns)
  /\ g.reports \subseteq h.reports
  /\ g.plan => h.plan
  /\ g.proposal => h.proposal
  /\ g.decision # Undecided => h.decision = g.decision
CheckpointKept ==
  [][\A j \in Jobs : ckpt[j] # Nothing =>
       \/ ckpt'[j] # Nothing /\ Continues(ckpt[j], ckpt'[j])
       \/ ckpt'[j] = Nothing /\ j \in filed /\ \E i \in DOMAIN log : IsOf(log[i], j)]_vars

(* No library run learns from an outcome that was not known on its trade date,
   also when it goes on days later from a checkpoint. *)
LooksAhead(s) == InGraph(s) /\ \E e \in run[s].graph.past : e.resolved > run[s].job.date
NoLookAhead == \A s \in Slots : Kind[s] = "lib" => ~LooksAhead(s)

(* Every run comes to an end, however often its analysts ask for tools. *)
RunFinishes == \A s \in Slots : ~Idle(s) ~> Idle(s)

(* What comments say of the runs of the app and of the command line: *)

(* The next run of a ticker reflects on the decision of an earlier one whose
   outcome is known. *)
NextRunReflects ==
  [][\A s \in Slots : Idle(s) /\ InGraph(s)' =>
       LET job == run'[s].job
       IN  (\E i \in DOMAIN log : log[i].ticker = job.ticker /\ Settles(log[i], job.date)) =>
             run'[s].graph.past # {}]_vars

(* A run that broke off goes on where it broke off: a later run of the job
   starts with what its agents had said. *)
RunResumes ==
  [][\A s \in Slots : InGraph(s) /\ Len(run[s].graph.debate.turns) > 0 /\ Idle(s)'
         /\ ~Ended(run[s].graph) => ckpt'[run[s].job] # Nothing]_vars
=============================================================================
