------------------------------ MODULE CliView -------------------------------
(***************************************************************************)
(* What the command line shows of a run (src/cli/main.py, MessageBuffer):  *)
(* a status per agent and the report sections, worked out anew from every  *)
(* chunk of the stream.  A chunk is the whole state of the graph after a   *)
(* node, so the operators take the graph's state.                          *)
(***************************************************************************)
EXTENDS AgentGraph

Committee == Debaters \cup {"ResearchManager", "Trader", "PortfolioManager"} \cup Riskers
ResearchTeam == Debaters \cup {"ResearchManager"}
Planned == {Plan[i] : i \in 1..Len(Plan)}
Agents == Planned \cup Committee

(* init_for_analysis; the first analyst is set to work before the stream. *)
Opened == [a \in Agents |-> IF a = Plan[1] THEN "in_progress" ELSE "pending"]

(* update_analyst_statuses *)
AllReported(g) == Planned \subseteq g.reports
FirstToReport(g, a) ==
  \E i \in 1..Len(Plan) : /\ Plan[i] = a
                          /\ a \notin g.reports
                          /\ \A j \in 1..(i - 1) : Plan[j] \in g.reports
AnalystStatuses(view, g) ==
  [a \in Agents |->
     CASE a \in Planned /\ a \in g.reports -> "completed"
       [] a \in Planned /\ a \notin g.reports ->
            IF FirstToReport(g, a) THEN "in_progress" ELSE "pending"
       [] a = "Bull" /\ AllReported(g) /\ view[a] = "pending" -> "in_progress"
       [] OTHER -> view[a]]

Marked(view, agents, status) == [a \in Agents |-> IF a \in agents THEN status ELSE view[a]]

(* Every chunk with a word of the debate sets the whole team to work again, and
   every chunk with the judge's decision completes it and sets the Trader to
   work again. *)
ResearchStatuses(view, g) ==
  CASE g.plan -> Marked(Marked(view, ResearchTeam, "completed"), {"Trader"}, "in_progress")
    [] ~g.plan /\ g.debate.turns # << >> -> Marked(view, ResearchTeam, "in_progress")
    [] OTHER -> view

\* Mutant: the Trader is completed with the section, not with the status.
TradingOnce(view, g) ==
  IF g.proposal /\ g.risk.turns = << >>
  THEN Marked(Marked(view, {"Trader"}, "completed"), {"Aggressive"}, "in_progress")
  ELSE view
TradingStatuses(view, g) ==
  IF g.proposal /\ view["Trader"] # "completed"
  THEN Marked(Marked(view, {"Trader"}, "completed"), {"Aggressive"}, "in_progress")
  ELSE view

RiskStatuses(view, g) ==
  LET speaking == Marked(view, {a \in g.risk.spoken : view[a] # "completed"}, "in_progress")
  IN  IF g.decision # Undecided THEN Marked(speaking, Riskers \cup {"PortfolioManager"}, "completed")
                                ELSE speaking

(* The body of the loop over the stream *)
Chunk(view, g) ==
  RiskStatuses(TradingStatuses(ResearchStatuses(AnalystStatuses(view, g), g), g), g)

(* get_completed_reports_count: the sections with content whose last agent is
   done *)
DoneReports(view, g) ==
  {a \in Planned : a \in g.reports /\ view[a] = "completed"}
    \cup {a \in {"ResearchManager"} : g.debate.turns # << >> /\ view[a] = "completed"}
    \cup {a \in {"Trader"} : g.proposal /\ view[a] = "completed"}
    \cup {a \in {"PortfolioManager"} : g.risk.turns # << >> /\ view[a] = "completed"}
=============================================================================
