----------------------------- MODULE AgentGraph -----------------------------
(***************************************************************************)
(* The agent graph of the Pro debate (src/tradingagents/graph): its state, *)
(* one operator per node, and the edges.  A node is a pure function of the *)
(* state but for what the model answers; each operator is the set of the   *)
(* states the node can leave, edge taken.  Prompts and prose are abstract; *)
(* who spoke, what was counted and which text is whose are kept.           *)
(***************************************************************************)
EXTENDS Naturals, Sequences

CONSTANTS
  Plan,           \* the selected analysts, in their order
  DebateRounds,   \* max_debate_rounds
  RiskRounds,     \* max_risk_discuss_rounds
  Decisions       \* what the Portfolio Manager may decide

Analysts == {"market", "social", "news", "fundamentals"}
Tooled == Analysts \ {"social"}
Debaters == {"Bull", "Bear"}
Riskers == {"Aggressive", "Conservative", "Neutral"}
None == "none"
Undecided == [form |-> None, rating |-> None]

\* build_analyst_execution_plan: known analysts, at least one; the graph
\* refuses a node added twice.
ASSUME PlanAssumption == /\ Plan \in Seq(Analysts)
                         /\ Plan # << >>
                         /\ \A i, j \in 1..Len(Plan) : Plan[i] = Plan[j] => i = j
ASSUME RoundsAssumption == /\ DebateRounds \in Nat \ {0}
                           /\ RiskRounds \in Nat \ {0}
ASSUME DecisionsAssumption == Undecided \notin Decisions

Node(kind, i) == [kind |-> kind, analyst |-> i]
The(kind) == Node(kind, 0)
Nodes == {Node(kind, i) : kind \in {"agent", "tools", "clear"}, i \in 1..Len(Plan)}
           \cup {The(kind) : kind \in Debaters \cup Riskers \cup
                                {"ResearchManager", "Trader", "PortfolioManager", "END"}}

(* State of the graph ------------------------------------------------------*)
(* The messages: whose there are, and whether the last one asks for tools. *)
Conversation(who, asks) == [by |-> who, asks |-> asks]
Said(messages, who, asks) == Conversation(messages.by \cup {who}, asks)

(* create_initial_state *)
Opening(past) ==
  [at       |-> Node("agent", 1),
   messages |-> Conversation({"human"}, FALSE),
   reports  |-> {},
   debate   |-> [turns |-> << >>, response |-> None, count |-> 0],
   risk     |-> [turns |-> << >>, latest |-> None, count |-> 0, spoken |-> {}],
   plan     |-> FALSE,
   proposal |-> FALSE,
   decision |-> Undecided,
   past     |-> past]

Ended(g) == g.at = The("END")

(* The analysts ------------------------------------------------------------*)
(* An analyst answers with tool calls, and then with no report, or with its
   report and no call. *)
Answers(g, who, calls) ==
  [g EXCEPT !.messages = Said(@, who, calls),
            !.reports = IF calls THEN @ \ {who} ELSE @ \cup {who}]

(* should_continue_*: to the tools while the last message asks for them *)
AfterAnalyst(g) ==
  [g EXCEPT !.at = Node(IF g.messages.asks THEN "tools" ELSE "clear", @.analyst)]

ToolAnalyst(g, who) == {AfterAnalyst(Answers(g, who, calls)) : calls \in BOOLEAN}
MarketAnalyst(g) == ToolAnalyst(g, "market")
NewsAnalyst(g) == ToolAnalyst(g, "news")
FundamentalsAnalyst(g) == ToolAnalyst(g, "fundamentals")
(* The data is in the prompt and nothing is bound: it never asks for a tool. *)
SentimentAnalyst(g) == {AfterAnalyst(Answers(g, "social", FALSE))}

Analyst(g) ==
  LET who == Plan[g.at.analyst]
  IN  CASE who = "market" -> MarketAnalyst(g)
        [] who = "social" -> SentimentAnalyst(g)
        [] who = "news" -> NewsAnalyst(g)
        [] who = "fundamentals" -> FundamentalsAnalyst(g)

(* ToolNode: one tool message per call, and back to the analyst that asked *)
Tools(g) ==
  {[g EXCEPT !.messages = Said(@, "tool", FALSE),
             !.at = Node("agent", @.analyst)]}

(* create_msg_delete, and the edge to the next analyst or to the debate *)
MsgClear(g) ==
  {[g EXCEPT !.messages = Conversation({"human"}, FALSE),
             !.at = IF @.analyst < Len(Plan) THEN Node("agent", @.analyst + 1)
                                             ELSE The("Bull")]}

(* The research debate -----------------------------------------------------*)
Speaks(d, who) ==
  [turns |-> Append(d.turns, who), response |-> who, count |-> d.count + 1]

(* should_continue_debate *)
AfterDebater(g) ==
  [g EXCEPT !.at = The(CASE g.debate.count >= 2 * DebateRounds -> "ResearchManager"
                         [] g.debate.count < 2 * DebateRounds /\ g.debate.response = "Bull" -> "Bear"
                         [] OTHER -> "Bull")]

BullResearcher(g) == {AfterDebater([g EXCEPT !.debate = Speaks(@, "Bull")])}
BearResearcher(g) == {AfterDebater([g EXCEPT !.debate = Speaks(@, "Bear")])}

ResearchManager(g) ==
  {[g EXCEPT !.debate.response = "Manager", !.plan = TRUE, !.at = The("Trader")]}

Trader(g) ==
  {[g EXCEPT !.messages = Said(@, "Trader", FALSE),
             !.proposal = TRUE,
             !.at = The("Aggressive")]}

(* The risk debate ---------------------------------------------------------*)
\* Mutant: a risk analyst's turn is not counted.
ArguesUncounted(r, who) ==
  [turns |-> Append(r.turns, who), latest |-> who, count |-> r.count,
   spoken |-> r.spoken \cup {who}]
Argues(r, who) ==
  [turns |-> Append(r.turns, who), latest |-> who, count |-> r.count + 1,
   spoken |-> r.spoken \cup {who}]

(* should_continue_risk_analysis *)
AfterRisker(g) ==
  [g EXCEPT !.at = The(CASE g.risk.count >= 3 * RiskRounds -> "PortfolioManager"
                         [] g.risk.count < 3 * RiskRounds /\ g.risk.latest = "Aggressive" -> "Conservative"
                         [] g.risk.count < 3 * RiskRounds /\ g.risk.latest = "Conservative" -> "Neutral"
                         [] OTHER -> "Aggressive")]

AggressiveDebator(g) == {AfterRisker([g EXCEPT !.risk = Argues(@, "Aggressive")])}
ConservativeDebator(g) == {AfterRisker([g EXCEPT !.risk = Argues(@, "Conservative")])}
NeutralDebator(g) == {AfterRisker([g EXCEPT !.risk = Argues(@, "Neutral")])}

PortfolioManager(g) ==
  {[g EXCEPT !.risk.latest = "Judge", !.decision = d, !.at = The("END")] : d \in Decisions}

(* setup_graph: the node the edges lead to runs next *)
Successors(g) ==
  CASE g.at.kind = "agent" -> Analyst(g)
    [] g.at.kind = "tools" -> Tools(g)
    [] g.at.kind = "clear" -> MsgClear(g)
    [] g.at.kind = "Bull" -> BullResearcher(g)
    [] g.at.kind = "Bear" -> BearResearcher(g)
    [] g.at.kind = "ResearchManager" -> ResearchManager(g)
    [] g.at.kind = "Trader" -> Trader(g)
    [] g.at.kind = "Aggressive" -> AggressiveDebator(g)
    [] g.at.kind = "Conservative" -> ConservativeDebator(g)
    [] g.at.kind = "Neutral" -> NeutralDebator(g)
    [] g.at.kind = "PortfolioManager" -> PortfolioManager(g)
    [] OTHER -> {}

(* How many model calls a node can pay for: a node that asks for structured
   output falls back to one free-text call when the first fails. *)
Structured(node) ==
  \/ node.kind \in {"ResearchManager", "Trader", "PortfolioManager"}
  \/ node.kind = "agent" /\ Plan[node.analyst] = "social"
CallsModel(node) == node.kind \notin {"tools", "clear", "END"}

(* What the app shows of a node --------------------------------------------*)
PhaseOf(node) ==
  CASE node.kind = "agent" -> "analysts"
    [] node.kind \in Debaters \cup {"ResearchManager"} -> "researchers"
    [] node.kind = "Trader" -> "trader"
    [] node.kind \in Riskers \cup {"PortfolioManager"} -> "risk"
    [] OTHER -> None

(* _round_from_delta: the counter of the node's own debate, rounded up *)
RoundOf(phase, g) ==
  CASE phase = "researchers" -> (g.debate.count + 1) \div 2
    [] phase = "risk" -> (g.risk.count + 2) \div 3
    [] OTHER -> 0

(* _extract_content: whose text is shown for a node, given what it returned:
   the first field that is set, in the order the function asks.  Only the
   analysts return reports, only the debate nodes the debate's state, and so
   on; the risk state holds one line per speaker, from every turn so far. *)
\* Mutant: the first risk line that is set, whoever's turn it is.
FirstLineShown(node, g) ==
  CASE node.kind = "agent" /\ Plan[node.analyst] \in g.reports -> Plan[node.analyst]
    [] PhaseOf(node) = "researchers" ->
         IF node.kind = "ResearchManager" THEN "Manager" ELSE g.debate.response
    [] node.kind \in Riskers /\ "Aggressive" \in g.risk.spoken -> "Aggressive"
    [] node.kind = "PortfolioManager" -> "Manager"
    [] node.kind = "Trader" /\ g.proposal -> "Trader"
    [] OTHER -> None
AuthorShown(node, g) ==
  CASE node.kind = "agent" /\ Plan[node.analyst] \in g.reports -> Plan[node.analyst]
    [] PhaseOf(node) = "researchers" -> g.debate.response
    [] node.kind \in Riskers /\ node.kind \in g.risk.spoken -> node.kind
    [] node.kind = "PortfolioManager" -> "Manager"
    [] node.kind = "Trader" /\ g.proposal -> "Trader"
    [] OTHER -> None

Author(node) ==
  CASE node.kind = "agent" -> Plan[node.analyst]
    [] node.kind \in {"ResearchManager", "PortfolioManager"} -> "Manager"
    [] OTHER -> node.kind
=============================================================================
