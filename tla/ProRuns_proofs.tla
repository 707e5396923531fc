---------------------------- MODULE ProRuns_proofs ----------------------------
(***************************************************************************)
(* Proofs about ProRuns, for any plan of analysts, rounds, caps, slots,    *)
(* jobs and faults: the two debates come out in their written order in     *)
(* every run and every checkpoint, the token cap is passed by less than    *)
(* two calls, and what an app is told comes in order.                      *)
(***************************************************************************)
EXTENDS ProRuns, SequenceTheorems, TLAPS

(* The graph ---------------------------------------------------------------*)
Kinds == {"agent", "tools", "clear", "Bull", "Bear", "ResearchManager", "Trader",
          "Aggressive", "Conservative", "Neutral", "PortfolioManager", "END"}

\* The graph states with a given past context.
StatesWith(past) ==
  [at       : [kind : Kinds, analyst : 0 .. Len(Plan)],
   messages : [by : SUBSET (Analysts \cup {"human", "tool", "Trader"}), asks : BOOLEAN],
   reports  : SUBSET Analysts,
   debate   : [turns : Seq(Debaters), response : Debaters \cup {None, "Manager"}, count : Nat],
   risk     : [turns : Seq(Riskers), latest : Riskers \cup {None, "Judge"}, count : Nat,
               spoken : SUBSET Riskers],
   plan     : BOOLEAN,
   proposal : BOOLEAN,
   decision : Decisions \cup {Undecided},
   past     : {past}]

\* How far the analysts are: those before the one at work have reported.
Reported(g, n) == \A j \in 1 .. n : Plan[j] \in g.reports

BullTurn(turns) == \A i \in 1 .. Len(turns) : turns[i] = IF i % 2 = 1 THEN "Bull" ELSE "Bear"
RiskTurn(turns) ==
  \A i \in 1 .. Len(turns) : turns[i] = CASE i % 3 = 1 -> "Aggressive"
                                          [] i % 3 = 2 -> "Conservative"
                                          [] OTHER -> "Neutral"

\* Where a graph stands decides what has been said, counted and decided.
AtAnalysts(g) ==
  /\ g.at.analyst \in 1 .. Len(Plan)
  /\ Reported(g, g.at.analyst - 1)
  /\ g.at.kind = "clear" => Plan[g.at.analyst] \in g.reports
  /\ g.at.kind # "clear" => g.messages.by \subseteq {"human", "tool", Plan[g.at.analyst]}
  /\ g.debate.count = 0 /\ ~g.plan
AtDebate(g) ==
  /\ Reported(g, Len(Plan)) /\ ~g.plan
  /\ g.debate.count < 2 * DebateRounds
  /\ g.at.kind = IF g.debate.count % 2 = 0 THEN "Bull" ELSE "Bear"
AtRisk(g) ==
  /\ g.plan /\ g.proposal
  /\ g.risk.count < 3 * RiskRounds
  /\ g.at.kind = "Aggressive" => g.risk.count % 3 = 0
  /\ g.at.kind = "Conservative" => g.risk.count % 3 = 1
  /\ g.at.kind = "Neutral" => g.risk.count % 3 = 2

Stage(g) ==
  /\ g.at.kind \in {"agent", "tools", "clear"} => AtAnalysts(g)
  /\ g.at.kind \in {"Bull", "Bear"} => AtDebate(g)
  /\ g.at.kind = "ResearchManager" => ~g.plan /\ g.debate.count = 2 * DebateRounds
  /\ g.at.kind = "Trader" => g.plan
  /\ g.at.kind \in {"Aggressive", "Conservative", "Neutral"} => AtRisk(g)
  /\ g.at.kind = "PortfolioManager" => g.risk.count = 3 * RiskRounds /\ g.plan /\ g.proposal
  /\ g.at.kind = "END" => g.risk.count = 3 * RiskRounds

\* Until the risk debate nothing of it is said, and until the end nothing is
\* decided.
BeforeRisk(g) ==
  g.at.kind \in {"agent", "tools", "clear", "Bull", "Bear", "ResearchManager", "Trader"} =>
    g.risk.count = 0
BeforeEnd(g) == g.at.kind # "END" => g.decision = Undecided

Counted(g) ==
  /\ g.debate.count = Len(g.debate.turns) /\ g.risk.count = Len(g.risk.turns)
  /\ BullTurn(g.debate.turns) /\ RiskTurn(g.risk.turns)
  /\ g.debate.count <= 2 * DebateRounds /\ g.risk.count <= 3 * RiskRounds
  /\ g.debate.count > 0 => Reported(g, Len(Plan))
  /\ g.plan => g.debate.count = 2 * DebateRounds
  /\ g.risk.count > 0 => g.plan /\ g.proposal

GraphInv(g) ==
  /\ g \in StatesWith(g.past)
  /\ Counted(g) /\ Stage(g) /\ BeforeRisk(g) /\ BeforeEnd(g)

-------------------------------------------------------------------------------
\* The plan is a sequence of analysts.
LEMMA PlanFacts == /\ Len(Plan) \in Nat \ {0}
                   /\ \A i \in 1 .. Len(Plan) : Plan[i] \in Analysts
  BY PlanAssumption, EmptySeq

LEMMA TheNodes ==
  \A kind \in Kinds : [kind |-> kind, analyst |-> 0] \in [kind : Kinds, analyst : 0 .. Len(Plan)]
  BY PlanFacts

\* The invariant gives the order of the debates.
LEMMA InvariantShape == ASSUME NEW g, GraphInv(g) PROVE Shape(g)
<1> USE DEF GraphInv
<1>1. /\ g.debate.turns \in Seq(Debaters) /\ g.risk.turns \in Seq(Riskers)
      /\ g.debate.turns # << >> <=> g.debate.count > 0
      /\ g.risk.turns # << >> <=> g.risk.count > 0
  <2>1. g.debate.turns \in Seq(Debaters) /\ g.risk.turns \in Seq(Riskers)
    BY DEF StatesWith
  <2>2. g.debate.count = Len(g.debate.turns) /\ g.risk.count = Len(g.risk.turns)
    BY DEF Counted
  <2> QED
    BY <2>1, <2>2, EmptySeq
<1>2. g.decision # Undecided => Len(g.risk.turns) = 3 * RiskRounds
  BY DEF BeforeEnd, Stage, Counted
<1>3. g.at.kind \in {"agent", "tools"} => g.messages.by \subseteq {"human", "tool", Plan[g.at.analyst]}
  BY DEF Stage, AtAnalysts
<1>4. /\ \A i \in 1..Len(g.debate.turns) :
           g.debate.turns[i] = IF i % 2 = 1 THEN "Bull" ELSE "Bear"
      /\ \A i \in 1..Len(g.risk.turns) :
           g.risk.turns[i] = CASE i % 3 = 1 -> "Aggressive"
                               [] i % 3 = 2 -> "Conservative"
                               [] OTHER -> "Neutral"
  BY DEF Counted, BullTurn, RiskTurn
<1>5. /\ g.debate.turns # << >> => \A i \in 1..Len(Plan) : Plan[i] \in g.reports
      /\ Len(g.debate.turns) <= 2 * DebateRounds
      /\ g.plan => Len(g.debate.turns) = 2 * DebateRounds
      /\ g.risk.turns # << >> => g.plan /\ g.proposal
      /\ Len(g.risk.turns) <= 3 * RiskRounds
  BY <1>1 DEF Counted, Reported
<1> QED
  BY <1>2, <1>3, <1>4, <1>5 DEF Shape

\* A run opens in it.
LEMMA OpeningInv == ASSUME NEW past PROVE GraphInv(Opening(past))
<1> DEFINE g == Opening(past)
<1>1. g \in StatesWith(past) /\ g.past = past
  BY PlanFacts DEF Opening, StatesWith, Node, Conversation, Kinds, Analysts
<1>2. Counted(g)
  BY RoundsAssumption DEF Opening, Counted, BullTurn, RiskTurn
<1>3. /\ g.at.kind = "agent" /\ g.at.analyst = 1 /\ g.messages.by = {"human"}
      /\ g.debate.count = 0 /\ g.risk.count = 0 /\ ~g.plan /\ g.decision = Undecided
  BY DEF Opening, Node, Conversation
<1> HIDE DEF g
<1>4. Stage(g) /\ BeforeRisk(g) /\ BeforeEnd(g)
  BY <1>3, PlanFacts DEF Stage, AtAnalysts, Reported, BeforeRisk, BeforeEnd
<1>5. g.past = past
  BY <1>1
<1> QED
  BY <1>1, <1>2, <1>4, <1>5 DEF GraphInv, g

-------------------------------------------------------------------------------
(* One lemma per kind of node. *)

\* What an analyst's turn leaves, whichever analyst is at work.
LEMMA AnalystAnswers ==
  ASSUME NEW g, GraphInv(g), g.at.kind = "agent", NEW h \in Analyst(g)
  PROVE  LET who == Plan[g.at.analyst]
         IN  \E calls \in BOOLEAN :
               /\ h.at = Node(IF calls THEN "tools" ELSE "clear", g.at.analyst)
               /\ h.messages = [by |-> g.messages.by \cup {who}, asks |-> calls]
               /\ h.reports = IF calls THEN g.reports \ {who} ELSE g.reports \cup {who}
               /\ h.debate = g.debate /\ h.risk = g.risk /\ h.plan = g.plan
               /\ h.proposal = g.proposal /\ h.decision = g.decision /\ h.past = g.past
               /\ h = [at |-> h.at, messages |-> h.messages, reports |-> h.reports, debate |-> h.debate,
                       risk |-> h.risk, plan |-> h.plan, proposal |-> h.proposal,
                       decision |-> h.decision, past |-> h.past]
<1> DEFINE who == Plan[g.at.analyst]
<1>1. g \in StatesWith(g.past) /\ AtAnalysts(g) /\ who \in Analysts
  BY PlanFacts DEF GraphInv, Stage, AtAnalysts
<1>2. PICK calls \in BOOLEAN : h = AfterAnalyst(Answers(g, who, calls))
  <2>1. h \in ToolAnalyst(g, who) => \E calls \in BOOLEAN : h = AfterAnalyst(Answers(g, who, calls))
    BY DEF ToolAnalyst
  <2>2. who = "market" => h \in ToolAnalyst(g, who)
    BY DEF Analyst, MarketAnalyst
  <2>3. who = "news" => h \in ToolAnalyst(g, who)
    BY DEF Analyst, NewsAnalyst
  <2>4. who = "fundamentals" => h \in ToolAnalyst(g, who)
    BY DEF Analyst, FundamentalsAnalyst
  <2>5. who = "social" => h = AfterAnalyst(Answers(g, who, FALSE))
    BY DEF Analyst, SentimentAnalyst
  <2> QED
    BY <1>1, <2>1, <2>2, <2>3, <2>4, <2>5 DEF Analysts
<1> QED
  BY <1>1, <1>2 DEF AfterAnalyst, Answers, Said, Conversation, StatesWith

LEMMA AnalystKeeps ==
  ASSUME NEW g, GraphInv(g), g.at.kind = "agent", NEW h \in Analyst(g)
  PROVE  GraphInv(h)
<1> DEFINE who == Plan[g.at.analyst]
<1>1. g \in StatesWith(g.past) /\ AtAnalysts(g) /\ who \in Analysts
  BY PlanFacts DEF GraphInv, Stage, AtAnalysts
<1>2. PICK calls \in BOOLEAN :
      /\ h.at = Node(IF calls THEN "tools" ELSE "clear", g.at.analyst)
      /\ h.messages = [by |-> g.messages.by \cup {who}, asks |-> calls]
      /\ h.reports = IF calls THEN g.reports \ {who} ELSE g.reports \cup {who}
      /\ h.debate = g.debate /\ h.risk = g.risk /\ h.plan = g.plan
      /\ h.proposal = g.proposal /\ h.decision = g.decision /\ h.past = g.past
      /\ h = [at |-> h.at, messages |-> h.messages, reports |-> h.reports, debate |-> h.debate,
              risk |-> h.risk, plan |-> h.plan, proposal |-> h.proposal,
              decision |-> h.decision, past |-> h.past]
  BY AnalystAnswers
<1>3. h \in StatesWith(h.past)
  <2>1. h.at \in [kind : Kinds, analyst : 0 .. Len(Plan)]
    <3>1. \A kind \in Kinds : Node(kind, g.at.analyst) \in [kind : Kinds, analyst : 0 .. Len(Plan)]
      BY <1>1 DEF StatesWith, Node
    <3> QED
      BY <1>2, <3>1 DEF Kinds
  <2>2. h.messages \in [by : SUBSET (Analysts \cup {"human", "tool", "Trader"}), asks : BOOLEAN]
    <3>1. g.messages.by \cup {who} \in SUBSET (Analysts \cup {"human", "tool", "Trader"})
      BY <1>1 DEF StatesWith
    <3> HIDE DEF who
    <3> QED
      BY <1>2, <3>1
  <2>3. h.reports \in SUBSET Analysts
    BY <1>1, <1>2 DEF StatesWith
  <2> QED
    BY <1>1, <1>2, <2>1, <2>2, <2>3 DEF StatesWith
<1>4. Reported(h, h.at.analyst - 1)
  <2>1. \A j \in 1 .. g.at.analyst - 1 : Plan[j] # who
    BY <1>1, PlanAssumption, PlanFacts DEF AtAnalysts
  <2> QED
    BY <1>1, <1>2, <2>1 DEF AtAnalysts, Reported, Node
<1>5. AtAnalysts(h) /\ h.at.kind \in {"tools", "clear"}
  BY <1>1, <1>2, <1>4, PlanFacts DEF AtAnalysts, Node
<1>6. Counted(h) /\ BeforeRisk(h) /\ BeforeEnd(h)
  <2>1. g.risk.count = 0 /\ g.decision = Undecided /\ Counted(g)
    BY DEF GraphInv, BeforeRisk, BeforeEnd
  <2> QED
    BY <1>1, <1>2, <1>5, <2>1 DEF Counted, BeforeRisk, BeforeEnd, AtAnalysts
<1> QED
  BY <1>3, <1>5, <1>6 DEF GraphInv, Stage

LEMMA ToolsKeeps ==
  ASSUME NEW g, GraphInv(g), g.at.kind = "tools", NEW h \in Tools(g)
  PROVE  GraphInv(h)
<1>1. g \in StatesWith(g.past) /\ AtAnalysts(g)
  BY DEF GraphInv, Stage
<1>2. h = [g EXCEPT !.messages = [by |-> g.messages.by \cup {"tool"}, asks |-> FALSE],
                    !.at = [kind |-> "agent", analyst |-> g.at.analyst]]
  BY DEF Tools, Said, Conversation, Node
<1>3. h \in StatesWith(h.past)
  BY <1>1, <1>2 DEF StatesWith, Kinds
<1>4. Counted(h) /\ Stage(h) /\ BeforeRisk(h) /\ BeforeEnd(h)
  <2>1. Counted(g) /\ g.risk.count = 0 /\ g.decision = Undecided
    BY DEF GraphInv, BeforeRisk, BeforeEnd
  <2>2. /\ h.at.kind = "agent" /\ h.at.analyst = g.at.analyst /\ h.reports = g.reports
        /\ h.messages.by = g.messages.by \cup {"tool"}
        /\ h.debate = g.debate /\ h.risk = g.risk /\ h.plan = g.plan
        /\ h.proposal = g.proposal /\ h.decision = g.decision
    BY <1>1, <1>2 DEF StatesWith
  <2> QED
    BY <1>1, <2>1, <2>2 DEF Counted, Stage, AtAnalysts, Reported, BeforeRisk, BeforeEnd
<1> QED
  BY <1>3, <1>4 DEF GraphInv

LEMMA MsgClearKeeps ==
  ASSUME NEW g, GraphInv(g), g.at.kind = "clear", NEW h \in MsgClear(g)
  PROVE  GraphInv(h)
<1>1. g \in StatesWith(g.past) /\ AtAnalysts(g)
  BY DEF GraphInv, Stage
<1>2. h = [g EXCEPT !.messages = [by |-> {"human"}, asks |-> FALSE],
                    !.at = IF g.at.analyst < Len(Plan)
                           THEN [kind |-> "agent", analyst |-> g.at.analyst + 1]
                           ELSE [kind |-> "Bull", analyst |-> 0]]
  BY DEF MsgClear, Conversation, Node, The
<1>3. h \in StatesWith(h.past)
  <2> DEFINE at == IF g.at.analyst < Len(Plan) THEN [kind |-> "agent", analyst |-> g.at.analyst + 1]
                                               ELSE [kind |-> "Bull", analyst |-> 0]
  <2>1. at \in [kind : Kinds, analyst : 0 .. Len(Plan)]
    BY <1>1, PlanFacts DEF AtAnalysts, Kinds
  <2>2. h = [g EXCEPT !.messages = [by |-> {"human"}, asks |-> FALSE], !.at = at]
    BY <1>2
  <2> HIDE DEF at
  <2> QED
    BY <1>1, <2>1, <2>2 DEF StatesWith
<1>4. /\ h.messages.by = {"human"} /\ h.reports = g.reports
      /\ h.debate = g.debate /\ h.risk = g.risk /\ h.plan = g.plan
      /\ h.proposal = g.proposal /\ h.decision = g.decision
      /\ h.at = IF g.at.analyst < Len(Plan)
                THEN [kind |-> "agent", analyst |-> g.at.analyst + 1]
                ELSE [kind |-> "Bull", analyst |-> 0]
  BY <1>1, <1>2 DEF StatesWith
<1>5. Counted(g) /\ g.risk.count = 0 /\ g.decision = Undecided
  BY DEF GraphInv, BeforeRisk, BeforeEnd
<1>6. Counted(h)
  BY <1>4, <1>5 DEF Counted, Reported
<1>7. \A j \in 1 .. g.at.analyst : Plan[j] \in g.reports
  BY <1>1, PlanFacts DEF AtAnalysts, Reported
<1>8. CASE g.at.analyst < Len(Plan)
  <2>1. AtAnalysts(h)
    BY <1>1, <1>4, <1>7, <1>8, PlanFacts DEF AtAnalysts, Reported
  <2> QED
    BY <1>3, <1>4, <1>5, <1>6, <1>8, <2>1 DEF GraphInv, Stage, BeforeRisk, BeforeEnd
<1>9. CASE ~(g.at.analyst < Len(Plan))
  <2>1. AtDebate(h)
    BY <1>1, <1>4, <1>7, <1>9, PlanFacts, RoundsAssumption DEF AtAnalysts, AtDebate, Reported
  <2> QED
    BY <1>3, <1>4, <1>5, <1>6, <1>9, <2>1 DEF GraphInv, Stage, BeforeRisk, BeforeEnd
<1> QED
  BY <1>8, <1>9

\* A turn appended to an alternating debate whose turn it is.
LEMMA BullTurnAppends ==
  ASSUME NEW turns \in Seq(Debaters), BullTurn(turns),
         NEW who \in Debaters, who = IF Len(turns) % 2 = 0 THEN "Bull" ELSE "Bear"
  PROVE  /\ Append(turns, who) \in Seq(Debaters) /\ Len(Append(turns, who)) = Len(turns) + 1
         /\ BullTurn(Append(turns, who))
<1>1. /\ Append(turns, who) \in Seq(Debaters)
      /\ Len(Append(turns, who)) = Len(turns) + 1 /\ Len(turns) \in Nat
      /\ \A i \in 1 .. Len(turns) : Append(turns, who)[i] = turns[i]
      /\ Append(turns, who)[Len(turns) + 1] = who
  OBVIOUS
<1>2. who = IF (Len(turns) + 1) % 2 = 1 THEN "Bull" ELSE "Bear"
  BY <1>1
<1>3. \A i \in 1 .. Len(turns) + 1 : i \in 1 .. Len(turns) \/ i = Len(turns) + 1
  BY <1>1
<1> HIDE DEF BullTurn
<1> QED
  BY <1>1, <1>2, <1>3 DEF BullTurn

LEMMA DebaterKeeps ==
  ASSUME NEW g, GraphInv(g), NEW who \in {"Bull", "Bear"}, g.at.kind = who,
         NEW h, h = AfterDebater([g EXCEPT !.debate = Speaks(@, who)])
  PROVE  GraphInv(h)
<1>1. g \in StatesWith(g.past) /\ AtDebate(g) /\ Counted(g)
  BY DEF GraphInv, Stage
<1>2. g.risk.count = 0 /\ g.decision = Undecided
  BY DEF GraphInv, BeforeRisk, BeforeEnd
<1> DEFINE n == g.debate.count
           d == [turns |-> Append(g.debate.turns, who), response |-> who, count |-> n + 1]
           next == CASE n + 1 >= 2 * DebateRounds -> "ResearchManager"
                     [] n + 1 < 2 * DebateRounds /\ who = "Bull" -> "Bear"
                     [] OTHER -> "Bull"
<1>3. n \in Nat /\ DebateRounds \in Nat
  BY <1>1, RoundsAssumption DEF StatesWith
<1>4. /\ h.at = [kind |-> next, analyst |-> 0] /\ h.debate = d
      /\ h.messages = g.messages /\ h.reports = g.reports /\ h.risk = g.risk
      /\ h.plan = g.plan /\ h.proposal = g.proposal /\ h.decision = g.decision
      /\ h.past = g.past
      /\ h = [g EXCEPT !.debate = d, !.at = [kind |-> next, analyst |-> 0]]
  BY <1>1 DEF AfterDebater, Speaks, The, Node, StatesWith
<1>5. next = IF n + 1 >= 2 * DebateRounds THEN "ResearchManager"
             ELSE IF who = "Bull" THEN "Bear" ELSE "Bull"
  <2>1. CASE n + 1 >= 2 * DebateRounds
    <3>1. ~(n + 1 < 2 * DebateRounds)
      BY <1>3, <2>1
    <3> QED
      BY <1>3, <2>1, <3>1
  <2>2. CASE ~(n + 1 >= 2 * DebateRounds) /\ who = "Bull"
    BY <1>3, <2>2
  <2>3. CASE ~(n + 1 >= 2 * DebateRounds) /\ who # "Bull"
    BY <1>3, <2>3
  <2> QED
    BY <2>1, <2>2, <2>3
<1>6. /\ g.debate.turns \in Seq(Debaters) /\ Len(g.debate.turns) = n
      /\ who = IF n % 2 = 0 THEN "Bull" ELSE "Bear"
      /\ n < 2 * DebateRounds
  BY <1>1 DEF StatesWith, Counted, AtDebate
<1>7. /\ d.turns \in Seq(Debaters) /\ Len(d.turns) = n + 1 /\ BullTurn(d.turns)
  BY <1>1, <1>6, BullTurnAppends DEF Counted, Debaters
<1> HIDE DEF next, n
<1>8. d \in [turns : Seq(Debaters), response : Debaters \cup {None, "Manager"}, count : Nat]
  BY <1>3, <1>7 DEF Debaters
<1> HIDE DEF d
<1>9. h \in StatesWith(h.past)
  <2>1. next \in Kinds
    BY <1>5 DEF Kinds
  <2>2. [kind |-> next, analyst |-> 0] \in [kind : Kinds, analyst : 0 .. Len(Plan)]
    BY <2>1, PlanFacts
  <2> QED
    BY <1>1, <1>4, <1>8, <2>2 DEF StatesWith
<1>10. d.count = n + 1
  BY DEF d
<1>11. Counted(h)
  <2>1. n + 1 <= 2 * DebateRounds
    BY <1>3, <1>6
  <2>2. Reported(h, Len(Plan)) /\ ~h.plan
    BY <1>1, <1>4 DEF AtDebate, Reported
  <2> QED
    BY <1>1, <1>4, <1>7, <1>10, <2>1, <2>2 DEF Counted
<1>12. CASE n + 1 >= 2 * DebateRounds
  <2>1. h.at.kind = "ResearchManager" /\ n + 1 = 2 * DebateRounds
    <3>1. next = "ResearchManager"
      BY <1>5, <1>12
    <3>2. n + 1 = 2 * DebateRounds
      BY <1>3, <1>6, <1>12
    <3>3. h.at.kind = next
      BY <1>4
    <3> QED
      BY <3>1, <3>2, <3>3
  <2> QED
    BY <1>1, <1>2, <1>4, <1>9, <1>10, <1>11, <2>1
       DEF GraphInv, Stage, BeforeRisk, BeforeEnd, AtDebate
<1>13. CASE ~(n + 1 >= 2 * DebateRounds)
  <2>1. h.at.kind = IF (n + 1) % 2 = 0 THEN "Bull" ELSE "Bear"
    BY <1>3, <1>4, <1>5, <1>6, <1>13
  <2>2. AtDebate(h)
    BY <1>1, <1>3, <1>4, <1>10, <1>13, <2>1 DEF AtDebate, Reported
  <2> QED
    BY <1>2, <1>4, <1>9, <1>11, <2>1, <2>2 DEF GraphInv, Stage, BeforeRisk, BeforeEnd
<1> QED
  BY <1>12, <1>13

LEMMA ResearchManagerKeeps ==
  ASSUME NEW g, GraphInv(g), g.at.kind = "ResearchManager", NEW h \in ResearchManager(g)
  PROVE  GraphInv(h)
<1>1. /\ g \in StatesWith(g.past) /\ Counted(g)
      /\ ~g.plan /\ g.debate.count = 2 * DebateRounds
      /\ g.risk.count = 0 /\ g.decision = Undecided
  BY DEF GraphInv, Stage, BeforeRisk, BeforeEnd
<1>2. h = [g EXCEPT !.debate.response = "Manager", !.plan = TRUE,
                    !.at = [kind |-> "Trader", analyst |-> 0]]
  BY DEF ResearchManager, The, Node
<1>3. h \in StatesWith(h.past)
  <2> DEFINE d == [g.debate EXCEPT !.response = "Manager"]
             at == [kind |-> "Trader", analyst |-> 0]
  <2>1. at \in [kind : Kinds, analyst : 0 .. Len(Plan)]
    BY TheNodes DEF Kinds
  <2>2. d \in [turns : Seq(Debaters), response : Debaters \cup {None, "Manager"}, count : Nat]
    BY <1>1 DEF StatesWith
  <2>3. h = [g EXCEPT !.debate = d, !.plan = TRUE, !.at = at]
    BY <1>2
  <2> HIDE DEF d, at
  <2> QED
    BY <1>1, <2>1, <2>2, <2>3 DEF StatesWith
<1>4. /\ h.at.kind = "Trader" /\ h.debate.turns = g.debate.turns /\ h.debate.count = g.debate.count
      /\ h.risk = g.risk /\ h.plan /\ h.reports = g.reports /\ h.decision = g.decision
      /\ h.proposal = g.proposal
  BY <1>1, <1>2 DEF StatesWith
<1>5. Counted(h)
  BY <1>1, <1>4 DEF Counted, Reported
<1> QED
  BY <1>1, <1>3, <1>4, <1>5 DEF GraphInv, Stage, BeforeRisk, BeforeEnd

LEMMA TraderKeeps ==
  ASSUME NEW g, GraphInv(g), g.at.kind = "Trader", NEW h \in Trader(g)
  PROVE  GraphInv(h)
<1>1. /\ g \in StatesWith(g.past) /\ Counted(g) /\ g.plan
      /\ g.risk.count = 0 /\ g.decision = Undecided
  BY DEF GraphInv, Stage, BeforeRisk, BeforeEnd
<1>2. h = [g EXCEPT !.messages = [by |-> g.messages.by \cup {"Trader"}, asks |-> FALSE],
                    !.proposal = TRUE, !.at = [kind |-> "Aggressive", analyst |-> 0]]
  BY DEF Trader, Said, Conversation, The, Node
<1>3. h \in StatesWith(h.past)
  <2> DEFINE m == [by |-> g.messages.by \cup {"Trader"}, asks |-> FALSE]
             at == [kind |-> "Aggressive", analyst |-> 0]
  <2>1. at \in [kind : Kinds, analyst : 0 .. Len(Plan)]
    BY TheNodes DEF Kinds
  <2>2. m \in [by : SUBSET (Analysts \cup {"human", "tool", "Trader"}), asks : BOOLEAN]
    BY <1>1 DEF StatesWith
  <2>3. h = [g EXCEPT !.messages = m, !.proposal = TRUE, !.at = at]
    BY <1>2
  <2> HIDE DEF m, at
  <2> QED
    BY <1>1, <2>1, <2>2, <2>3 DEF StatesWith
<1>4. /\ h.at.kind = "Aggressive" /\ h.debate = g.debate /\ h.proposal
      /\ h.risk = g.risk /\ h.plan = g.plan /\ h.reports = g.reports /\ h.decision = g.decision
  BY <1>1, <1>2 DEF StatesWith
<1>5. Counted(h)
  BY <1>1, <1>4 DEF Counted, Reported
<1>6. AtRisk(h)
  BY <1>1, <1>4, RoundsAssumption DEF AtRisk
<1> QED
  BY <1>1, <1>3, <1>4, <1>5, <1>6 DEF GraphInv, Stage, BeforeRisk, BeforeEnd

\* A turn appended to a risk debate whose turn it is.
LEMMA RiskTurnAppends ==
  ASSUME NEW turns \in Seq(Riskers), RiskTurn(turns), NEW who \in Riskers,
         who = "Aggressive" => Len(turns) % 3 = 0,
         who = "Conservative" => Len(turns) % 3 = 1,
         who = "Neutral" => Len(turns) % 3 = 2
  PROVE  /\ Append(turns, who) \in Seq(Riskers) /\ Len(Append(turns, who)) = Len(turns) + 1
         /\ RiskTurn(Append(turns, who))
<1>1. /\ Append(turns, who) \in Seq(Riskers)
      /\ Len(Append(turns, who)) = Len(turns) + 1 /\ Len(turns) \in Nat
      /\ \A i \in 1 .. Len(turns) : Append(turns, who)[i] = turns[i]
      /\ Append(turns, who)[Len(turns) + 1] = who
  OBVIOUS
<1> DEFINE k == Len(turns) + 1
           now == CASE k % 3 = 1 -> "Aggressive" [] k % 3 = 2 -> "Conservative" [] OTHER -> "Neutral"
<1>2. who = now
  <2>1. CASE who = "Aggressive"
    <3>1. k % 3 = 1 /\ ~(k % 3 = 2)
      BY <1>1, <2>1
    <3> QED
      BY <2>1, <3>1
  <2>2. CASE who = "Conservative"
    <3>1. k % 3 = 2 /\ ~(k % 3 = 1)
      BY <1>1, <2>2
    <3> QED
      BY <2>2, <3>1
  <2>3. CASE who = "Neutral"
    <3>1. ~(k % 3 = 1) /\ ~(k % 3 = 2)
      BY <1>1, <2>3
    <3> QED
      BY <2>3, <3>1
  <2> QED
    BY <2>1, <2>2, <2>3 DEF Riskers
<1>3. \A i \in 1 .. Len(turns) + 1 : i \in 1 .. Len(turns) \/ i = Len(turns) + 1
  BY <1>1
<1>4. ASSUME NEW i \in 1 .. Len(Append(turns, who))
      PROVE  Append(turns, who)[i] = CASE i % 3 = 1 -> "Aggressive"
                                       [] i % 3 = 2 -> "Conservative"
                                       [] OTHER -> "Neutral"
  <2>1. CASE i \in 1 .. Len(turns)
    BY <1>1, <2>1 DEF RiskTurn
  <2>2. CASE i = Len(turns) + 1
    BY <1>1, <1>2, <2>2
  <2> QED
    BY <1>1, <1>3, <2>1, <2>2
<1>5. RiskTurn(Append(turns, who))
  BY <1>4 DEF RiskTurn
<1> QED
  BY <1>1, <1>5

LEMMA RiskerKeeps ==
  ASSUME NEW g, GraphInv(g), NEW who \in {"Aggressive", "Conservative", "Neutral"}, g.at.kind = who,
         NEW h, h = AfterRisker([g EXCEPT !.risk = Argues(@, who)])
  PROVE  GraphInv(h)
<1>1. /\ g \in StatesWith(g.past) /\ AtRisk(g) /\ Counted(g) /\ g.decision = Undecided
  BY DEF GraphInv, Stage, BeforeEnd
<1> DEFINE n == g.risk.count
           r == [turns |-> Append(g.risk.turns, who), latest |-> who, count |-> n + 1,
                 spoken |-> g.risk.spoken \cup {who}]
           next == CASE n + 1 >= 3 * RiskRounds -> "PortfolioManager"
                     [] n + 1 < 3 * RiskRounds /\ who = "Aggressive" -> "Conservative"
                     [] n + 1 < 3 * RiskRounds /\ who = "Conservative" -> "Neutral"
                     [] OTHER -> "Aggressive"
<1>3. n \in Nat /\ RiskRounds \in Nat
  BY <1>1, RoundsAssumption DEF StatesWith
<1>4. /\ h.at = [kind |-> next, analyst |-> 0] /\ h.risk = r
      /\ h.messages = g.messages /\ h.reports = g.reports /\ h.debate = g.debate
      /\ h.plan = g.plan /\ h.proposal = g.proposal /\ h.decision = g.decision
      /\ h = [g EXCEPT !.risk = r, !.at = [kind |-> next, analyst |-> 0]]
  BY <1>1 DEF AfterRisker, Argues, The, Node, StatesWith
<1>5. next = IF n + 1 >= 3 * RiskRounds THEN "PortfolioManager"
             ELSE IF who = "Aggressive" THEN "Conservative"
             ELSE IF who = "Conservative" THEN "Neutral" ELSE "Aggressive"
  <2>1. CASE n + 1 >= 3 * RiskRounds
    <3>1. ~(n + 1 < 3 * RiskRounds)
      BY <1>3, <2>1
    <3> QED
      BY <1>3, <2>1, <3>1
  <2>2. CASE ~(n + 1 >= 3 * RiskRounds) /\ who = "Aggressive"
    BY <1>3, <2>2
  <2>3. CASE ~(n + 1 >= 3 * RiskRounds) /\ who = "Conservative"
    BY <1>3, <2>3
  <2>4. CASE ~(n + 1 >= 3 * RiskRounds) /\ who = "Neutral"
    BY <1>3, <2>4
  <2> QED
    BY <2>1, <2>2, <2>3, <2>4
<1>6. /\ g.risk.turns \in Seq(Riskers) /\ Len(g.risk.turns) = n /\ n < 3 * RiskRounds
      /\ who = "Aggressive" => n % 3 = 0
      /\ who = "Conservative" => n % 3 = 1
      /\ who = "Neutral" => n % 3 = 2
  BY <1>1 DEF StatesWith, Counted, AtRisk
<1>7. /\ r.turns \in Seq(Riskers) /\ Len(r.turns) = n + 1 /\ RiskTurn(r.turns)
  BY <1>1, <1>6, RiskTurnAppends DEF Counted, Riskers
<1> HIDE DEF next, n
<1>8. r \in [turns : Seq(Riskers), latest : Riskers \cup {None, "Judge"}, count : Nat,
             spoken : SUBSET Riskers]
  <2>1. g.risk.spoken \cup {who} \in SUBSET Riskers
    BY <1>1 DEF StatesWith, Riskers
  <2> QED
    BY <1>3, <1>7, <2>1 DEF Riskers
<1>9. r.count = n + 1
  OBVIOUS
<1> HIDE DEF r
<1>10. h \in StatesWith(h.past)
  <2>1. next \in Kinds
    BY <1>5 DEF Kinds
  <2>2. [kind |-> next, analyst |-> 0] \in [kind : Kinds, analyst : 0 .. Len(Plan)]
    BY <2>1, PlanFacts
  <2> QED
    BY <1>1, <1>4, <1>8, <2>2 DEF StatesWith
<1>11. Counted(h)
  <2>1. n + 1 <= 3 * RiskRounds
    BY <1>3, <1>6
  <2>2. h.plan /\ h.proposal
    BY <1>1, <1>4 DEF AtRisk
  <2> QED
    BY <1>1, <1>4, <1>7, <1>9, <2>1, <2>2 DEF Counted, Reported
<1>12. h.at.kind = next
  BY <1>4
<1>13. CASE n + 1 >= 3 * RiskRounds
  <2>1. h.at.kind = "PortfolioManager"
    BY <1>5, <1>12, <1>13
  <2>2. n + 1 = 3 * RiskRounds
    BY <1>3, <1>6, <1>13
  <2> QED
    BY <1>1, <1>4, <1>9, <1>10, <1>11, <2>1, <2>2
       DEF GraphInv, Stage, BeforeRisk, BeforeEnd, AtRisk
<1>14. CASE ~(n + 1 >= 3 * RiskRounds)
  <2>1. /\ next \in {"Aggressive", "Conservative", "Neutral"}
        /\ next = "Aggressive" => (n + 1) % 3 = 0
        /\ next = "Conservative" => (n + 1) % 3 = 1
        /\ next = "Neutral" => (n + 1) % 3 = 2
    <3>1. CASE who = "Aggressive"
      BY <1>3, <1>5, <1>6, <1>14, <3>1
    <3>2. CASE who = "Conservative"
      BY <1>3, <1>5, <1>6, <1>14, <3>2
    <3>3. CASE who = "Neutral"
      BY <1>3, <1>5, <1>6, <1>14, <3>3
    <3> QED
      BY <3>1, <3>2, <3>3
  <2>2. n + 1 < 3 * RiskRounds
    BY <1>3, <1>14
  <2>3. AtRisk(h)
    BY <1>1, <1>4, <1>9, <1>12, <2>1, <2>2 DEF AtRisk
  <2> QED
    BY <1>1, <1>4, <1>10, <1>11, <1>12, <2>1, <2>3 DEF GraphInv, Stage, BeforeRisk, BeforeEnd
<1> QED
  BY <1>13, <1>14

LEMMA PortfolioManagerKeeps ==
  ASSUME NEW g, GraphInv(g), g.at.kind = "PortfolioManager", NEW h \in PortfolioManager(g)
  PROVE  GraphInv(h)
<1>1. g \in StatesWith(g.past) /\ Counted(g) /\ g.risk.count = 3 * RiskRounds
  BY DEF GraphInv, Stage
<1>2. PICK d \in Decisions :
        h = [g EXCEPT !.risk.latest = "Judge", !.decision = d,
                      !.at = [kind |-> "END", analyst |-> 0]]
  BY DEF PortfolioManager, The, Node
<1>3. h \in StatesWith(h.past)
  <2> DEFINE r == [g.risk EXCEPT !.latest = "Judge"]
             at == [kind |-> "END", analyst |-> 0]
  <2>1. at \in [kind : Kinds, analyst : 0 .. Len(Plan)]
    BY TheNodes DEF Kinds
  <2>2. r \in [turns : Seq(Riskers), latest : Riskers \cup {None, "Judge"}, count : Nat,
               spoken : SUBSET Riskers]
    BY <1>1 DEF StatesWith
  <2>3. h = [g EXCEPT !.risk = r, !.decision = d, !.at = at]
    BY <1>2
  <2> HIDE DEF r, at
  <2> QED
    BY <1>1, <2>1, <2>2, <2>3 DEF StatesWith
<1>4. /\ h.at.kind = "END" /\ h.risk.turns = g.risk.turns /\ h.risk.count = g.risk.count
      /\ h.debate = g.debate /\ h.plan = g.plan /\ h.reports = g.reports
      /\ h.proposal = g.proposal
  BY <1>1, <1>2 DEF StatesWith
<1>5. Counted(h)
  BY <1>1, <1>4 DEF Counted, Reported
<1> QED
  BY <1>1, <1>3, <1>4, <1>5 DEF GraphInv, Stage, BeforeRisk, BeforeEnd

\* Whatever the models answer, a step of the graph keeps it in order.
LEMMA StepKeeps == ASSUME NEW g, GraphInv(g), NEW h \in Successors(g) PROVE GraphInv(h)
<1>1. g.at.kind \in Kinds
  BY DEF GraphInv, StatesWith
<1>2. CASE g.at.kind = "agent"
  BY <1>2, AnalystKeeps DEF Successors
<1>3. CASE g.at.kind = "tools"
  BY <1>3, ToolsKeeps DEF Successors
<1>4. CASE g.at.kind = "clear"
  BY <1>4, MsgClearKeeps DEF Successors
<1>5. CASE g.at.kind = "Bull"
  BY <1>5, DebaterKeeps DEF Successors, BullResearcher
<1>6. CASE g.at.kind = "Bear"
  BY <1>6, DebaterKeeps DEF Successors, BearResearcher
<1>7. CASE g.at.kind = "ResearchManager"
  BY <1>7, ResearchManagerKeeps DEF Successors
<1>8. CASE g.at.kind = "Trader"
  BY <1>8, TraderKeeps DEF Successors
<1>9. CASE g.at.kind = "Aggressive"
  BY <1>9, RiskerKeeps DEF Successors, AggressiveDebator
<1>10. CASE g.at.kind = "Conservative"
  BY <1>10, RiskerKeeps DEF Successors, ConservativeDebator
<1>11. CASE g.at.kind = "Neutral"
  BY <1>11, RiskerKeeps DEF Successors, NeutralDebator
<1>12. CASE g.at.kind = "PortfolioManager"
  BY <1>12, PortfolioManagerKeeps DEF Successors
<1>13. CASE g.at.kind = "END"
  BY <1>13 DEF Successors
<1> QED
  BY <1>1, <1>2, <1>3, <1>4, <1>5, <1>6, <1>7, <1>8, <1>9, <1>10, <1>11, <1>12, <1>13 DEF Kinds

-------------------------------------------------------------------------------
(* The runs ----------------------------------------------------------------*)
\* What is in the graph: a job and a graph state in order.
GraphRuns(graph, wire, view) ==
  [phase : {"graph"}, job : Jobs, graph : {graph}, steps : 0 .. Limit, tokens : Nat,
   wire : {wire}, view : {view}]
InGraphRun(r) == r \in GraphRuns(r.graph, r.wire, r.view) /\ GraphInv(r.graph)

\* What each slot does is well-formed as far as the graph and the cap need it.
Busy == {"reflecting", "rewriting", "ready", "store", "clear", "capped", "complete"}
Wellformed(r) ==
  /\ r.phase \in Busy \cup {"idle", "graph"}
  /\ r.phase = "graph" => InGraphRun(r)
  /\ r.phase \in {"reflecting", "rewriting", "ready", "store", "clear"} => r.job \in Jobs

Saved(c) == c = Nothing \/ GraphInv(c)

IInv == /\ run = [s \in Slots |-> run[s]]
        /\ \A s \in Slots : Wellformed(run[s])
        /\ ckpt = [j \in Jobs |-> ckpt[j]]
        /\ \A j \in Jobs : Saved(ckpt[j])

LEMMA OneRunChanges ==
  ASSUME IInv, NEW s \in Slots, NEW r, Wellformed(r), run' = [run EXCEPT ![s] = r]
  PROVE  run' = [t \in Slots |-> run'[t]] /\ \A t \in Slots : Wellformed(run'[t])
<1>1. run' = [t \in Slots |-> IF t = s THEN r ELSE run[t]]
  BY DEF IInv
<1> QED
  BY <1>1 DEF IInv

LEMMA OneSaved ==
  ASSUME IInv, NEW j \in Jobs, NEW c, Saved(c), ckpt' = [ckpt EXCEPT ![j] = c]
  PROVE  ckpt' = [k \in Jobs |-> ckpt'[k]] /\ \A k \in Jobs : Saved(ckpt'[k])
<1>1. ckpt' = [k \in Jobs |-> IF k = j THEN c ELSE ckpt[k]]
  BY DEF IInv
<1> QED
  BY <1>1 DEF IInv

LEMMA NoRunWellformed == Wellformed(NoRun)
  BY DEF NoRun, Wellformed

LEMMA StartsInGraph ==
  ASSUME NEW job \in Jobs, NEW g, GraphInv(g)
  PROVE  Wellformed(Graphing(job, g)) /\ Graphing(job, g).tokens = 0
  BY LimitAssumption DEF Graphing, Wellformed, InGraphRun, GraphRuns, Busy

LEMMA GoesOn ==
  ASSUME NEW r, InGraphRun(r), r.steps < Limit, NEW h, GraphInv(h),
         NEW n \in Nat, NEW w, NEW v
  PROVE  /\ Wellformed([r EXCEPT !.graph = h, !.steps = @ + 1])
         /\ Wellformed([r EXCEPT !.graph = h, !.steps = @ + 1, !.view = v])
         /\ Wellformed([r EXCEPT !.graph = h, !.steps = @ + 1, !.tokens = n, !.wire = w])
<1>1. r \in GraphRuns(r.graph, r.wire, r.view) /\ r.steps + 1 \in 0 .. Limit
  BY LimitAssumption DEF InGraphRun, GraphRuns
<1>2. ASSUME NEW q, NEW wire, NEW view, q \in GraphRuns(h, wire, view) PROVE Wellformed(q)
  <2>1. q.phase = "graph" /\ q.graph = h /\ q.wire = wire /\ q.view = view
    BY <1>2 DEF GraphRuns
  <2> QED
    BY <1>2, <2>1 DEF Wellformed, InGraphRun
<1>3. [r EXCEPT !.graph = h, !.steps = @ + 1] \in GraphRuns(h, r.wire, r.view)
  BY <1>1 DEF GraphRuns
<1>4. [r EXCEPT !.graph = h, !.steps = @ + 1, !.view = v] \in GraphRuns(h, r.wire, v)
  BY <1>1 DEF GraphRuns
<1>5. [r EXCEPT !.graph = h, !.steps = @ + 1, !.tokens = n, !.wire = w] \in GraphRuns(h, w, r.view)
  BY <1>1 DEF GraphRuns
<1> QED
  BY <1>2, <1>3, <1>4, <1>5

LEMMA LibKeeps == ASSUME IInv, NEW s \in Slots, LibNext(s) PROVE IInv'
<1>0. Wellformed(run[s])
  BY DEF IInv
<1>k. ASSUME UNCHANGED ckpt, NEW r, Wellformed(r), run' = [run EXCEPT ![s] = r] PROVE IInv'
  BY <1>k, OneRunChanges DEF IInv
<1>c. ASSUME NEW j \in Jobs, NEW c, Saved(c), ckpt' = [ckpt EXCEPT ![j] = c],
             NEW r, Wellformed(r), run' = [run EXCEPT ![s] = r]
      PROVE  IInv'
  BY <1>c, OneRunChanges, OneSaved DEF IInv
<1>1. ASSUME NEW job \in Jobs, Propagate(s, job) PROVE IInv'
  <2>1. PICK known \in SUBSET {e \in PendingOf(log, job.ticker) : Settles(e, today)} :
          run' = [run EXCEPT ![s] =
                    [phase |-> IF known = {} THEN "ready" ELSE "reflecting", job |-> job,
                     jobs |-> {[ticker |-> e.ticker, date |-> e.date] : e \in known}]]
    BY <1>1 DEF Propagate
  <2>2. \A jobs : /\ Wellformed([phase |-> "ready", job |-> job, jobs |-> jobs])
                  /\ Wellformed([phase |-> "reflecting", job |-> job, jobs |-> jobs])
    BY DEF Wellformed, Busy
  <2>3. UNCHANGED ckpt
    BY <1>1 DEF Propagate
  <2> QED
    BY <1>k, <2>1, <2>2, <2>3
<1>2. CASE ReadLog(s)
  <2>1. run[s].job \in Jobs
    BY <1>0, <1>2 DEF ReadLog, Wellformed
  <2>2. \A text : Wellformed([phase |-> "rewriting", job |-> run[s].job, text |-> text])
    BY <2>1 DEF Wellformed, Busy
  <2> QED
    BY <1>2, <1>k, <2>2 DEF ReadLog
<1>3. CASE ReplaceLog(s)
  <2>1. run[s].job \in Jobs
    BY <1>0, <1>3 DEF ReplaceLog, Wellformed
  <2>2. Wellformed([phase |-> "ready", job |-> run[s].job, jobs |-> {}])
    BY <2>1 DEF Wellformed, Busy
  <2> QED
    BY <1>3, <1>k, <2>2 DEF ReplaceLog
<1>4. CASE BeginGraph(s)
  <2> DEFINE job == run[s].job
             past == PastContext(log, job.ticker, MemoryAsOf(job.date))
             g == CheckpointInput(job, Opening(past))
  <2>1. job \in Jobs
    BY <1>0, <1>4 DEF BeginGraph, Wellformed
  <2>2. GraphInv(g)
    BY <2>1, OpeningInv DEF IInv, Saved, CheckpointInput
  <2>3. Wellformed(Graphing(job, g))
    BY <2>1, <2>2, StartsInGraph
  <2>4. run' = [run EXCEPT ![s] = Graphing(job, g)] /\ ckpt' = [ckpt EXCEPT ![job] = g]
    BY <1>4 DEF BeginGraph
  <2> HIDE DEF job, g
  <2> QED
    BY <1>c, <2>1, <2>2, <2>3, <2>4 DEF Saved
<1>5. CASE LibStep(s)
  <2>0. InGraphRun(run[s]) /\ run[s].steps < Limit
    BY <1>0, <1>5 DEF LibStep, InGraph, Wellformed
  <2>1. PICK h \in Successors(run[s].graph), durable \in {run[s].graph} \cup Successors(run[s].graph) :
          /\ run' = [run EXCEPT ![s].graph = h, ![s].steps = @ + 1]
          /\ ckpt' = [ckpt EXCEPT ![run[s].job] = durable]
    BY <1>5 DEF LibStep
  <2>2. GraphInv(h) /\ GraphInv(durable)
    BY <2>0, <2>1, StepKeeps DEF InGraphRun
  <2>3. run' = [run EXCEPT ![s] = [run[s] EXCEPT !.graph = h, !.steps = @ + 1]]
    BY <2>1 DEF IInv
  <2>4. Wellformed([run[s] EXCEPT !.graph = h, !.steps = @ + 1])
    BY <2>0, <2>2, GoesOn DEF InGraphRun
  <2>5. run[s].job \in Jobs
    BY <2>0 DEF InGraphRun, GraphRuns
  <2> QED
    BY <1>c, <2>1, <2>2, <2>3, <2>4, <2>5 DEF Saved
<1>6. CASE LibFails(s)
  <2>0. run[s].job \in Jobs /\ GraphInv(run[s].graph)
    BY <1>0, <1>6 DEF LibFails, InGraph, Wellformed, InGraphRun, GraphRuns
  <2> QED
    BY <1>6, <1>c, <2>0, NoRunWellformed DEF LibFails, EndCheckpoint, Saved
<1>7. CASE LogState(s)
  <2>0. run[s].job \in Jobs /\ GraphInv(run[s].graph)
    BY <1>0, <1>7 DEF LogState, InGraph, Wellformed, InGraphRun, GraphRuns
  <2>1. \A decision : Wellformed([phase |-> "store", job |-> run[s].job, decision |-> decision])
    BY <2>0 DEF Wellformed, Busy
  <2> QED
    BY <1>7, <1>c, <2>0, <2>1 DEF LogState, EndCheckpoint, Saved
<1>8. CASE StoreDecision(s)
  <2>0. run[s].job \in Jobs
    BY <1>0, <1>8 DEF StoreDecision, Wellformed
  <2>1. Wellformed([phase |-> "clear", job |-> run[s].job])
    BY <2>0 DEF Wellformed, Busy
  <2> QED
    BY <1>8, <1>k, <2>1 DEF StoreDecision
<1>9. CASE ClearCheckpoint(s)
  <2>0. run[s].job \in Jobs
    BY <1>0, <1>9 DEF ClearCheckpoint, Wellformed
  <2> QED
    BY <1>9, <1>c, <2>0, NoRunWellformed DEF ClearCheckpoint, Saved
<1>10. CASE Crash(s)
  BY <1>10, <1>k, NoRunWellformed DEF Crash
<1> QED
  BY <1>1, <1>2, <1>3, <1>4, <1>5, <1>6, <1>7, <1>8, <1>9, <1>10 DEF LibNext

\* What a node can add to the meter: two calls, and no raise only below the cap.
Reach == IF Cap = 0 THEN 1 ELSE Cap
LEMMA MeteredTotal ==
  ASSUME NEW node, NEW total \in Nat, NEW c \in Metered(node, total)
  PROVE  /\ c.total \in Nat /\ c.total <= total + 2 * MaxTokens
         /\ total < Reach /\ ~c.raises => c.total < Reach
<1> DEFINE once == {[total |-> total + n, raises |-> total + n >= Cap] : n \in 0 .. MaxTokens}
           twice == {[total |-> total + n, raises |-> total + n >= Cap] : n \in 0 .. (2 * MaxTokens)}
<1>1. c \in once \cup twice \cup {[total |-> total, raises |-> FALSE]}
  <2>1. CASE ~CallsModel(node)
    BY <2>1 DEF Metered
  <2>2. CASE CallsModel(node) /\ ~Structured(node)
    BY <2>2 DEF Metered
  <2>3. CASE CallsModel(node) /\ Structured(node)
    BY <2>3 DEF Metered
  <2> QED
    BY <2>1, <2>2, <2>3
<1>2. CASE c = [total |-> total, raises |-> FALSE]
  BY <1>2, TokensAssumption
<1>3. CASE c \in once \cup twice
  <2>1. PICK n \in 0 .. (2 * MaxTokens) : c = [total |-> total + n, raises |-> total + n >= Cap]
    BY <1>3, TokensAssumption
  <2>2. c.total = total + n /\ (~c.raises => total + n < Cap)
    <3>1. c.total = total + n /\ c.raises = (total + n >= Cap)
      BY <2>1
    <3>2. ~(total + n >= Cap) => total + n < Cap
      BY TokensAssumption
    <3> QED
      BY <3>1, <3>2
  <2> QED
    BY <2>2, TokensAssumption DEF Reach
<1> QED
  BY <1>1, <1>2, <1>3

LEMMA AppKeeps == ASSUME IInv, NEW s \in Slots, AppNext(s) \/ CliNext(s) PROVE IInv'
<1>0. Wellformed(run[s])
  BY DEF IInv
<1>k. ASSUME UNCHANGED ckpt, NEW r, Wellformed(r), run' = [run EXCEPT ![s] = r] PROVE IInv'
  BY <1>k, OneRunChanges DEF IInv
<1>1. ASSUME NEW job \in Jobs, FullDebate(s, job) \/ RunAnalysis(s, job) PROVE IInv'
  <2>1. \A past : Wellformed(Graphing(job, Opening(past)))
    BY OpeningInv, StartsInGraph
  <2> QED
    BY <1>1, <1>k, <2>1 DEF FullDebate, RunAnalysis
<1>2. CASE AppStep(s)
  <2>0. InGraphRun(run[s]) /\ run[s].steps < Limit
    BY <1>0, <1>2 DEF AppStep, InGraph, Wellformed
  <2>1. PICK h \in Successors(run[s].graph), c \in Metered(run[s].graph.at, run[s].tokens) :
          run' = [run EXCEPT ![s] = IF c.raises THEN Raised(run[s], c) ELSE Moved(run[s], h, c)]
    BY <1>2 DEF AppStep
  <2>2. GraphInv(h)
    BY <2>0, StepKeeps DEF InGraphRun
  <2>3. c.total \in Nat
    BY <2>0, MeteredTotal DEF InGraphRun, GraphRuns
  <2>4. Wellformed(Raised(run[s], c))
    BY DEF Wellformed, Busy, Raised
  <2>5. Wellformed(Moved(run[s], h, c))
    BY <2>0, <2>2, <2>3, GoesOn DEF Moved
  <2>6. UNCHANGED ckpt
    BY <1>2 DEF AppStep
  <2> QED
    BY <1>k, <2>1, <2>4, <2>5, <2>6
<1>3. CASE AppStops(s) \/ SessionComplete(s) \/ CliEnds(s)
  BY <1>3, <1>k, NoRunWellformed DEF AppStops, SessionComplete, CliEnds
<1>4. CASE ScoreAndStore(s)
  <2>1. \A job, n : Wellformed([phase |-> "complete", job |-> job, tokens |-> n])
    BY DEF Wellformed, Busy
  <2> QED
    BY <1>4, <1>k, <2>1 DEF ScoreAndStore
<1>5. CASE CliStep(s)
  <2>0. InGraphRun(run[s]) /\ run[s].steps < Limit
    BY <1>0, <1>5 DEF CliStep, InGraph, Wellformed
  <2>1. PICK h \in Successors(run[s].graph) :
          run' = [run EXCEPT ![s].graph = h, ![s].steps = @ + 1, ![s].view = Chunk(@, h)]
    BY <1>5 DEF CliStep
  <2>2. GraphInv(h)
    BY <2>0, StepKeeps DEF InGraphRun
  <2>3. run' = [run EXCEPT ![s] = [run[s] EXCEPT !.graph = h, !.steps = @ + 1, !.view = Chunk(@, h)]]
    BY <2>1 DEF IInv
  <2>4. \A view : Wellformed([run[s] EXCEPT !.graph = h, !.steps = @ + 1, !.view = view])
    BY <2>0, <2>2, GoesOn DEF InGraphRun
  <2>6. UNCHANGED ckpt
    BY <1>5 DEF CliStep
  <2> QED
    BY <1>k, <2>3, <2>4, <2>6
<1> QED
  BY <1>1, <1>2, <1>3, <1>4, <1>5 DEF AppNext, CliNext

LEMMA Inductive == Spec => []IInv
<1>1. Init => IInv
  BY NoRunWellformed DEF Init, IInv, Saved
<1>2. IInv /\ [Next]_vars => IInv'
  <2> SUFFICES ASSUME IInv, [Next]_vars PROVE IInv'
    OBVIOUS
  <2>1. CASE DayPasses \/ UNCHANGED vars
    BY <2>1 DEF DayPasses, vars, IInv
  <2>2. ASSUME NEW s \in Slots, LibNext(s) PROVE IInv'
    BY <2>2, LibKeeps
  <2>3. ASSUME NEW s \in Slots, AppNext(s) \/ CliNext(s) PROVE IInv'
    BY <2>3, AppKeeps
  <2> QED
    BY <2>1, <2>2, <2>3 DEF Next
<1> QED
  BY <1>1, <1>2, PTL DEF Spec

\* The two debates come out in their written order in every run, whichever way
\* it is driven, and in every checkpoint one is resumed from, for any plan of
\* analysts, any number of rounds, tool calls, failures and crashes.
THEOREM DebatesInOrder == Spec => []DebateShape
<1>1. IInv => DebateShape
  <2> SUFFICES ASSUME IInv, NEW g \in Graphs PROVE Shape(g)
    BY DEF DebateShape
  <2>1. GraphInv(g)
    BY DEF IInv, Graphs, Wellformed, InGraphRun, InGraph, Saved
  <2> QED
    BY <2>1, InvariantShape
<1> QED
  BY <1>1, Inductive, PTL

-------------------------------------------------------------------------------
(* The meter ---------------------------------------------------------------*)
\* Within the graph a run is below its cap; the call that passes it ends it, and
\* at the end the scoring call comes on top.
WithinReach(r) ==
  /\ r.phase \in {"idle", "graph", "capped", "complete"}
  /\ r.phase # "idle" => r.tokens \in Nat
  /\ r.phase = "graph" => r.tokens < Reach
  /\ r.phase = "capped" => r.tokens < Reach + 2 * MaxTokens
  /\ r.phase = "complete" => r.tokens < Reach + MaxTokens

BelowCap == \A s \in Slots : Kind[s] = "app" => WithinReach(run[s])

LEMMA OneMetered ==
  ASSUME IInv, BelowCap, NEW s \in Slots, NEW r, Kind[s] = "app" => WithinReach(r),
         run' = [run EXCEPT ![s] = r]
  PROVE  BelowCap'
<1>1. run' = [t \in Slots |-> IF t = s THEN r ELSE run[t]]
  BY DEF IInv
<1> QED
  BY <1>1 DEF BelowCap

LEMMA NewRunMetered ==
  /\ WithinReach(NoRun)
  /\ \A job, g : WithinReach(Graphing(job, g))
  BY TokensAssumption DEF WithinReach, NoRun, Graphing, Reach

LEMMA AppMeters == ASSUME IInv, BelowCap, NEW s \in Slots, Kind[s] = "app", AppNext(s) PROVE BelowCap'
<1>0. Wellformed(run[s]) /\ WithinReach(run[s])
  BY DEF IInv, BelowCap
<1>r. Reach \in Nat \ {0} /\ MaxTokens \in Nat
  BY TokensAssumption DEF Reach
<1>1. ASSUME NEW job \in Jobs, FullDebate(s, job) PROVE BelowCap'
  BY <1>1, OneMetered, NewRunMetered DEF FullDebate
<1>2. CASE AppStep(s)
  <2>0. InGraphRun(run[s]) /\ run[s].tokens \in Nat /\ run[s].tokens < Reach
    BY <1>0, <1>2 DEF AppStep, InGraph, Wellformed, WithinReach, InGraphRun, GraphRuns
  <2>1. PICK h \in Successors(run[s].graph), c \in Metered(run[s].graph.at, run[s].tokens) :
          run' = [run EXCEPT ![s] = IF c.raises THEN Raised(run[s], c) ELSE Moved(run[s], h, c)]
    BY <1>2 DEF AppStep
  <2>2. /\ c.total \in Nat /\ c.total <= run[s].tokens + 2 * MaxTokens
        /\ ~c.raises => c.total < Reach
    BY <2>0, MeteredTotal
  <2>3. c.total < Reach + 2 * MaxTokens
    BY <1>r, <2>0, <2>2
  <2>4. WithinReach(Raised(run[s], c))
    BY <2>2, <2>3 DEF WithinReach, Raised
  <2>5. ~c.raises => WithinReach(Moved(run[s], h, c))
    BY <2>0, <2>2 DEF WithinReach, Moved, InGraphRun, GraphRuns
  <2> QED
    BY <2>1, <2>4, <2>5, OneMetered
<1>3. CASE AppStops(s) \/ SessionComplete(s)
  BY <1>3, OneMetered, NewRunMetered DEF AppStops, SessionComplete
<1>4. CASE ScoreAndStore(s)
  <2>0. run[s].tokens \in Nat /\ run[s].tokens < Reach
    BY <1>0, <1>4 DEF ScoreAndStore, InGraph, Wellformed, WithinReach, InGraphRun, GraphRuns
  <2>1. PICK n \in 0 .. MaxTokens :
          run' = [run EXCEPT ![s] = [phase |-> "complete", job |-> @.job, tokens |-> @.tokens + n]]
    BY <1>4 DEF ScoreAndStore
  <2>2. run[s].tokens + n < Reach + MaxTokens /\ run[s].tokens + n \in Nat
    BY <1>r, <2>0
  <2>3. WithinReach([phase |-> "complete", job |-> run[s].job, tokens |-> run[s].tokens + n])
    BY <2>2 DEF WithinReach
  <2> QED
    BY <2>1, <2>3, OneMetered
<1> QED
  BY <1>1, <1>2, <1>3, <1>4 DEF AppNext

\* The other kinds of run leave the app's alone, and no action of theirs is one
\* an app run could take.
LEMMA OthersMeter ==
  ASSUME IInv, BelowCap, NEW s \in Slots, LibNext(s) \/ CliNext(s) \/ AppNext(s) PROVE BelowCap'
<1>1. CASE Kind[s] = "app" /\ AppNext(s)
  BY <1>1, AppMeters
<1>2. CASE Kind[s] # "app"
  <2>1. \A t \in Slots : t # s => run'[t] = run[t]
    BY DEF IInv, LibNext, Propagate, ReadLog, ReplaceLog, BeginGraph, LibStep, LibFails, LogState,
           StoreDecision, ClearCheckpoint, Crash, CliNext, RunAnalysis, CliStep, CliEnds,
           AppNext, FullDebate, AppStep, AppStops, ScoreAndStore, SessionComplete
  <2> QED
    BY <1>2, <2>1 DEF BelowCap
<1>3. CASE Kind[s] = "app" /\ (LibNext(s) \/ CliNext(s))
  <2>1. run[s].phase \in {"idle", "graph", "capped", "complete"}
    BY <1>3 DEF BelowCap, WithinReach
  <2>2. FALSE
    BY <1>3, <2>1 DEF LibNext, Propagate, ReadLog, ReplaceLog, BeginGraph, LibStep, LibFails,
       LogState, StoreDecision, ClearCheckpoint, Crash, CliNext, RunAnalysis, CliStep, CliEnds
  <2> QED
    BY <2>2
<1> QED
  BY <1>1, <1>2, <1>3

\* An app run stays within the meter's reach.
LEMMA MeterInductive == Spec => []BelowCap
<1>1. Init => BelowCap
  BY NewRunMetered DEF Init, BelowCap
<1>2. IInv /\ BelowCap /\ [Next]_vars => BelowCap'
  <2> SUFFICES ASSUME IInv, BelowCap, [Next]_vars PROVE BelowCap'
    OBVIOUS
  <2>1. CASE DayPasses \/ UNCHANGED vars
    BY <2>1 DEF DayPasses, vars, BelowCap
  <2> QED
    BY <2>1, OthersMeter DEF Next
<1> QED
  BY <1>1, <1>2, Inductive, PTL DEF Spec

\* The token cap holds with a known reach, whatever the cap and however large a
\* call: the raise taken for a failed parse and the scoring call together never
\* take an app run two calls or more over it.
THEOREM CapHasReach == Spec => []CapBackstop
<1>1. IInv /\ BelowCap => CapBackstop
  <2> SUFFICES ASSUME IInv, BelowCap, NEW s \in Slots, Kind[s] = "app",
                      run[s].phase \in {"graph", "capped", "complete"}
               PROVE  run[s].tokens < Reach + 2 * MaxTokens
    BY DEF CapBackstop, Reach
  <2>1. WithinReach(run[s]) /\ Reach \in Nat /\ MaxTokens \in Nat
    BY TokensAssumption DEF BelowCap, Reach
  <2>2. CASE run[s].phase = "graph"
    <3>1. run[s].tokens \in Nat
      BY <2>2 DEF IInv, Wellformed, InGraphRun, GraphRuns
    <3> QED
      BY <2>1, <2>2, <3>1 DEF WithinReach
  <2>3. CASE run[s].phase = "capped"
    BY <2>1, <2>3 DEF WithinReach
  <2>4. CASE run[s].phase = "complete"
    BY <2>1, <2>4 DEF WithinReach
  <2> QED
    BY <2>2, <2>3, <2>4
<1> QED
  BY <1>1, Inductive, MeterInductive, PTL
-------------------------------------------------------------------------------
(* The wire ----------------------------------------------------------------*)
\* The three stretches of the graph.
Analysing(g) == g.at.kind = "agent" \/ g.at.kind = "tools" \/ g.at.kind = "clear"
Researching(g) ==
  g.at.kind = "Bull" \/ g.at.kind = "Bear" \/ g.at.kind = "ResearchManager" \/ g.at.kind = "Trader"
Arguing(g) ==
  \/ g.at.kind = "Aggressive" \/ g.at.kind = "Conservative" \/ g.at.kind = "Neutral"
  \/ g.at.kind = "PortfolioManager"

\* Where the graph stands decides what the app was told last.
WireAt(w, g) ==
  /\ w.author = w.from
  /\ g.at.kind = "agent" \/ g.at.kind = "tools" => (w.phase = None \/ w.phase = "analysts") /\ w.round = 0
  /\ g.at.kind = "clear" => w.phase = "analysts" /\ w.round = 0
  /\ Researching(g) =>
       IF g.debate.count = 0 THEN w.phase = "analysts" /\ w.round = 0
       ELSE w.phase = "researchers" /\ w.round = (g.debate.count + 1) \div 2
  /\ Arguing(g) =>
       IF g.risk.count = 0 THEN w.phase = "trader" /\ w.round = 0
       ELSE w.phase = "risk" /\ w.round = (g.risk.count + 2) \div 3

Told == \A s \in Slots : Kind[s] = "app" /\ InGraph(s) => WireAt(run[s].wire, run[s].graph)

\* What may come after an event.
Follows(old, new) ==
  /\ new.author = new.from
  /\ PhaseRank(new.phase) = PhaseRank(old.phase) \/ PhaseRank(new.phase) = PhaseRank(old.phase) + 1
  /\ new.phase = old.phase => new.round = old.round \/ new.round = old.round + 1
  /\ new.phase # old.phase /\ (new.phase = "researchers" \/ new.phase = "risk") => new.round = 1

\* What a node puts on the wire, if it does.
Shown(g, h, w) == IF IsMessage(g.at, h) THEN Event(g.at, h) ELSE w

\* A step that shows nothing, or shows an event, leaves the wire so.
LEMMA ShowsEvent ==
  ASSUME NEW g, NEW h, NEW w
  PROVE  /\ PhaseOf(g.at) = None \/ h.at.kind = "tools" => Shown(g, h, w) = w
         /\ PhaseOf(g.at) # None /\ h.at.kind # "tools" =>
              Shown(g, h, w) = [phase |-> PhaseOf(g.at), round |-> RoundOf(PhaseOf(g.at), h),
                                from |-> Author(g.at), author |-> AuthorShown(g.at, h)]
  BY DEF Shown, IsMessage, Event

\* An analyst's turn shows his report once it is written; tools and the clearing
\* of the messages show nothing.
LEMMA AnalystShows ==
  ASSUME NEW g, GraphInv(g), Analysing(g), NEW h \in Successors(g), NEW w, WireAt(w, g)
  PROVE  WireAt(Shown(g, h, w), h) /\ Follows(w, Shown(g, h, w))
<1> DEFINE who == Plan[g.at.analyst]
           n == Shown(g, h, w)
<1>0. /\ g \in StatesWith(g.past)
      /\ w.author = w.from /\ (w.phase = None \/ w.phase = "analysts") /\ w.round = 0
  BY DEF GraphInv, Analysing, WireAt
<1>1. CASE g.at.kind = "agent"
  <2>1. PICK calls \in BOOLEAN :
          /\ h.at = Node(IF calls THEN "tools" ELSE "clear", g.at.analyst)
          /\ h.reports = IF calls THEN g.reports \ {who} ELSE g.reports \cup {who}
    <3>1. h \in Analyst(g)
      BY <1>1 DEF Successors
    <3> QED
      BY <1>1, <3>1, AnalystAnswers
  <2>2. PhaseOf(g.at) = "analysts" /\ Author(g.at) = who
    <3>1. PhaseOf(g.at) = "analysts"
      BY <1>1 DEF PhaseOf, Debaters, Riskers
    <3>2. Author(g.at) = who
      BY <1>1 DEF Author
    <3> QED
      BY <3>1, <3>2
  <2>3. CASE calls
    <3>1. h.at.kind = "tools"
      BY <2>1, <2>3 DEF Node
    <3>2. n = w
      BY <3>1, ShowsEvent
    <3> QED
      BY <1>0, <3>1, <3>2 DEF WireAt, Follows, Researching, Arguing
  <2>4. CASE ~calls
    <3>1. h.at.kind = "clear" /\ who \in h.reports
      BY <2>1, <2>4 DEF Node
    <3>2. AuthorShown(g.at, h) = who
      BY <1>1, <2>2, <3>1 DEF AuthorShown, Riskers
    <3>3. RoundOf("analysts", h) = 0
      BY DEF RoundOf
    <3>4. n = [phase |-> "analysts", round |-> 0, from |-> who, author |-> who]
      BY <2>2, <3>1, <3>2, <3>3, ShowsEvent DEF None
    <3>5. WireAt(n, h)
      BY <3>1, <3>4 DEF WireAt, Researching, Arguing
    <3>6. Follows(w, n)
      BY <1>0, <3>4 DEF Follows, PhaseRank, None
    <3> QED
      BY <3>5, <3>6
  <2> QED
    BY <2>3, <2>4
<1>2. ASSUME g.at.kind = "tools" \/ g.at.kind = "clear",
             h.at.kind = "agent" \/ (h.at.kind = "Bull" /\ h.debate.count = 0),
             w.phase = "analysts" \/ h.at.kind = "agent"
      PROVE  WireAt(n, h) /\ Follows(w, n)
  <2>1. PhaseOf(g.at) = None
    BY <1>2 DEF PhaseOf, Debaters, Riskers
  <2>2. n = w
    BY <2>1, ShowsEvent
  <2> QED
    BY <1>0, <1>2, <2>2 DEF WireAt, Follows, Researching, Arguing
<1>3. CASE g.at.kind = "tools"
  <2>1. h.at.kind = "agent"
    <3>1. h = [g EXCEPT !.messages = Said(@, "tool", FALSE), !.at = Node("agent", @.analyst)]
      BY <1>3 DEF Successors, Tools
    <3> QED
      BY <1>0, <3>1 DEF Node, StatesWith
  <2> QED
    BY <1>2, <1>3, <2>1
<1>4. CASE g.at.kind = "clear"
  <2>1. h.at.kind = "agent" \/ (h.at.kind = "Bull" /\ h.debate = g.debate)
    <3>1. h = [g EXCEPT !.messages = Conversation({"human"}, FALSE),
                        !.at = IF @.analyst < Len(Plan) THEN Node("agent", @.analyst + 1)
                                                        ELSE The("Bull")]
      BY <1>4 DEF Successors, MsgClear
    <3>2. /\ h.at = IF g.at.analyst < Len(Plan) THEN Node("agent", g.at.analyst + 1) ELSE The("Bull")
          /\ h.debate = g.debate
      BY <1>0, <3>1 DEF StatesWith
    <3> QED
      BY <3>2 DEF The, Node
  <2>2. g.debate.count = 0
    BY <1>4 DEF GraphInv, Stage, AtAnalysts
  <2>3. w.phase = "analysts"
    BY <1>4 DEF WireAt
  <2> QED
    BY <1>2, <1>4, <2>1, <2>2, <2>3
<1> QED
  BY <1>1, <1>3, <1>4 DEF Analysing

\* A researcher's, the Research Manager's and the Trader's turn each show their own.
LEMMA ResearchersShow ==
  ASSUME NEW g, GraphInv(g), Researching(g), NEW h \in Successors(g), NEW w, WireAt(w, g)
  PROVE  WireAt(Shown(g, h, w), h) /\ Follows(w, Shown(g, h, w))
<1> DEFINE n == Shown(g, h, w)
<1>0. /\ g \in StatesWith(g.past) /\ g.debate.count \in Nat
      /\ w.author = w.from
      /\ g.debate.count = 0 => w.phase = "analysts" /\ w.round = 0
      /\ g.debate.count # 0 => w.phase = "researchers" /\ w.round = (g.debate.count + 1) \div 2
  BY DEF GraphInv, StatesWith, WireAt
<1>1. ASSUME NEW who, who = "Bull" \/ who = "Bear", g.at.kind = who
      PROVE  WireAt(n, h) /\ Follows(w, n)
  <2>1. h = AfterDebater([g EXCEPT !.debate = Speaks(@, who)])
    BY <1>1 DEF Successors, BullResearcher, BearResearcher
  <2>2. h.debate.count = g.debate.count + 1 /\ h.debate.response = who
    BY <1>0, <2>1 DEF AfterDebater, Speaks, StatesWith
  <2>3. h.at.kind = "Bull" \/ h.at.kind = "Bear" \/ h.at.kind = "ResearchManager"
    BY <1>0, <2>1 DEF AfterDebater, Speaks, The, Node, StatesWith
  <2>4. PhaseOf(g.at) = "researchers" /\ Author(g.at) = who
    <3>1. PhaseOf(g.at) = "researchers"
      BY <1>1 DEF PhaseOf, Debaters, Riskers
    <3>2. Author(g.at) = who
      BY <1>1 DEF Author
    <3> QED
      BY <3>1, <3>2
  <2>5. AuthorShown(g.at, h) = who
    BY <1>1, <2>2, <2>4 DEF AuthorShown, Riskers
  <2>6. RoundOf("researchers", h) = (g.debate.count + 2) \div 2
    BY <1>0, <2>2 DEF RoundOf
  <2>7. n = [phase |-> "researchers", round |-> (g.debate.count + 2) \div 2, from |-> who, author |-> who]
    BY <2>3, <2>4, <2>5, <2>6, ShowsEvent DEF None
  <2>8. WireAt(n, h)
    <3>1. h.debate.count # 0 /\ n.round = (h.debate.count + 1) \div 2
      BY <1>0, <2>2, <2>7
    <3> QED
      BY <2>3, <2>7, <3>1 DEF WireAt, Researching, Arguing
  <2>9. Follows(w, n)
    BY <1>0, <2>7 DEF Follows, PhaseRank
  <2> QED
    BY <2>8, <2>9
<1>2. CASE g.at.kind = "ResearchManager"
  <2>1. g.debate.count > 0
    BY <1>0, <1>2, RoundsAssumption DEF GraphInv, Stage
  <2>2. h = [g EXCEPT !.debate.response = "Manager", !.plan = TRUE, !.at = The("Trader")]
    BY <1>2 DEF Successors, ResearchManager
  <2>3. h.debate.count = g.debate.count /\ h.debate.response = "Manager"
    BY <1>0, <2>2 DEF StatesWith
  <2>4. h.at.kind = "Trader"
    BY <1>0, <2>2 DEF StatesWith, The, Node
  <2>5. PhaseOf(g.at) = "researchers" /\ Author(g.at) = "Manager"
    <3>1. PhaseOf(g.at) = "researchers"
      BY <1>2 DEF PhaseOf, Debaters, Riskers
    <3>2. Author(g.at) = "Manager"
      BY <1>2 DEF Author
    <3> QED
      BY <3>1, <3>2
  <2>6. AuthorShown(g.at, h) = "Manager"
    BY <1>2, <2>3, <2>5 DEF AuthorShown, Riskers
  <2>7. RoundOf("researchers", h) = (g.debate.count + 1) \div 2
    BY <2>3 DEF RoundOf
  <2>8. n = [phase |-> "researchers", round |-> (g.debate.count + 1) \div 2,
             from |-> "Manager", author |-> "Manager"]
    BY <2>4, <2>5, <2>6, <2>7, ShowsEvent DEF None
  <2>9. WireAt(n, h)
    BY <1>0, <2>1, <2>3, <2>4, <2>8 DEF WireAt, Researching, Arguing
  <2>10. Follows(w, n)
    BY <1>0, <2>1, <2>8 DEF Follows
  <2> QED
    BY <2>9, <2>10
<1>3. CASE g.at.kind = "Trader"
  <2>1. g.debate.count > 0 /\ g.risk.count = 0
    BY <1>0, <1>3, RoundsAssumption DEF GraphInv, Stage, Counted, BeforeRisk
  <2>2. h = [g EXCEPT !.messages = Said(@, "Trader", FALSE), !.proposal = TRUE, !.at = The("Aggressive")]
    BY <1>3 DEF Successors, Trader
  <2>3. h.risk.count = 0 /\ h.proposal /\ h.at.kind = "Aggressive"
    BY <1>0, <2>1, <2>2 DEF The, Node, StatesWith
  <2>4. PhaseOf(g.at) = "trader" /\ Author(g.at) = "Trader"
    <3>1. PhaseOf(g.at) = "trader"
      BY <1>3 DEF PhaseOf, Debaters, Riskers
    <3>2. Author(g.at) = "Trader"
      BY <1>3 DEF Author
    <3> QED
      BY <3>1, <3>2
  <2>5. AuthorShown(g.at, h) = "Trader"
    BY <1>3, <2>3, <2>4 DEF AuthorShown, Riskers
  <2>6. RoundOf("trader", h) = 0
    BY DEF RoundOf
  <2>7. n = [phase |-> "trader", round |-> 0, from |-> "Trader", author |-> "Trader"]
    BY <2>3, <2>4, <2>5, <2>6, ShowsEvent DEF None
  <2>8. WireAt(n, h)
    BY <2>3, <2>7 DEF WireAt, Researching, Arguing
  <2>9. Follows(w, n)
    BY <1>0, <2>1, <2>7 DEF Follows, PhaseRank
  <2> QED
    BY <2>8, <2>9
<1> QED
  BY <1>1, <1>2, <1>3 DEF Researching

\* So do a risk analyst's and the Portfolio Manager's.
LEMMA RiskersShow ==
  ASSUME NEW g, GraphInv(g), Arguing(g), NEW h \in Successors(g), NEW w, WireAt(w, g)
  PROVE  WireAt(Shown(g, h, w), h) /\ Follows(w, Shown(g, h, w))
<1> DEFINE n == Shown(g, h, w)
<1>0. /\ g \in StatesWith(g.past) /\ g.risk.count \in Nat
      /\ w.author = w.from
      /\ g.risk.count = 0 => w.phase = "trader" /\ w.round = 0
      /\ g.risk.count # 0 => w.phase = "risk" /\ w.round = (g.risk.count + 2) \div 3
  BY DEF GraphInv, StatesWith, WireAt
<1>1. ASSUME NEW who, who = "Aggressive" \/ who = "Conservative" \/ who = "Neutral", g.at.kind = who
      PROVE  WireAt(n, h) /\ Follows(w, n)
  <2>1. h = AfterRisker([g EXCEPT !.risk = Argues(@, who)])
    BY <1>1 DEF Successors, AggressiveDebator, ConservativeDebator, NeutralDebator
  <2>2. h.risk.count = g.risk.count + 1 /\ who \in h.risk.spoken
    BY <1>0, <2>1 DEF AfterRisker, Argues, StatesWith
  <2>3. \/ h.at.kind = "PortfolioManager" \/ h.at.kind = "Conservative"
        \/ h.at.kind = "Neutral" \/ h.at.kind = "Aggressive"
    <3> DEFINE m == g.risk.count + 1
               next == CASE m >= 3 * RiskRounds -> "PortfolioManager"
                         [] m < 3 * RiskRounds /\ who = "Aggressive" -> "Conservative"
                         [] m < 3 * RiskRounds /\ who = "Conservative" -> "Neutral"
                         [] OTHER -> "Aggressive"
    <3>1. h.at = [kind |-> next, analyst |-> 0]
      BY <1>0, <2>1 DEF AfterRisker, Argues, The, Node, StatesWith
    <3>2. \/ next = "PortfolioManager" \/ next = "Conservative"
          \/ next = "Neutral" \/ next = "Aggressive"
      OBVIOUS
    <3> HIDE DEF next
    <3> QED
      BY <3>1, <3>2
  <2>4. PhaseOf(g.at) = "risk" /\ Author(g.at) = who
    <3>1. PhaseOf(g.at) = "risk"
      BY <1>1 DEF PhaseOf, Debaters, Riskers
    <3>2. Author(g.at) = who
      BY <1>1 DEF Author
    <3> QED
      BY <3>1, <3>2
  <2>5. AuthorShown(g.at, h) = who
    BY <1>1, <2>2, <2>4 DEF AuthorShown, Riskers
  <2>6. RoundOf("risk", h) = (g.risk.count + 3) \div 3
    BY <1>0, <2>2 DEF RoundOf
  <2>7. n = [phase |-> "risk", round |-> (g.risk.count + 3) \div 3, from |-> who, author |-> who]
    BY <2>3, <2>4, <2>5, <2>6, ShowsEvent DEF None
  <2>8. WireAt(n, h)
    BY <1>0, <2>2, <2>3, <2>7 DEF WireAt, Researching, Arguing
  <2>9. Follows(w, n)
    BY <1>0, <2>7 DEF Follows, PhaseRank
  <2> QED
    BY <2>8, <2>9
<1>2. CASE g.at.kind = "PortfolioManager"
  <2>1. g.risk.count > 0
    BY <1>0, <1>2, RoundsAssumption DEF GraphInv, Stage
  <2>2. PICK d \in Decisions : h = [g EXCEPT !.risk.latest = "Judge", !.decision = d, !.at = The("END")]
    BY <1>2 DEF Successors, PortfolioManager
  <2>3. h.risk.count = g.risk.count /\ h.at.kind = "END"
    BY <1>0, <2>2 DEF The, Node, StatesWith
  <2>4. PhaseOf(g.at) = "risk" /\ Author(g.at) = "Manager"
    <3>1. PhaseOf(g.at) = "risk"
      BY <1>2 DEF PhaseOf, Debaters, Riskers
    <3>2. Author(g.at) = "Manager"
      BY <1>2 DEF Author
    <3> QED
      BY <3>1, <3>2
  <2>5. AuthorShown(g.at, h) = "Manager"
    BY <1>2, <2>4 DEF AuthorShown, Riskers
  <2>6. RoundOf("risk", h) = (g.risk.count + 2) \div 3
    BY <2>3 DEF RoundOf
  <2>7. n = [phase |-> "risk", round |-> (g.risk.count + 2) \div 3, from |-> "Manager", author |-> "Manager"]
    BY <2>3, <2>4, <2>5, <2>6, ShowsEvent DEF None
  <2>8. WireAt(n, h)
    BY <2>3, <2>7 DEF WireAt, Researching, Arguing
  <2>9. Follows(w, n)
    BY <1>0, <2>1, <2>7 DEF Follows
  <2> QED
    BY <2>8, <2>9
<1> QED
  BY <1>1, <1>2 DEF Arguing

\* Every node that shows something shows its own, in its place.
LEMMA StepShows ==
  ASSUME NEW g, GraphInv(g), NEW h \in Successors(g), NEW w, WireAt(w, g)
  PROVE  WireAt(Shown(g, h, w), h) /\ Follows(w, Shown(g, h, w))
<1>1. g.at.kind \in Kinds
  BY DEF GraphInv, StatesWith
<1>2. g.at.kind # "END"
  BY DEF Successors
<1> QED
  BY <1>1, <1>2, AnalystShows, ResearchersShow, RiskersShow DEF Kinds, Analysing, Researching, Arguing

\* A step of an app run follows what it was told, and no other step tells it
\* anything.
LEMMA StepTells ==
  ASSUME IInv, BelowCap, Told, [Next]_vars, NEW s \in Slots, Kind[s] = "app"
  PROVE  InGraph(s)' => /\ WireAt(run'[s].wire, run'[s].graph)
                        /\ InGraph(s) => Follows(run[s].wire, run'[s].wire)
<1>0. Wellformed(run[s])
  BY DEF IInv
<1>1. ASSUME run'[s] = run[s], InGraph(s)
      PROVE  WireAt(run'[s].wire, run'[s].graph) /\ Follows(run[s].wire, run'[s].wire)
  <2>1. WireAt(run[s].wire, run[s].graph)
    BY <1>1 DEF Told
  <2>2. run[s].wire.author = run[s].wire.from
    BY <2>1 DEF WireAt
  <2>3. ASSUME NEW w, w.author = w.from, w.phase = w.phase PROVE Follows(w, w)
    BY <2>3 DEF Follows
  <2> QED
    BY <1>1, <2>1, <2>2, <2>3
<1>2. ASSUME NEW job \in Jobs, FullDebate(s, job)
      PROVE  InGraph(s)' => WireAt(run'[s].wire, run'[s].graph) /\ ~InGraph(s)
  <2>1. PICK past : run' = [run EXCEPT ![s] = Graphing(job, Opening(past))]
    BY <1>2 DEF FullDebate
  <2>2. run'[s] = Graphing(job, Opening(past))
    BY <2>1 DEF IInv
  <2>3. WireAt(NoWire, Opening(past))
    BY DEF WireAt, NoWire, Opening, Node, Researching, Arguing, None
  <2>4. ~InGraph(s)
    BY <1>2 DEF FullDebate, Idle, InGraph
  <2> QED
    BY <2>2, <2>3, <2>4 DEF Graphing
<1>3. ASSUME AppStep(s), InGraph(s)'
      PROVE  WireAt(run'[s].wire, run'[s].graph) /\ Follows(run[s].wire, run'[s].wire)
  <2>0. InGraph(s) /\ InGraphRun(run[s]) /\ WireAt(run[s].wire, run[s].graph)
    BY <1>0, <1>3 DEF AppStep, InGraph, Wellformed, Told
  <2>1. PICK h \in Successors(run[s].graph), c \in Metered(run[s].graph.at, run[s].tokens) :
          run' = [run EXCEPT ![s] = IF c.raises THEN Raised(run[s], c) ELSE Moved(run[s], h, c)]
    BY <1>3 DEF AppStep
  <2>2. run'[s] = Moved(run[s], h, c)
    BY <1>3, <2>1 DEF IInv, InGraph, Raised
  <2>3. run'[s].graph = h /\ run'[s].wire = Shown(run[s].graph, h, run[s].wire)
    BY <2>0, <2>2 DEF Moved, Shown, InGraphRun, GraphRuns
  <2> QED
    BY <2>0, <2>3, StepShows DEF InGraphRun
<1>4. CASE AppStops(s) \/ SessionComplete(s) \/ ScoreAndStore(s)
  <2>1. ~InGraph(s)'
    BY <1>4 DEF AppStops, SessionComplete, ScoreAndStore, InGraph, NoRun, IInv
  <2> QED
    BY <2>1
<1>5. ASSUME NEW t \in Slots, LibNext(t) \/ CliNext(t) PROVE run'[s] = run[s]
  <2>1. t # s
    <3>1. run[s].phase \in {"idle", "graph", "capped", "complete"}
      BY DEF BelowCap, WithinReach
    <3> QED
      BY <1>5, <3>1 DEF LibNext, Propagate, ReadLog, ReplaceLog, BeginGraph, LibStep, LibFails,
         LogState, StoreDecision, ClearCheckpoint, Crash, CliNext, RunAnalysis, CliStep, CliEnds
  <2> QED
    BY <1>5, <2>1 DEF IInv, LibNext, Propagate, ReadLog, ReplaceLog, BeginGraph, LibStep, LibFails,
       LogState, StoreDecision, ClearCheckpoint, Crash, CliNext, RunAnalysis, CliStep, CliEnds
<1>6. ASSUME NEW t \in Slots, t # s, AppNext(t) PROVE run'[s] = run[s]
  BY <1>6 DEF IInv, AppNext, FullDebate, AppStep, AppStops, ScoreAndStore, SessionComplete
<1>7. CASE DayPasses \/ UNCHANGED vars
  BY <1>1, <1>7 DEF DayPasses, vars, InGraph
<1>8. CASE AppNext(s)
  BY <1>2, <1>3, <1>4, <1>8 DEF AppNext
<1>9. run'[s] = run[s] =>
        (InGraph(s)' => /\ WireAt(run'[s].wire, run'[s].graph)
                        /\ InGraph(s) => Follows(run[s].wire, run'[s].wire))
  BY <1>1 DEF InGraph
<1> QED
  BY <1>5, <1>6, <1>7, <1>8, <1>9 DEF Next

\* What the app is told comes in order: each message shows the line of the agent
\* it is from, phases follow one another and rounds count up by one, for any
\* plan, rounds, tool calls, caps and failures.
THEOREM WireInOrder == Spec => WireOrder
<1>1. Init => Told
  BY DEF Init, Told, InGraph, NoRun
<1>2. IInv /\ BelowCap /\ Told /\ [Next]_vars => Told'
  BY StepTells DEF Told
<1>3. IInv /\ BelowCap /\ Told /\ [Next]_vars =>
        [\A s \in Slots :
           Kind[s] = "app" /\ InGraph(s) /\ InGraph(s)' =>
             LET old == run[s].wire
                 new == run'[s].wire
             IN  /\ new.author = new.from
                 /\ PhaseRank(new.phase) \in {PhaseRank(old.phase), PhaseRank(old.phase) + 1}
                 /\ new.phase = old.phase => new.round \in {old.round, old.round + 1}
                 /\ new.phase \in {"researchers", "risk"} \ {old.phase} => new.round = 1]_vars
  BY StepTells DEF Follows
<1> QED
  BY <1>1, <1>2, <1>3, Inductive, MeterInductive, PTL DEF Spec, WireOrder
=============================================================================
