-------------------------- MODULE ProRunsLog_proofs --------------------------
(***************************************************************************)
(* Proofs about what ProRuns keeps and shows: the decision log, the        *)
(* checkpoints, what a run knows of its past, what the command line shows  *)
(* of it, for any histories, slots, limits, faults and days.  They rest on *)
(* the invariant of the runs (ProRuns_proofs) and on what the log's        *)
(* operations keep (MemoryLog_proofs).                                     *)
(***************************************************************************)
EXTENDS ProRuns_proofs, MemoryLog_proofs

(* A step of the graph -----------------------------------------------------*)
\* An analyst at work, and those after it, have not reported.
Unreported(g) ==
  /\ g.at.kind \in {"agent", "tools"} =>
       \A i \in g.at.analyst .. Len(Plan) : Plan[i] \notin g.reports
  /\ g.at.kind = "clear" => \A i \in (g.at.analyst + 1) .. Len(Plan) : Plan[i] \notin g.reports

\* A step leads to a node, leaves the past context alone and takes nothing back.
StepsOn(g, h) == h.at \in Nodes /\ h.past = g.past /\ Continues(g, h) /\ Unreported(h)

Starts(s, t) == Len(s) <= Len(t) /\ \A i \in 1 .. Len(s) : s[i] = t[i]

LEMMA PrefixStarts ==
  ASSUME NEW S, NEW s \in Seq(S), NEW t \in Seq(S)
  PROVE  IsPrefix(s, t) <=> Starts(s, t)
<1> DEFINE n == Len(s)
           a == SubSeq(s, 1, n)
           b == SubSeq(t, 1, n)
<1>1. n \in Nat /\ Len(t) \in Nat /\ 1 \in Int /\ n \in Int
  BY LenProperties
<1>2. a = s
  BY SubSeqFull
<1>3. ASSUME n <= Len(t)
      PROVE  b \in Seq(S) /\ Len(b) = n /\ \A i \in 1 .. n : b[i] = t[i]
  <2>1. \A i \in 1 .. n : t[i] \in S
    BY <1>1, <1>3, ElementOfSeq
  <2>2. /\ b \in Seq(S) /\ Len(b) = IF 1 <= n THEN n - 1 + 1 ELSE 0
        /\ \A i \in 1 .. n - 1 + 1 : b[i] = t[1 + i - 1]
    BY <1>1, <2>1, SubSeqProperties
  <2> HIDE DEF b
  <2>3. Len(b) = n /\ \A i \in 1 .. n : b[i] = t[i]
    BY <1>1, <2>2
  <2> QED
    BY <2>2, <2>3
<1>4. ASSUME n <= Len(t), \A i \in 1 .. n : s[i] = t[i] PROVE a = b
  BY <1>2, <1>3, <1>4, SeqEqual
<1>5. ASSUME n <= Len(t), a = b PROVE \A i \in 1 .. n : s[i] = t[i]
  BY <1>2, <1>3, <1>5
<1> QED
  BY <1>4, <1>5 DEF IsPrefix, Starts

LEMMA PrefixReflexive ==
  ASSUME NEW S, NEW s \in Seq(S) PROVE IsPrefix(s, s)
<1>1. Starts(s, s)
  BY LenProperties DEF Starts
<1> QED
  BY <1>1, PrefixStarts

LEMMA PrefixAppends ==
  ASSUME NEW S, NEW s \in Seq(S), NEW e \in S PROVE IsPrefix(s, Append(s, e))
<1>1. Append(s, e) \in Seq(S) /\ Starts(s, Append(s, e))
  BY LenProperties, AppendProperties DEF Starts
<1> QED
  BY <1>1, PrefixStarts

LEMMA PrefixTransitive ==
  ASSUME NEW S, NEW s \in Seq(S), NEW t \in Seq(S), NEW u \in Seq(S),
         IsPrefix(s, t), IsPrefix(t, u)
  PROVE  IsPrefix(s, u)
<1>1. Starts(s, t) /\ Starts(t, u)
  BY PrefixStarts
<1>2. Len(s) \in Nat /\ Len(t) \in Nat /\ Len(u) \in Nat
  BY LenProperties
<1>3. Starts(s, u)
  BY <1>1, <1>2 DEF Starts
<1> QED
  BY <1>3, PrefixStarts

\* The parts of a graph state that Continues reads.
Spoken(g) == /\ g.debate.turns \in Seq(Debaters) /\ g.risk.turns \in Seq(Riskers)

LEMMA StateSpoken == ASSUME NEW g, GraphInv(g) PROVE Spoken(g)
  BY DEF GraphInv, StatesWith, Spoken

LEMMA ContinuesReflexive == ASSUME NEW g, Spoken(g) PROVE Continues(g, g)
  BY PrefixReflexive DEF Continues, Spoken

LEMMA ContinuesTransitive ==
  ASSUME NEW g, NEW h, NEW k, Spoken(g), Spoken(h), Spoken(k),
         Continues(g, h), Continues(h, k)
  PROVE  Continues(g, k)
<1>1. /\ IsPrefix(g.debate.turns, k.debate.turns)
      /\ IsPrefix(g.risk.turns, k.risk.turns)
  BY PrefixTransitive DEF Continues, Spoken
<1> QED
  BY <1>1 DEF Continues

LEMMA NodeIsNode ==
  /\ \A kind \in {"agent", "tools", "clear"}, i \in 1 .. Len(Plan) :
       [kind |-> kind, analyst |-> i] \in Nodes
  /\ \A kind \in {"Bull", "Bear", "Aggressive", "Conservative", "Neutral",
                  "ResearchManager", "Trader", "PortfolioManager", "END"} :
       [kind |-> kind, analyst |-> 0] \in Nodes
<1>1. ASSUME NEW kind \in {"agent", "tools", "clear"}, NEW i \in 1 .. Len(Plan)
      PROVE  [kind |-> kind, analyst |-> i] \in Nodes
  <2>1. Node(kind, i) \in Nodes
    BY DEF Nodes
  <2> QED
    BY <2>1 DEF Node
<1>2. ASSUME NEW kind \in {"Bull", "Bear", "Aggressive", "Conservative", "Neutral",
                           "ResearchManager", "Trader", "PortfolioManager", "END"}
      PROVE  [kind |-> kind, analyst |-> 0] \in Nodes
  <2>1. kind \in Debaters \cup Riskers \cup
                   {"ResearchManager", "Trader", "PortfolioManager", "END"}
    BY DEF Debaters, Riskers
  <2>2. The(kind) \in Nodes
    BY <2>1 DEF Nodes
  <2> QED
    BY <2>2 DEF The, Node
<1> QED
  BY <1>1, <1>2

LEMMA AnalystStepsOn ==
  ASSUME NEW g, GraphInv(g), Unreported(g), g.at.kind = "agent", NEW h \in Analyst(g)
  PROVE  StepsOn(g, h)
<1> DEFINE who == Plan[g.at.analyst]
           n == g.at.analyst
<1>1. Spoken(g) /\ n \in 1 .. Len(Plan)
  BY StateSpoken DEF GraphInv, Stage, AtAnalysts
<1>2. PICK calls \in BOOLEAN :
        /\ h.at = Node(IF calls THEN "tools" ELSE "clear", n)
        /\ h.reports = IF calls THEN g.reports \ {who} ELSE g.reports \cup {who}
        /\ h.debate = g.debate /\ h.risk = g.risk /\ h.plan = g.plan
        /\ h.proposal = g.proposal /\ h.decision = g.decision /\ h.past = g.past
  BY AnalystAnswers
<1>3. who \notin g.reports /\ \A i \in n .. Len(Plan) : Plan[i] \notin g.reports
  BY <1>1, PlanFacts DEF Unreported
<1>4. Continues(g, h)
  <2>1. g.reports \subseteq h.reports
    BY <1>2, <1>3
  <2> QED
    BY <1>1, <1>2, <2>1, PrefixReflexive DEF Continues, Spoken
<1>5. h.at \in Nodes /\ h.at.analyst = n /\ h.at.kind = IF calls THEN "tools" ELSE "clear"
  BY <1>1, <1>2, NodeIsNode DEF Node
<1>6. Unreported(h)
  <2>1. \A i \in (n + 1) .. Len(Plan) : Plan[i] # who /\ Plan[i] \notin g.reports
    BY <1>1, <1>3, PlanFacts, PlanAssumption
  <2>2. CASE calls
    BY <1>1, <1>2, <1>3, <1>5, <2>2 DEF Unreported
  <2>3. CASE ~calls
    BY <1>1, <1>2, <1>5, <2>1, <2>3 DEF Unreported
  <2> QED
    BY <2>2, <2>3
<1> QED
  BY <1>2, <1>4, <1>5, <1>6 DEF StepsOn

LEMMA ToolsStepsOn ==
  ASSUME NEW g, GraphInv(g), Unreported(g), g.at.kind = "tools", NEW h \in Tools(g)
  PROVE  StepsOn(g, h)
<1>1. g \in StatesWith(g.past) /\ Spoken(g) /\ g.at.analyst \in 1 .. Len(Plan)
  BY StateSpoken DEF GraphInv, Stage, AtAnalysts
<1>2. h = [g EXCEPT !.messages = [by |-> g.messages.by \cup {"tool"}, asks |-> FALSE],
                    !.at = [kind |-> "agent", analyst |-> g.at.analyst]]
  BY DEF Tools, Said, Conversation, Node
<1>3. /\ h.at = [kind |-> "agent", analyst |-> g.at.analyst] /\ h.reports = g.reports
      /\ h.debate = g.debate /\ h.risk = g.risk /\ h.plan = g.plan
      /\ h.proposal = g.proposal /\ h.decision = g.decision /\ h.past = g.past
  BY <1>1, <1>2 DEF StatesWith
<1>4. Continues(g, h)
  BY <1>1, <1>3, PrefixReflexive DEF Continues, Spoken
<1>5. h.at \in Nodes /\ h.at.kind = "agent" /\ h.at.analyst = g.at.analyst
  BY <1>1, <1>3, NodeIsNode
<1> QED
  BY <1>3, <1>4, <1>5 DEF StepsOn, Unreported

LEMMA MsgClearStepsOn ==
  ASSUME NEW g, GraphInv(g), Unreported(g), g.at.kind = "clear", NEW h \in MsgClear(g)
  PROVE  StepsOn(g, h)
<1> DEFINE n == g.at.analyst
           at == IF n < Len(Plan) THEN [kind |-> "agent", analyst |-> n + 1]
                                  ELSE [kind |-> "Bull", analyst |-> 0]
<1>1. g \in StatesWith(g.past) /\ Spoken(g) /\ n \in 1 .. Len(Plan)
  BY StateSpoken DEF GraphInv, Stage, AtAnalysts
<1>2. h = [g EXCEPT !.messages = [by |-> {"human"}, asks |-> FALSE], !.at = at]
  BY DEF MsgClear, Conversation, Node, The
<1> HIDE DEF at
<1>3. /\ h.at = at /\ h.reports = g.reports
      /\ h.debate = g.debate /\ h.risk = g.risk /\ h.plan = g.plan
      /\ h.proposal = g.proposal /\ h.decision = g.decision /\ h.past = g.past
  BY <1>1, <1>2 DEF StatesWith
<1>4. Continues(g, h)
  BY <1>1, <1>3, PrefixReflexive DEF Continues, Spoken
<1>5. \A i \in (n + 1) .. Len(Plan) : Plan[i] \notin g.reports
  BY DEF Unreported
<1>6. CASE n < Len(Plan)
  <2>1. at = [kind |-> "agent", analyst |-> n + 1] /\ n + 1 \in 1 .. Len(Plan)
    BY <1>1, <1>6, PlanFacts DEF at
  <2>2. at \in Nodes
    BY <2>1, NodeIsNode
  <2>3. Unreported(h)
    BY <1>3, <1>5, <2>1 DEF Unreported
  <2> QED
    BY <1>3, <1>4, <2>2, <2>3 DEF StepsOn
<1>7. CASE ~(n < Len(Plan))
  <2>1. at = [kind |-> "Bull", analyst |-> 0]
    BY <1>7 DEF at
  <2>2. at \in Nodes
    BY <2>1, NodeIsNode
  <2>3. Unreported(h)
    BY <1>3, <2>1 DEF Unreported
  <2> QED
    BY <1>3, <1>4, <2>2, <2>3 DEF StepsOn
<1> QED
  BY <1>6, <1>7

\* Nobody but an analyst's node and the tools leads to an analyst.
Committees == {"Bull", "Bear", "Aggressive", "Conservative", "Neutral",
               "ResearchManager", "Trader", "PortfolioManager", "END"}

LEMMA CommitteeStepsOn ==
  ASSUME NEW g, NEW h, NEW next \in Committees, h.at = [kind |-> next, analyst |-> 0],
         h.past = g.past, Continues(g, h)
  PROVE  StepsOn(g, h)
<1>1. h.at \in Nodes
  BY NodeIsNode DEF Committees
<1>2. h.at.kind \notin {"agent", "tools", "clear"}
  BY DEF Committees
<1> QED
  BY <1>1, <1>2 DEF StepsOn, Unreported

LEMMA DebaterStepsOn ==
  ASSUME NEW g, GraphInv(g), NEW who \in {"Bull", "Bear"},
         NEW h, h = AfterDebater([g EXCEPT !.debate = Speaks(@, who)])
  PROVE  StepsOn(g, h)
<1>1. g \in StatesWith(g.past) /\ Spoken(g)
  BY StateSpoken DEF GraphInv
<1> DEFINE d == [turns |-> Append(g.debate.turns, who), response |-> who,
                 count |-> g.debate.count + 1]
           next == CASE d.count >= 2 * DebateRounds -> "ResearchManager"
                     [] d.count < 2 * DebateRounds /\ d.response = "Bull" -> "Bear"
                     [] OTHER -> "Bull"
<1>2. h = [g EXCEPT !.debate = d, !.at = [kind |-> next, analyst |-> 0]]
  BY <1>1 DEF AfterDebater, Speaks, The, Node, StatesWith
<1>3. next \in Committees
  BY DEF Committees
<1>a. d.turns = Append(g.debate.turns, who)
  OBVIOUS
<1> HIDE DEF next, d
<1>4. /\ h.at = [kind |-> next, analyst |-> 0] /\ h.debate.turns = Append(g.debate.turns, who)
      /\ h.reports = g.reports /\ h.risk = g.risk /\ h.plan = g.plan
      /\ h.proposal = g.proposal /\ h.decision = g.decision /\ h.past = g.past
  BY <1>1, <1>2, <1>a DEF StatesWith
<1>5. Continues(g, h)
  <2>1. IsPrefix(g.debate.turns, h.debate.turns)
    BY <1>1, <1>4, PrefixAppends DEF Spoken, Debaters
  <2>2. IsPrefix(g.risk.turns, h.risk.turns)
    BY <1>1, <1>4, PrefixReflexive DEF Spoken
  <2> QED
    BY <1>4, <2>1, <2>2 DEF Continues
<1> QED
  BY <1>3, <1>4, <1>5, CommitteeStepsOn

LEMMA RiskerStepsOn ==
  ASSUME NEW g, GraphInv(g), NEW who \in {"Aggressive", "Conservative", "Neutral"},
         NEW h, h = AfterRisker([g EXCEPT !.risk = Argues(@, who)])
  PROVE  StepsOn(g, h)
<1>1. g \in StatesWith(g.past) /\ Spoken(g)
  BY StateSpoken DEF GraphInv
<1> DEFINE r == [turns |-> Append(g.risk.turns, who), latest |-> who,
                 count |-> g.risk.count + 1, spoken |-> g.risk.spoken \cup {who}]
           next == CASE r.count >= 3 * RiskRounds -> "PortfolioManager"
                     [] r.count < 3 * RiskRounds /\ r.latest = "Aggressive" -> "Conservative"
                     [] r.count < 3 * RiskRounds /\ r.latest = "Conservative" -> "Neutral"
                     [] OTHER -> "Aggressive"
<1>2. h = [g EXCEPT !.risk = r, !.at = [kind |-> next, analyst |-> 0]]
  BY <1>1 DEF AfterRisker, Argues, The, Node, StatesWith
<1>3. next \in Committees
  BY DEF Committees
<1>a. r.turns = Append(g.risk.turns, who)
  OBVIOUS
<1> HIDE DEF next, r
<1>4. /\ h.at = [kind |-> next, analyst |-> 0] /\ h.risk.turns = Append(g.risk.turns, who)
      /\ h.reports = g.reports /\ h.debate = g.debate /\ h.plan = g.plan
      /\ h.proposal = g.proposal /\ h.decision = g.decision /\ h.past = g.past
  BY <1>1, <1>2, <1>a DEF StatesWith
<1>5. Continues(g, h)
  <2>1. IsPrefix(g.risk.turns, h.risk.turns)
    BY <1>1, <1>4, PrefixAppends DEF Spoken, Riskers
  <2>2. IsPrefix(g.debate.turns, h.debate.turns)
    BY <1>1, <1>4, PrefixReflexive DEF Spoken
  <2> QED
    BY <1>4, <2>1, <2>2 DEF Continues
<1> QED
  BY <1>3, <1>4, <1>5, CommitteeStepsOn

LEMMA ManagersStepOn ==
  ASSUME NEW g, GraphInv(g), NEW h,
         \/ g.at.kind = "ResearchManager" /\ h \in ResearchManager(g)
         \/ g.at.kind = "Trader" /\ h \in Trader(g)
         \/ g.at.kind = "PortfolioManager" /\ h \in PortfolioManager(g)
  PROVE  StepsOn(g, h)
<1>1. g \in StatesWith(g.past) /\ Spoken(g) /\ (g.at.kind # "END" => g.decision = Undecided)
  BY StateSpoken DEF GraphInv, BeforeEnd
<1>2. CASE g.at.kind = "ResearchManager" /\ h \in ResearchManager(g)
  <2>1. h = [g EXCEPT !.debate.response = "Manager", !.plan = TRUE,
                      !.at = [kind |-> "Trader", analyst |-> 0]]
    BY <1>2 DEF ResearchManager, The, Node
  <2>2. /\ h.at = [kind |-> "Trader", analyst |-> 0] /\ h.debate.turns = g.debate.turns
        /\ h.reports = g.reports /\ h.risk = g.risk /\ h.plan
        /\ h.proposal = g.proposal /\ h.decision = g.decision /\ h.past = g.past
    BY <1>1, <2>1 DEF StatesWith
  <2>3. Continues(g, h)
    BY <1>1, <2>2, PrefixReflexive DEF Continues, Spoken
  <2> QED
    BY <2>2, <2>3, CommitteeStepsOn DEF Committees
<1>3. CASE g.at.kind = "Trader" /\ h \in Trader(g)
  <2>1. h = [g EXCEPT !.messages = [by |-> g.messages.by \cup {"Trader"}, asks |-> FALSE],
                      !.proposal = TRUE, !.at = [kind |-> "Aggressive", analyst |-> 0]]
    BY <1>3 DEF Trader, Said, Conversation, The, Node
  <2>2. /\ h.at = [kind |-> "Aggressive", analyst |-> 0] /\ h.debate = g.debate
        /\ h.reports = g.reports /\ h.risk = g.risk /\ h.plan = g.plan
        /\ h.proposal /\ h.decision = g.decision /\ h.past = g.past
    BY <1>1, <2>1 DEF StatesWith
  <2>3. Continues(g, h)
    BY <1>1, <2>2, PrefixReflexive DEF Continues, Spoken
  <2> QED
    BY <2>2, <2>3, CommitteeStepsOn DEF Committees
<1>4. CASE g.at.kind = "PortfolioManager" /\ h \in PortfolioManager(g)
  <2>1. PICK d \in Decisions :
          h = [g EXCEPT !.risk.latest = "Judge", !.decision = d,
                        !.at = [kind |-> "END", analyst |-> 0]]
    BY <1>4 DEF PortfolioManager, The, Node
  <2>2. /\ h.at = [kind |-> "END", analyst |-> 0] /\ h.risk.turns = g.risk.turns
        /\ h.reports = g.reports /\ h.debate = g.debate /\ h.plan = g.plan
        /\ h.proposal = g.proposal /\ h.past = g.past /\ g.decision = Undecided
    BY <1>1, <1>4, <2>1 DEF StatesWith
  <2>3. Continues(g, h)
    BY <1>1, <2>2, PrefixReflexive DEF Continues, Spoken
  <2> QED
    BY <2>2, <2>3, CommitteeStepsOn DEF Committees
<1> QED
  BY <1>2, <1>3, <1>4

\* Whatever the models answer, a step of the graph takes nothing back.
LEMMA SuccessorsStepOn ==
  ASSUME NEW g, GraphInv(g), Unreported(g), NEW h \in Successors(g)
  PROVE  StepsOn(g, h)
<1>1. g.at.kind \in Kinds
  BY DEF GraphInv, StatesWith
<1>2. CASE g.at.kind = "agent"
  BY <1>2, AnalystStepsOn DEF Successors
<1>3. CASE g.at.kind = "tools"
  BY <1>3, ToolsStepsOn DEF Successors
<1>4. CASE g.at.kind = "clear"
  BY <1>4, MsgClearStepsOn DEF Successors
<1>5. CASE g.at.kind \in {"Bull", "Bear"}
  BY <1>5, DebaterStepsOn DEF Successors, BullResearcher, BearResearcher
<1>6. CASE g.at.kind \in {"ResearchManager", "Trader", "PortfolioManager"}
  BY <1>6, ManagersStepOn DEF Successors
<1>7. CASE g.at.kind \in {"Aggressive", "Conservative", "Neutral"}
  BY <1>7, RiskerStepsOn
     DEF Successors, AggressiveDebator, ConservativeDebator, NeutralDebator
<1>8. CASE g.at.kind = "END"
  BY <1>8 DEF Successors
<1> QED
  BY <1>1, <1>2, <1>3, <1>4, <1>5, <1>6, <1>7, <1>8 DEF Kinds

-------------------------------------------------------------------------------
(* The log and the days ----------------------------------------------------*)
Placed(g) == g.at \in Nodes /\ Unreported(g) /\ g.past \subseteq Entries
ByDate(g, job) == \A e \in g.past : e.resolved <= job.date

\* What a run has in hand agrees with the log it came from and with the day.
RunInOrder(r, day) ==
  /\ r.phase \in {"reflecting", "rewriting", "ready", "store", "clear", "graph"} =>
       r.job.date <= day
  /\ r.phase = "reflecting" =>
       \A job \in r.jobs : OutcomeDay(job) \in Nat /\ OutcomeDay(job) <= day
  /\ r.phase = "rewriting" => r.text \in Logs /\ SinglePending(r.text) /\ KnownBy(r.text, day)
  /\ r.phase = "graph" => Placed(r.graph)
  /\ r.phase = "store" => ParseRating(r.decision) \in Ratings

LogInOrder == log \in Logs /\ SinglePending(log) /\ KnownBy(log, today)
RunsInOrder == \A s \in Slots : RunInOrder(run[s], today)
LibByDate == \A s \in Slots : Kind[s] = "lib" /\ InGraph(s) => ByDate(run[s].graph, run[s].job)
SavedInOrder == \A j \in Jobs : ckpt[j] # Nothing => Placed(ckpt[j]) /\ ByDate(ckpt[j], j)
Counters == today \in FirstDay .. MaxDay /\ started \in 0 .. MaxRuns /\ filed \subseteq Jobs

LogInv == Counters /\ LogInOrder /\ RunsInOrder /\ LibByDate /\ SavedInOrder

LEMMA DaysAreNumbers ==
  ASSUME Counters PROVE today \in Nat /\ today <= MaxDay
  BY CalendarAssumption DEF Counters

LEMMA JobsAreDated ==
  ASSUME NEW job \in Jobs PROVE job.date \in Nat /\ job.ticker \in STRING
  BY CalendarAssumption, NamesAssumption DEF Jobs

\* What is decided has a rating, or is given one.
LEMMA DecisionsRated ==
  ASSUME NEW d \in Decisions \cup {Undecided} PROVE ParseRating(d) \in Ratings
<1>1. CASE d \in Decisions
  BY <1>1, NamesAssumption DEF ParseRating, ExtractRating, Ratings
<1>2. CASE d = Undecided
  BY <1>2 DEF Undecided, None, NoRating, ParseRating, ExtractRating, Ratings
<1> QED
  BY <1>1, <1>2

LEMMA KnownLater ==
  ASSUME NEW old \in Logs, NEW day \in Nat, NEW later \in Nat, day <= later, KnownBy(old, day)
  PROVE  KnownBy(old, later)
<1>1. \A i \in DOMAIN old : old[i] \in Entries
  BY LenProperties, ElementOfSeq DEF Logs
<1>2. \A i \in DOMAIN old : old[i].resolved \in Nat
  BY <1>1 DEF Entries
<1> QED
  BY <1>2 DEF KnownBy

LEMMA InOrderLater ==
  ASSUME NEW r, Wellformed(r), NEW day \in Nat, NEW later \in Nat, day <= later,
         RunInOrder(r, day)
  PROVE  RunInOrder(r, later)
<1>1. r.phase \in {"reflecting", "rewriting", "ready", "store", "clear", "graph"} => r.job.date \in Nat
  <2>1. r.phase \in {"reflecting", "rewriting", "ready", "store", "clear", "graph"} => r.job \in Jobs
    BY DEF Wellformed, InGraphRun, GraphRuns
  <2> QED
    BY <2>1, JobsAreDated
<1>2. r.phase = "rewriting" => KnownBy(r.text, later)
  BY KnownLater DEF RunInOrder
<1> QED
  BY <1>1, <1>2 DEF RunInOrder

\* One slot's run changes.
LEMMA OneRunInOrder ==
  ASSUME IInv, RunsInOrder, LibByDate, UNCHANGED today, NEW s \in Slots, NEW r,
         run' = [run EXCEPT ![s] = r], RunInOrder(r, today),
         Kind[s] = "lib" /\ r.phase = "graph" => ByDate(r.graph, r.job)
  PROVE  RunsInOrder' /\ LibByDate'
<1>1. run' = [t \in Slots |-> IF t = s THEN r ELSE run[t]]
  BY DEF IInv
<1>2. RunsInOrder'
  BY <1>1 DEF RunsInOrder
<1>3. LibByDate'
  BY <1>1 DEF LibByDate, InGraph
<1> QED
  BY <1>2, <1>3

LEMMA OneSavedInOrder ==
  ASSUME IInv, SavedInOrder, NEW j \in Jobs, NEW c, ckpt' = [ckpt EXCEPT ![j] = c],
         c # Nothing => Placed(c) /\ ByDate(c, j)
  PROVE  SavedInOrder'
<1>1. ckpt' = [k \in Jobs |-> IF k = j THEN c ELSE ckpt[k]]
  BY DEF IInv
<1> QED
  BY <1>1 DEF SavedInOrder

LEMMA NoRunInOrder == \A day : RunInOrder(NoRun, day)
  BY DEF RunInOrder, NoRun

LEMMA GraphingInOrder ==
  ASSUME NEW job, NEW g, NEW day, Placed(g), job.date <= day
  PROVE  /\ RunInOrder(Graphing(job, g), day)
         /\ Graphing(job, g).phase = "graph" /\ Graphing(job, g).graph = g
         /\ Graphing(job, g).job = job
  BY DEF RunInOrder, Graphing

LEMMA OpeningPlaced ==
  ASSUME NEW past, past \subseteq Entries
  PROVE  Placed(Opening(past)) /\ Opening(past).past = past
<1> DEFINE g == Opening(past)
<1>1. g.at = [kind |-> "agent", analyst |-> 1] /\ g.reports = {} /\ g.past = past
  BY DEF Opening, Node
<1> HIDE DEF g
<1>2. g.at \in Nodes
  BY <1>1, PlanFacts, NodeIsNode
<1>3. Unreported(g)
  BY <1>1 DEF Unreported
<1> QED
  BY <1>1, <1>2, <1>3 DEF Placed, g

LEMMA StepPlaced ==
  ASSUME NEW g, GraphInv(g), Placed(g), NEW h \in Successors(g)
  PROVE  Placed(h) /\ h.past = g.past /\ Continues(g, h)
  BY SuccessorsStepOn DEF Placed, StepsOn

\* A lesson of a library run was known on its trade date.
LEMMA LessonsByDate ==
  ASSUME LogInOrder, NEW job \in Jobs, job.date <= today, today \in Nat,
         NEW e \in PastContext(log, job.ticker, MemoryAsOf(job.date))
  PROVE  e.resolved <= job.date
<1>1. job.date \in Nat
  BY JobsAreDated
<1>2. CASE job.date < today
  BY <1>2, ContextFacts DEF LogInOrder, MemoryAsOf
<1>3. CASE job.date = today
  BY <1>3, ContextFacts DEF LogInOrder, KnownBy
<1> QED
  BY <1>1, <1>2, <1>3

LEMMA LogsSame ==
  ASSUME Counters, LogInOrder, UNCHANGED <<today, log>>, started' \in 0 .. MaxRuns, filed' \subseteq Jobs
  PROVE  Counters' /\ LogInOrder'
  BY DEF Counters, LogInOrder

\* A run that starts in the graph.
LEMMA StartsKeepOrder ==
  ASSUME IInv, LogInv, NEW s \in Slots, NEW job \in Jobs,
         Propagate(s, job) \/ FullDebate(s, job) \/ RunAnalysis(s, job)
  PROVE  LogInv'
<1>0. /\ UNCHANGED <<today, log, ckpt, filed>> /\ job.date <= today /\ started' = started + 1
      /\ started < MaxRuns
  BY DEF Propagate, FullDebate, RunAnalysis
<1>1. Counters' /\ LogInOrder'
  <2>1. started' \in 0 .. MaxRuns
    BY <1>0, RunsAssumption DEF LogInv, Counters
  <2>2. filed' \subseteq Jobs
    BY <1>0 DEF LogInv, Counters
  <2> QED
    BY <1>0, <2>1, <2>2, LogsSame DEF LogInv
<1>2. SavedInOrder'
  BY <1>0 DEF LogInv, SavedInOrder
<1>3. CASE Propagate(s, job)
  <2>1. PICK known \in SUBSET {e \in PendingOf(log, job.ticker) : Settles(e, today)} :
          run' = [run EXCEPT ![s] =
                    [phase |-> IF known = {} THEN "ready" ELSE "reflecting", job |-> job,
                     jobs |-> {[ticker |-> e.ticker, date |-> e.date] : e \in known}]]
    BY <1>3 DEF Propagate
  <2> DEFINE jobs == {[ticker |-> e.ticker, date |-> e.date] : e \in known}
             r == [phase |-> IF known = {} THEN "ready" ELSE "reflecting", job |-> job, jobs |-> jobs]
  <2>2. \A k \in jobs : OutcomeDay(k) \in Nat /\ OutcomeDay(k) <= today
    <3>1. \A i \in DOMAIN log : log[i] \in Entries
      BY LenProperties, ElementOfSeq DEF LogInv, LogInOrder, Logs
    <3>2. \A e \in known : e.date \in Nat
      BY <3>1 DEF PendingOf, Entries
    <3>3. \A e \in known : OutcomeDay(e) \in Nat
      BY <3>2, LessonsAssumption DEF OutcomeDay
    <3> QED
      BY <3>3 DEF Settles, OutcomeDay
  <2>3. r.phase \in {"ready", "reflecting"} /\ r.job = job /\ r.jobs = jobs
    OBVIOUS
  <2>4. run' = [run EXCEPT ![s] = r]
    BY <2>1
  <2> HIDE DEF r, jobs
  <2>5. RunInOrder(r, today)
    BY <1>0, <2>2, <2>3 DEF RunInOrder
  <2>6. RunsInOrder' /\ LibByDate'
    BY <1>0, <2>3, <2>4, <2>5, OneRunInOrder DEF LogInv
  <2> QED
    BY <1>1, <1>2, <2>6 DEF LogInv
<1>4. CASE FullDebate(s, job) \/ RunAnalysis(s, job)
  <2>1. PICK past : past \subseteq Entries /\ run' = [run EXCEPT ![s] = Graphing(job, Opening(past))]
    <3>1. PastContext(log, job.ticker, {}) \subseteq Entries
      BY ContextFacts DEF LogInv, LogInOrder
    <3> QED
      BY <1>4, <3>1 DEF FullDebate, RunAnalysis
  <2>2. RunInOrder(Graphing(job, Opening(past)), today)
    BY <1>0, <2>1, OpeningPlaced, GraphingInOrder
  <2>3. Kind[s] # "lib"
    BY <1>4 DEF FullDebate, RunAnalysis
  <2>4. RunsInOrder' /\ LibByDate'
    BY <1>0, <2>1, <2>2, <2>3, OneRunInOrder DEF LogInv
  <2> QED
    BY <1>1, <1>2, <2>4 DEF LogInv
<1> QED
  BY <1>3, <1>4

\* A graph run of the library goes on, fails or ends.
LEMMA InGraphFacts ==
  ASSUME IInv, NEW s \in Slots, InGraph(s)
  PROVE  /\ InGraphRun(run[s]) /\ run[s].job \in Jobs /\ run[s].graph # Nothing
         /\ GraphInv(run[s].graph)
<1>1. InGraphRun(run[s])
  BY DEF IInv, InGraph, Wellformed
<1>2. run[s].job \in Jobs /\ GraphInv(run[s].graph)
  BY <1>1 DEF InGraphRun, GraphRuns
<1>3. run[s].graph.at.kind \in Kinds /\ Nothing.at.kind = "none"
  BY <1>2 DEF GraphInv, StatesWith, Nothing, The, Node
<1>4. run[s].graph # Nothing
  BY <1>3 DEF Kinds
<1> QED
  BY <1>1, <1>2, <1>4

LEMMA LibKeepsOrder == ASSUME IInv, LogInv, NEW s \in Slots, LibNext(s) PROVE LogInv'
<1>0. /\ Counters /\ LogInOrder /\ RunsInOrder /\ LibByDate /\ SavedInOrder
      /\ RunInOrder(run[s], today) /\ Wellformed(run[s]) /\ today \in Nat
  BY DaysAreNumbers DEF LogInv, RunsInOrder, IInv
<1>1. ASSUME NEW job \in Jobs, Propagate(s, job) PROVE LogInv'
  BY <1>1, StartsKeepOrder
\* A run that changes its slot and nothing of the log.
<1>r. ASSUME UNCHANGED <<today, log, filed, started>>, SavedInOrder',
             NEW r, run' = [run EXCEPT ![s] = r], RunInOrder(r, today), r.phase # "graph"
      PROVE  LogInv'
  <2>1. Counters' /\ LogInOrder'
    BY <1>0, <1>r DEF Counters, LogInOrder
  <2>2. RunsInOrder' /\ LibByDate'
    BY <1>0, <1>r, OneRunInOrder
  <2> QED
    BY <1>r, <2>1, <2>2 DEF LogInv
<1>s. UNCHANGED ckpt => SavedInOrder'
  BY <1>0 DEF SavedInOrder
<1>2. CASE ReadLog(s)
  <2> DEFINE text == Updated(log, run[s].jobs)
             r == [phase |-> "rewriting", job |-> run[s].job, text |-> text]
  <2>1. text \in Logs /\ SinglePending(text)
    BY <1>0, UpdatedPicks, UpdatedSingle DEF LogInOrder
  <2>2. \A job \in run[s].jobs : OutcomeDay(job) <= today
    BY <1>0, <1>2 DEF RunInOrder, ReadLog
  <2>3. KnownBy(text, today)
    BY <1>0, <2>2, UpdatedKnown DEF LogInOrder
  <2>4. run[s].job.date <= today
    BY <1>0, <1>2 DEF RunInOrder, ReadLog
  <2>5. run' = [run EXCEPT ![s] = r] /\ UNCHANGED <<today, log, ckpt, filed, started>>
    BY <1>2 DEF ReadLog
  <2> HIDE DEF text
  <2>6. RunInOrder(r, today) /\ r.phase # "graph"
    BY <2>1, <2>3, <2>4 DEF RunInOrder
  <2> QED
    BY <1>r, <1>s, <2>5, <2>6
<1>3. CASE ReplaceLog(s)
  <2> DEFINE r == [phase |-> "ready", job |-> run[s].job, jobs |-> {}]
  <2>1. log' = run[s].text /\ run' = [run EXCEPT ![s] = r] /\ UNCHANGED <<today, ckpt, filed, started>>
    BY <1>3 DEF ReplaceLog
  <2>2. run[s].text \in Logs /\ SinglePending(run[s].text) /\ KnownBy(run[s].text, today)
    BY <1>0, <1>3 DEF RunInOrder, ReplaceLog
  <2>3. RunInOrder(r, today) /\ r.phase # "graph"
    BY <1>0, <1>3 DEF RunInOrder, ReplaceLog
  <2>4. Counters' /\ LogInOrder'
    BY <1>0, <2>1, <2>2 DEF Counters, LogInOrder
  <2>5. RunsInOrder' /\ LibByDate'
    BY <1>0, <2>1, <2>3, OneRunInOrder
  <2> QED
    BY <1>s, <2>1, <2>4, <2>5 DEF LogInv
<1>4. CASE BeginGraph(s)
  <2> DEFINE job == run[s].job
             past == PastContext(log, job.ticker, MemoryAsOf(job.date))
             g == CheckpointInput(job, Opening(past))
  <2>1. /\ run' = [run EXCEPT ![s] = Graphing(job, g)] /\ ckpt' = [ckpt EXCEPT ![job] = g]
        /\ UNCHANGED <<today, log, filed, started>> /\ run[s].phase = "ready"
    BY <1>4 DEF BeginGraph
  <2>2. job \in Jobs /\ job.date <= today
    BY <1>0, <2>1 DEF RunInOrder, Wellformed
  <2>3. past \subseteq Entries /\ \A e \in past : e.resolved <= job.date
    <3>1. past \subseteq Entries
      BY <1>0, ContextFacts DEF LogInOrder
    <3> QED
      BY <1>0, <2>2, <3>1, LessonsByDate
  <2> HIDE DEF past
  <2>4. Placed(Opening(past)) /\ ByDate(Opening(past), job)
    BY <2>3, OpeningPlaced DEF ByDate
  <2>5. Placed(g) /\ ByDate(g, job)
    BY <1>0, <2>2, <2>4 DEF CheckpointInput, SavedInOrder
  <2> HIDE DEF g, job
  <2>6. /\ RunInOrder(Graphing(job, g), today)
        /\ Graphing(job, g).graph = g /\ Graphing(job, g).job = job
    BY <2>2, <2>5, GraphingInOrder
  <2>7. RunsInOrder' /\ LibByDate'
    BY <1>0, <2>1, <2>5, <2>6, OneRunInOrder
  <2>8. SavedInOrder'
    BY <1>0, <2>1, <2>2, <2>5, OneSavedInOrder
  <2>9. Counters' /\ LogInOrder'
    BY <1>0, <2>1 DEF Counters, LogInOrder
  <2> QED
    BY <2>7, <2>8, <2>9 DEF LogInv
<1>5. CASE LibStep(s)
  <2>0. /\ InGraph(s) /\ Kind[s] = "lib" /\ UNCHANGED <<today, log, filed, started>>
        /\ Placed(run[s].graph) /\ run[s].job.date <= today
        /\ ByDate(run[s].graph, run[s].job)
    BY <1>0, <1>5 DEF LibStep, InGraph, RunInOrder, LibByDate
  <2>1. InGraphRun(run[s]) /\ run[s].job \in Jobs /\ GraphInv(run[s].graph)
    BY <2>0, InGraphFacts
  <2>2. PICK h \in Successors(run[s].graph), durable \in {run[s].graph} \cup Successors(run[s].graph) :
          /\ run' = [run EXCEPT ![s].graph = h, ![s].steps = @ + 1]
          /\ ckpt' = [ckpt EXCEPT ![run[s].job] = durable]
    BY <1>5 DEF LibStep
  <2> DEFINE r == [run[s] EXCEPT !.graph = h, !.steps = @ + 1]
  <2>3. \A k \in {run[s].graph} \cup Successors(run[s].graph) : Placed(k) /\ ByDate(k, run[s].job)
    BY <2>0, <2>1, StepPlaced DEF ByDate
  <2>4. r.phase = "graph" /\ r.graph = h /\ r.job = run[s].job
    BY <2>1 DEF InGraphRun, GraphRuns
  <2>5. run' = [run EXCEPT ![s] = r]
    BY <2>2 DEF IInv
  <2> HIDE DEF r
  <2>6. RunInOrder(r, today) /\ ByDate(r.graph, r.job)
    BY <2>0, <2>2, <2>3, <2>4 DEF RunInOrder
  <2>7. RunsInOrder' /\ LibByDate'
    BY <1>0, <2>0, <2>5, <2>6, OneRunInOrder
  <2>8. SavedInOrder'
    BY <1>0, <2>1, <2>2, <2>3, OneSavedInOrder
  <2>9. Counters' /\ LogInOrder'
    BY <1>0, <2>0 DEF Counters, LogInOrder
  <2> QED
    BY <2>7, <2>8, <2>9 DEF LogInv
\* The saver is closed on the graph as it stands.
<1>c. ASSUME Kind[s] = "lib", InGraph(s), EndCheckpoint(s) PROVE SavedInOrder'
  <2>1. Placed(run[s].graph) /\ ByDate(run[s].graph, run[s].job) /\ run[s].job \in Jobs
    BY <1>0, <1>c, InGraphFacts DEF InGraph, RunInOrder, LibByDate
  <2> QED
    BY <1>0, <1>c, <2>1, OneSavedInOrder DEF EndCheckpoint
<1>6. CASE LibFails(s)
  BY <1>6, <1>c, <1>r, NoRunInOrder DEF LibFails, NoRun
<1>7. CASE LogState(s)
  <2> DEFINE r == [phase |-> "store", job |-> run[s].job, decision |-> run[s].graph.decision]
  <2>0. /\ InGraph(s) /\ Kind[s] = "lib" /\ EndCheckpoint(s) /\ UNCHANGED <<today, log, started>>
        /\ filed' = filed \cup {run[s].job} /\ run' = [run EXCEPT ![s] = r]
    BY <1>7 DEF LogState
  <2>1. /\ run[s].job \in Jobs /\ run[s].job.date <= today
        /\ run[s].graph.decision \in Decisions \cup {Undecided}
    BY <1>0, <2>0, InGraphFacts DEF InGraph, RunInOrder, GraphInv, StatesWith
  <2>2. RunInOrder(r, today) /\ r.phase # "graph"
    BY <2>1, DecisionsRated DEF RunInOrder
  <2>3. SavedInOrder'
    BY <1>c, <2>0
  <2>4. RunsInOrder' /\ LibByDate'
    BY <1>0, <2>0, <2>2, OneRunInOrder
  <2>5. Counters' /\ LogInOrder'
    BY <1>0, <2>0, <2>1 DEF Counters, LogInOrder
  <2> QED
    BY <2>3, <2>4, <2>5 DEF LogInv
<1>8. CASE StoreDecision(s)
  <2> DEFINE r == [phase |-> "clear", job |-> run[s].job]
  <2>0. /\ run[s].phase = "store" /\ log' = Stored(log, run[s].job, run[s].decision)
        /\ run' = [run EXCEPT ![s] = r] /\ UNCHANGED <<today, ckpt, filed, started>>
    BY <1>8 DEF StoreDecision
  <2>1. /\ run[s].job \in Jobs /\ run[s].job.date <= today
        /\ ParseRating(run[s].decision) \in Ratings
    BY <1>0, <2>0 DEF RunInOrder, Wellformed
  <2>2. LogInOrder'
    <3>1. run[s].job.date \in Nat /\ run[s].job.ticker \in STRING
      BY <2>1, JobsAreDated
    <3> QED
      BY <1>0, <2>0, <2>1, <3>1, StoredFacts DEF LogInOrder, KnownBy
  <2>3. RunInOrder(r, today) /\ r.phase # "graph"
    BY <2>1 DEF RunInOrder
  <2>4. RunsInOrder' /\ LibByDate'
    BY <1>0, <2>0, <2>3, OneRunInOrder
  <2>5. Counters'
    BY <1>0, <2>0 DEF Counters
  <2> QED
    BY <1>s, <2>0, <2>2, <2>4, <2>5 DEF LogInv
<1>9. CASE ClearCheckpoint(s)
  <2>1. run[s].job \in Jobs
    BY <1>0, <1>9 DEF ClearCheckpoint, Wellformed
  <2>2. SavedInOrder'
    BY <1>0, <1>9, <2>1, OneSavedInOrder DEF ClearCheckpoint
  <2> QED
    BY <1>9, <1>r, <2>2, NoRunInOrder DEF ClearCheckpoint, NoRun
<1>10. CASE Crash(s)
  BY <1>10, <1>r, <1>s, NoRunInOrder DEF Crash, NoRun
<1> QED
  BY <1>1, <1>2, <1>3, <1>4, <1>5, <1>6, <1>7, <1>8, <1>9, <1>10 DEF LibNext

LEMMA AppKeepsOrder == ASSUME IInv, LogInv, NEW s \in Slots, AppNext(s) \/ CliNext(s) PROVE LogInv'
<1>0. /\ Counters /\ LogInOrder /\ RunsInOrder /\ LibByDate /\ SavedInOrder
      /\ RunInOrder(run[s], today) /\ Wellformed(run[s]) /\ today \in Nat
  BY DaysAreNumbers DEF LogInv, RunsInOrder, IInv
<1>1. ASSUME NEW job \in Jobs, FullDebate(s, job) \/ RunAnalysis(s, job) PROVE LogInv'
  BY <1>1, StartsKeepOrder
<1>r. ASSUME UNCHANGED <<today, ckpt, filed, started>>, LogInOrder', NEW r,
             run' = [run EXCEPT ![s] = r], RunInOrder(r, today), r.phase = "graph" => Kind[s] # "lib"
      PROVE  LogInv'
  <2>1. Counters' /\ SavedInOrder'
    BY <1>0, <1>r DEF Counters, SavedInOrder
  <2>2. RunsInOrder' /\ LibByDate'
    BY <1>0, <1>r, OneRunInOrder
  <2> QED
    BY <1>r, <2>1, <2>2 DEF LogInv
<1>l. UNCHANGED <<today, log>> => LogInOrder'
  BY <1>0 DEF LogInOrder
\* A step of the graph under way in the slot.
<1>g. ASSUME InGraph(s), NEW h \in Successors(run[s].graph), NEW r,
             r.phase = "graph", r.job = run[s].job, r.graph = h
      PROVE  RunInOrder(r, today)
  <2>1. GraphInv(run[s].graph) /\ Placed(run[s].graph) /\ run[s].job.date <= today
    BY <1>0, <1>g, InGraphFacts DEF InGraph, RunInOrder
  <2>2. Placed(h)
    BY <1>g, <2>1, StepPlaced
  <2> QED
    BY <1>g, <2>1, <2>2 DEF RunInOrder
<1>2. CASE AppStep(s)
  <2>0. InGraph(s) /\ Kind[s] # "lib" /\ UNCHANGED <<today, log, ckpt, filed, started>>
    BY <1>2 DEF AppStep
  <2>1. PICK h \in Successors(run[s].graph), c \in Metered(run[s].graph.at, run[s].tokens) :
          run' = [run EXCEPT ![s] = IF c.raises THEN Raised(run[s], c) ELSE Moved(run[s], h, c)]
    BY <1>2 DEF AppStep
  <2>2. RunInOrder(Raised(run[s], c), today)
    BY DEF Raised, RunInOrder
  <2>3. /\ Moved(run[s], h, c).phase = "graph" /\ Moved(run[s], h, c).job = run[s].job
        /\ Moved(run[s], h, c).graph = h
    BY <2>0, InGraphFacts DEF Moved, InGraphRun, GraphRuns
  <2>4. RunInOrder(Moved(run[s], h, c), today)
    BY <1>g, <2>0, <2>3
  <2> QED
    BY <1>l, <1>r, <2>0, <2>1, <2>2, <2>4
<1>3. CASE AppStops(s) \/ SessionComplete(s) \/ CliEnds(s)
  <2>1. run' = [run EXCEPT ![s] = NoRun] /\ UNCHANGED <<today, log, ckpt, filed, started>>
    BY <1>3 DEF AppStops, SessionComplete, CliEnds
  <2>2. NoRun.phase # "graph"
    BY DEF NoRun
  <2> QED
    BY <1>l, <1>r, <2>1, <2>2, NoRunInOrder
<1>4. CASE ScoreAndStore(s)
  <2>0. InGraph(s) /\ UNCHANGED <<today, ckpt, filed, started>>
    BY <1>4 DEF ScoreAndStore
  <2>1. PICK n \in 0 .. MaxTokens :
          run' = [run EXCEPT ![s] = [phase |-> "complete", job |-> run[s].job,
                                     tokens |-> run[s].tokens + n]]
    BY <1>4 DEF ScoreAndStore
  <2>2. RunInOrder([phase |-> "complete", job |-> run[s].job, tokens |-> run[s].tokens + n], today)
    BY DEF RunInOrder
  <2>3. log' = log \/ log' = Stored(log, run[s].job, run[s].graph.decision)
    BY <1>4 DEF ScoreAndStore
  <2>4. /\ run[s].job.date \in Nat /\ run[s].job.ticker \in STRING
        /\ ParseRating(run[s].graph.decision) \in Ratings
    <3>1. run[s].job \in Jobs /\ run[s].graph.decision \in Decisions \cup {Undecided}
      BY <2>0, InGraphFacts DEF GraphInv, StatesWith
    <3> QED
      BY <3>1, JobsAreDated, DecisionsRated
  <2>5. LogInOrder'
    BY <1>0, <1>l, <2>0, <2>3, <2>4, StoredFacts DEF LogInOrder, KnownBy
  <2> QED
    BY <1>r, <2>0, <2>1, <2>2, <2>5
<1>5. CASE CliStep(s)
  <2>0. InGraph(s) /\ Kind[s] # "lib" /\ UNCHANGED <<today, log, ckpt, filed, started>>
    BY <1>5 DEF CliStep
  <2>1. PICK h \in Successors(run[s].graph) :
          run' = [run EXCEPT ![s].graph = h, ![s].steps = @ + 1, ![s].view = Chunk(@, h)]
    BY <1>5 DEF CliStep
  <2> DEFINE r == [run[s] EXCEPT !.graph = h, !.steps = @ + 1, !.view = Chunk(@, h)]
  <2>2. run' = [run EXCEPT ![s] = r]
    BY <2>1 DEF IInv
  <2>3. r.phase = "graph" /\ r.job = run[s].job /\ r.graph = h
    BY <2>0, InGraphFacts DEF InGraphRun, GraphRuns
  <2> HIDE DEF r
  <2>4. RunInOrder(r, today)
    BY <1>g, <2>0, <2>3
  <2> QED
    BY <1>l, <1>r, <2>0, <2>2, <2>4
<1> QED
  BY <1>1, <1>2, <1>3, <1>4, <1>5 DEF AppNext, CliNext

LEMMA LogInductive == Spec => []LogInv
<1>1. Init => LogInv
  <2> SUFFICES ASSUME Init PROVE LogInv
    OBVIOUS
  <2>1. Counters
    BY CalendarAssumption, RunsAssumption DEF Init, Counters
  <2>2. LogInOrder
    BY HistoriesAssumption DEF Init, LogInOrder, KnownBy, Logs
  <2>3. RunsInOrder /\ LibByDate /\ SavedInOrder
    BY NoRunInOrder DEF Init, RunsInOrder, LibByDate, SavedInOrder, InGraph, NoRun
  <2> QED
    BY <2>1, <2>2, <2>3 DEF LogInv
<1>2. IInv /\ LogInv /\ [Next]_vars => LogInv'
  <2> SUFFICES ASSUME IInv, LogInv, [Next]_vars PROVE LogInv'
    OBVIOUS
  <2>1. CASE UNCHANGED vars
    BY <2>1 DEF vars, LogInv, Counters, LogInOrder, RunsInOrder, LibByDate, InGraph, SavedInOrder
  <2>2. CASE DayPasses
    <3>0. today' = today + 1 /\ today < MaxDay /\ UNCHANGED <<log, ckpt, filed, run, started>>
      BY <2>2 DEF DayPasses
    <3>1. Counters' /\ today \in Nat /\ today' \in Nat /\ today <= today'
      BY <3>0, CalendarAssumption DEF LogInv, Counters
    <3>2. LogInOrder'
      BY <3>0, <3>1, KnownLater DEF LogInv, LogInOrder
    <3>3. ASSUME NEW s \in Slots PROVE RunInOrder(run[s], today')
      BY <3>1, InOrderLater DEF LogInv, RunsInOrder, IInv
    <3> QED
      BY <3>0, <3>1, <3>2, <3>3 DEF LogInv, RunsInOrder, LibByDate, InGraph, SavedInOrder
  <2>3. ASSUME NEW s \in Slots, LibNext(s) PROVE LogInv'
    BY <2>3, LibKeepsOrder
  <2>4. ASSUME NEW s \in Slots, AppNext(s) \/ CliNext(s) PROVE LogInv'
    BY <2>4, AppKeepsOrder
  <2> QED
    BY <2>1, <2>2, <2>3, <2>4 DEF Next
<1> QED
  BY <1>1, <1>2, Inductive, PTL DEF Spec

\* However runs are driven, crash, are resumed or started again, and whoever else
\* appends to the log or rewrites it meanwhile, no job has a second pending
\* decision in it.
THEOREM NoSecondPending == Spec => []OnePending
<1>1. LogInv => OnePending
  BY DEF LogInv, LogInOrder, OnePending
<1> QED
  BY <1>1, LogInductive, PTL

\* No library run learns from an outcome that was not known on its trade date,
\* also when it goes on days later from a checkpoint.
THEOREM LearnsFromThePast == Spec => []NoLookAhead
<1>1. IInv /\ LogInv => NoLookAhead
  <2> SUFFICES ASSUME IInv, LogInv, NEW s \in Slots, Kind[s] = "lib", InGraph(s),
                      NEW e \in run[s].graph.past, e.resolved > run[s].job.date
               PROVE  FALSE
    BY DEF NoLookAhead, LooksAhead
  <2>1. e.resolved <= run[s].job.date /\ e \in Entries
    BY DEF LogInv, LibByDate, ByDate, RunsInOrder, RunInOrder, Placed, InGraph
  <2>2. e.resolved \in Nat
    BY <2>1 DEF Entries
  <2>3. run[s].job.date \in Nat
    BY InGraphFacts, JobsAreDated
  <2> QED
    BY <2>1, <2>2, <2>3
<1> QED
  BY <1>1, Inductive, LogInductive, PTL

\* The graph states that runs and checkpoints hold are graph states, and no
\* invocation takes more steps than its limit.
THEOREM ProRunsTypes == Spec => []TypeOK
<1>1. IInv /\ LogInv => TypeOK
  <2> SUFFICES ASSUME IInv, LogInv PROVE TypeOK
    OBVIOUS
  <2>1. ASSUME NEW g, GraphInv(g), Placed(g) PROVE g \in GraphStates
    <3>1. g \in StatesWith(g.past) /\ g.at \in Nodes /\ g.past \in SUBSET Entries
      BY <2>1 DEF GraphInv, Placed
    <3> QED
      BY <3>1 DEF StatesWith, GraphStates
  <2>2. ASSUME NEW g \in Graphs PROVE GraphInv(g) /\ Placed(g)
    <3>1. CASE \E s \in Slots : InGraph(s) /\ g = run[s].graph
      BY <3>1, InGraphFacts DEF LogInv, RunsInOrder, RunInOrder, InGraph
    <3>2. CASE \E j \in Jobs : g = ckpt[j] /\ g # Nothing
      BY <3>2 DEF LogInv, SavedInOrder, IInv, Saved
    <3> QED
      BY <3>1, <3>2 DEF Graphs
  <2>3. today \in 0 .. MaxDay /\ started \in 0 .. MaxRuns /\ filed \subseteq Jobs
    BY CalendarAssumption DEF LogInv, Counters
  <2>4. ASSUME NEW s \in Slots, InGraph(s)
        PROVE  run[s].job \in Jobs /\ run[s].steps \in 0 .. Limit
    BY <2>4, InGraphFacts DEF InGraphRun, GraphRuns
  <2> QED
    BY <2>1, <2>2, <2>3, <2>4 DEF TypeOK
<1> QED
  BY <1>1, Inductive, LogInductive, PTL

-------------------------------------------------------------------------------
(* What stays in the log ---------------------------------------------------*)
\* While one slot rewrites the log nobody else writes it, and what it is about to
\* write holds every pending decision whose outcome is not known.
OneRewrites ==
  \A s, t \in Slots : run[s].phase = "rewriting" /\ run[t].phase = "rewriting" => s = t
Holds(text) ==
  \A i \in DOMAIN log : log[i].pending /\ ~Settles(log[i], today) =>
    \E k \in DOMAIN text : text[k] = log[i]
TextsHold == \A s \in Slots : run[s].phase = "rewriting" => Holds(run[s].text)
PendInv == OneRewrites /\ TextsHold

\* A rewrite keeps a pending decision whose outcome is not known.
LEMMA RewriteHolds ==
  ASSUME log \in Logs, NEW jobs, \A job \in jobs : OutcomeDay(job) <= today
  PROVE  Holds(Updated(log, jobs))
<1> SUFFICES ASSUME NEW i \in DOMAIN log, log[i].pending, ~Settles(log[i], today)
             PROVE  \E k \in DOMAIN Updated(log, jobs) : Updated(log, jobs)[k] = log[i]
  BY DEF Holds
<1>1. \A job \in jobs : ~IsOf(log[i], job)
  BY DEF IsOf, Settles, OutcomeDay
<1> QED
  BY <1>1, UpdatedPicks

\* The slots that are rewriting after a step were before it, but for the one that
\* has just read.
LEMMA PendStep ==
  ASSUME ~SharedLog, IInv, LogInv, PendInv, [Next]_vars PROVE PendInv'
<1>0. run = [s \in Slots |-> run[s]] /\ log \in Logs /\ today \in Nat
  BY DaysAreNumbers DEF IInv, LogInv, LogInOrder
<1>a. ASSUME NEW s \in Slots, NEW r, run' = [run EXCEPT ![s] = r], r.phase # "rewriting",
             UNCHANGED today, UNCHANGED log \/ run[s].phase = "rewriting" \/ ~Rewriting
      PROVE  PendInv'
  <2>1. run' = [t \in Slots |-> IF t = s THEN r ELSE run[t]]
    BY <1>0, <1>a
  <2>2. \A t \in Slots : run'[t].phase = "rewriting" => t # s /\ run'[t] = run[t]
    BY <1>a, <2>1
  <2>3. OneRewrites'
    BY <2>2 DEF PendInv, OneRewrites
  <2>4. \A t \in Slots : run'[t].phase = "rewriting" => UNCHANGED log
    BY <1>a, <2>2 DEF PendInv, OneRewrites, Rewriting
  <2>5. TextsHold'
    BY <1>a, <2>2, <2>4 DEF PendInv, TextsHold, Holds, Settles
  <2> QED
    BY <2>3, <2>5 DEF PendInv
<1>b. ASSUME NEW s \in Slots, NEW r, run' = [run EXCEPT ![s] = r], r.phase = "rewriting",
             UNCHANGED <<today, log>>, ~Rewriting, Holds(r.text)
      PROVE  PendInv'
  <2>1. run' = [t \in Slots |-> IF t = s THEN r ELSE run[t]]
    BY <1>0, <1>b
  <2>2. \A t \in Slots : run'[t].phase = "rewriting" => t = s /\ run'[t] = r
    BY <1>b, <2>1 DEF Rewriting
  <2>3. OneRewrites'
    BY <2>2 DEF OneRewrites
  <2>4. TextsHold'
    BY <1>b, <2>2 DEF TextsHold, Holds
  <2> QED
    BY <2>3, <2>4 DEF PendInv
<1>1. CASE UNCHANGED vars
  BY <1>1 DEF vars, PendInv, OneRewrites, TextsHold, Holds
<1>2. CASE DayPasses
  <2>1. today' = today + 1 /\ UNCHANGED <<log, run>>
    BY <1>2 DEF DayPasses
  <2>2. \A i \in DOMAIN log : ~(log[i].date + Holding <= today') => ~(log[i].date + Holding <= today)
    <3>1. \A i \in DOMAIN log : log[i] \in Entries
      BY <1>0, LenProperties, ElementOfSeq DEF Logs
    <3>2. \A i \in DOMAIN log : log[i].date \in Nat
      BY <3>1 DEF Entries
    <3> QED
      BY <1>0, <2>1, <3>2, LessonsAssumption
  <2> QED
    BY <2>1, <2>2 DEF PendInv, OneRewrites, TextsHold, Holds, Settles, OutcomeDay
<1>3. ASSUME NEW s \in Slots, NEW job \in Jobs, Propagate(s, job) PROVE PendInv'
  <2>1. PICK known \in SUBSET {e \in PendingOf(log, job.ticker) : Settles(e, today)} :
          run' = [run EXCEPT ![s] =
                    [phase |-> IF known = {} THEN "ready" ELSE "reflecting", job |-> job,
                     jobs |-> {[ticker |-> e.ticker, date |-> e.date] : e \in known}]]
    BY <1>3 DEF Propagate
  <2> DEFINE r == [phase |-> IF known = {} THEN "ready" ELSE "reflecting", job |-> job,
                   jobs |-> {[ticker |-> e.ticker, date |-> e.date] : e \in known}]
  <2>2. r.phase # "rewriting" /\ run' = [run EXCEPT ![s] = r]
    BY <2>1
  <2>3. UNCHANGED <<today, log>>
    BY <1>3 DEF Propagate
  <2> HIDE DEF r
  <2> QED
    BY <1>a, <2>2, <2>3
<1>4. ASSUME NEW s \in Slots, ReadLog(s) PROVE PendInv'
  <2> DEFINE r == [phase |-> "rewriting", job |-> run[s].job, text |-> Updated(log, run[s].jobs)]
  <2>1. run' = [run EXCEPT ![s] = r] /\ UNCHANGED <<today, log>> /\ ~Rewriting
    BY <1>4 DEF ReadLog, MayWriteLog
  <2>2. \A job \in run[s].jobs : OutcomeDay(job) <= today
    BY <1>4 DEF ReadLog, LogInv, RunsInOrder, RunInOrder
  <2>3. Holds(Updated(log, run[s].jobs))
    BY <1>0, <2>2, RewriteHolds
  <2>4. r.phase = "rewriting" /\ Holds(r.text)
    BY <2>3
  <2> HIDE DEF r
  <2> QED
    BY <1>b, <2>1, <2>4
<1>5. ASSUME NEW s \in Slots, ReplaceLog(s) PROVE PendInv'
  <2> DEFINE r == [phase |-> "ready", job |-> run[s].job, jobs |-> {}]
  <2>1. run' = [run EXCEPT ![s] = r] /\ r.phase # "rewriting" /\ UNCHANGED today
    BY <1>5 DEF ReplaceLog
  <2>2. run[s].phase = "rewriting"
    BY <1>5 DEF ReplaceLog
  <2> HIDE DEF r
  <2> QED
    BY <1>a, <2>1, <2>2
<1>6. ASSUME NEW s \in Slots, BeginGraph(s) PROVE PendInv'
  <2>1. \A job, g : Graphing(job, g).phase # "rewriting"
    BY DEF Graphing
  <2> QED
    BY <1>6, <1>a, <2>1 DEF BeginGraph
<1>7. ASSUME NEW s \in Slots, LibStep(s) \/ CliStep(s) PROVE PendInv'
  <2>1. PICK h, v : \/ run' = [run EXCEPT ![s].graph = h, ![s].steps = @ + 1]
                    \/ run' = [run EXCEPT ![s].graph = h, ![s].steps = @ + 1, ![s].view = v]
    BY <1>7 DEF LibStep, CliStep
  <2>2. InGraphRun(run[s]) /\ UNCHANGED <<today, log>>
    BY <1>7, InGraphFacts DEF LibStep, CliStep
  <2>3. PICK r : /\ r = [run[s] EXCEPT !.graph = h, !.steps = @ + 1]
                      \/ r = [run[s] EXCEPT !.graph = h, !.steps = @ + 1, !.view = v]
                 /\ run' = [run EXCEPT ![s] = r]
    BY <1>0, <2>1
  <2>4. r.phase = "graph"
    BY <2>2, <2>3 DEF InGraphRun, GraphRuns
  <2> QED
    BY <1>a, <2>2, <2>3, <2>4
<1>8. ASSUME NEW s \in Slots,
             LibFails(s) \/ ClearCheckpoint(s) \/ Crash(s)
               \/ AppStops(s) \/ SessionComplete(s) \/ CliEnds(s)
      PROVE  PendInv'
  <2>1. run' = [run EXCEPT ![s] = NoRun] /\ UNCHANGED <<today, log>>
    BY <1>8 DEF LibFails, ClearCheckpoint, Crash, AppStops, SessionComplete, CliEnds
  <2>2. NoRun.phase # "rewriting"
    BY DEF NoRun
  <2> QED
    BY <1>a, <2>1, <2>2
<1>9. ASSUME NEW s \in Slots, LogState(s) \/ StoreDecision(s) PROVE PendInv'
  <2>1. PICK r \in {[phase |-> "store", job |-> run[s].job, decision |-> run[s].graph.decision],
                    [phase |-> "clear", job |-> run[s].job]} :
          run' = [run EXCEPT ![s] = r]
    BY <1>9 DEF LogState, StoreDecision
  <2>2. r.phase # "rewriting"
    OBVIOUS
  <2>3. UNCHANGED today /\ (UNCHANGED log \/ ~Rewriting)
    BY <1>9 DEF LogState, StoreDecision, MayWriteLog
  <2> QED
    BY <1>a, <2>1, <2>2, <2>3
<1>10. ASSUME NEW s \in Slots, NEW job \in Jobs, FullDebate(s, job) \/ RunAnalysis(s, job)
       PROVE  PendInv'
  <2>1. \A g : Graphing(job, g).phase # "rewriting"
    BY DEF Graphing
  <2> QED
    BY <1>10, <1>a, <2>1 DEF FullDebate, RunAnalysis
<1>11. ASSUME NEW s \in Slots, AppStep(s) PROVE PendInv'
  <2>1. PICK h \in Successors(run[s].graph), c \in Metered(run[s].graph.at, run[s].tokens) :
          run' = [run EXCEPT ![s] = IF c.raises THEN Raised(run[s], c) ELSE Moved(run[s], h, c)]
    BY <1>11 DEF AppStep
  <2>2. Raised(run[s], c).phase # "rewriting"
    BY DEF Raised
  <2>3. Moved(run[s], h, c).phase # "rewriting"
    BY <1>11, InGraphFacts DEF AppStep, Moved, InGraphRun, GraphRuns
  <2> QED
    BY <1>11, <1>a, <2>1, <2>2, <2>3 DEF AppStep
<1>12. ASSUME NEW s \in Slots, ScoreAndStore(s) PROVE PendInv'
  <2>1. PICK n \in 0 .. MaxTokens :
          run' = [run EXCEPT ![s] = [phase |-> "complete", job |-> run[s].job,
                                     tokens |-> run[s].tokens + n]]
    BY <1>12 DEF ScoreAndStore
  <2>2. UNCHANGED today /\ ~Rewriting
    BY <1>12 DEF ScoreAndStore, MayWriteLog
  <2>3. [phase |-> "complete", job |-> run[s].job, tokens |-> run[s].tokens + n].phase # "rewriting"
    OBVIOUS
  <2> QED
    BY <1>a, <2>1, <2>2, <2>3
<1> QED
  BY <1>1, <1>2, <1>3, <1>4, <1>5, <1>6, <1>7, <1>8, <1>9, <1>10, <1>11, <1>12
     DEF Next, LibNext, AppNext, CliNext

LEMMA PendInductive == ASSUME ~SharedLog PROVE Spec => []PendInv
<1>1. Init => PendInv
  BY DEF Init, PendInv, OneRewrites, TextsHold, NoRun
<1>2. IInv /\ LogInv /\ PendInv /\ [Next]_vars => PendInv'
  BY PendStep
<1> QED
  BY <1>1, <1>2, Inductive, LogInductive, PTL DEF Spec

\* The log changes by a rewrite that a run of the library finishes, or by one
\* more decision.
LEMMA LogChanges ==
  ASSUME IInv, LogInv, [Next]_vars
  PROVE  \/ UNCHANGED log
         \/ \E s \in Slots : run[s].phase = "rewriting" /\ log' = run[s].text
         \/ DOMAIN log \subseteq DOMAIN log' /\ \A i \in DOMAIN log : log'[i] = log[i]
<1>1. ASSUME NEW s \in Slots, StoreDecision(s)
      PROVE  DOMAIN log \subseteq DOMAIN log' /\ \A i \in DOMAIN log : log'[i] = log[i]
  <2>1. /\ log \in Logs /\ run[s].job \in Jobs /\ ParseRating(run[s].decision) \in Ratings
        /\ log' = Stored(log, run[s].job, run[s].decision)
    BY <1>1 DEF LogInv, LogInOrder, RunsInOrder, RunInOrder, StoreDecision, IInv, Wellformed
  <2>2. run[s].job.date \in Nat /\ run[s].job.ticker \in STRING
    BY <2>1, JobsAreDated
  <2> QED
    BY <2>1, <2>2, StoredFacts
<1>2. ASSUME NEW s \in Slots, ScoreAndStore(s), log' # log
      PROVE  DOMAIN log \subseteq DOMAIN log' /\ \A i \in DOMAIN log : log'[i] = log[i]
  <2>1. log' = Stored(log, run[s].job, run[s].graph.decision) /\ InGraph(s)
    BY <1>2 DEF ScoreAndStore
  <2>2. run[s].job \in Jobs /\ run[s].graph.decision \in Decisions \cup {Undecided}
    BY <2>1, InGraphFacts DEF GraphInv, StatesWith
  <2>3. /\ log \in Logs /\ run[s].job.date \in Nat /\ run[s].job.ticker \in STRING
        /\ ParseRating(run[s].graph.decision) \in Ratings
    BY <2>2, JobsAreDated, DecisionsRated DEF LogInv, LogInOrder
  <2> QED
    BY <2>1, <2>3, StoredFacts
<1>3. ASSUME NEW s \in Slots, LibNext(s)
      PROVE  UNCHANGED log \/ ReplaceLog(s) \/ StoreDecision(s)
  BY <1>3 DEF LibNext, Propagate, ReadLog, BeginGraph, LibStep, LibFails, LogState,
              ClearCheckpoint, Crash
<1>4. ASSUME NEW s \in Slots, AppNext(s) \/ CliNext(s)
      PROVE  UNCHANGED log \/ ScoreAndStore(s)
  BY <1>4 DEF AppNext, CliNext, FullDebate, AppStep, AppStops, SessionComplete,
              RunAnalysis, CliStep, CliEnds
<1>5. ASSUME NEW s \in Slots, ReplaceLog(s)
      PROVE  run[s].phase = "rewriting" /\ log' = run[s].text
  BY <1>5 DEF ReplaceLog
<1>6. UNCHANGED vars \/ DayPasses => UNCHANGED log
  BY DEF vars, DayPasses
<1> QED
  BY <1>1, <1>2, <1>3, <1>4, <1>5, <1>6 DEF Next

\* A decision whose outcome is not known stays in the log until it has one,
\* whatever is resolved, rotated out or stored around it, in every behaviour in
\* which no other process appends while the log is being rewritten.
THEOREM UnknownStays == ASSUME ~SharedLog PROVE Spec => PendingKept
<1> DEFINE Kept1 == \A i \in DOMAIN log :
                      log[i].pending /\ ~Settles(log[i], today) =>
                        \E k \in DOMAIN log' : log'[k] = log[i]
<1>1. IInv /\ LogInv /\ PendInv /\ [Next]_vars => Kept1
  <2> SUFFICES ASSUME IInv, LogInv, PendInv, [Next]_vars PROVE Kept1
    OBVIOUS
  <2>1. CASE UNCHANGED log
    BY <2>1
  <2>2. CASE \E s \in Slots : run[s].phase = "rewriting" /\ log' = run[s].text
    BY <2>2 DEF PendInv, TextsHold, Holds
  <2>3. CASE DOMAIN log \subseteq DOMAIN log' /\ \A i \in DOMAIN log : log'[i] = log[i]
    BY <2>3
  <2> QED
    BY <2>1, <2>2, <2>3, LogChanges
<1> QED
  BY <1>1, Inductive, LogInductive, PendInductive, PTL DEF Spec, PendingKept

-------------------------------------------------------------------------------
(* What stays in a checkpoint ----------------------------------------------*)
\* One library run is under way at a time; other runs are free to be.
OneLibrary ==
  \A s, t \in Slots : Kind[s] = "lib" /\ Kind[t] = "lib" /\ ~Idle(s) /\ ~Idle(t) => s = t

\* A library run goes on from its checkpoint, and has written its state file and
\* its decision before it lets go of it.
Words(s) ==
  /\ run[s].phase \in {"reflecting", "rewriting", "ready", "store", "clear"} => Kind[s] = "lib"
  /\ Kind[s] = "lib" /\ InGraph(s) /\ ckpt[run[s].job] # Nothing =>
       Continues(ckpt[run[s].job], run[s].graph)
  /\ run[s].phase \in {"store", "clear"} => run[s].job \in filed
  /\ run[s].phase = "clear" => \E i \in DOMAIN log : IsOf(log[i], run[s].job)
WordsKept == \A s \in Slots : Words(s)

Grows == DOMAIN log \subseteq DOMAIN log' /\ \A i \in DOMAIN log : log'[i] = log[i]

LEMMA OneRunWords ==
  ASSUME IInv, WordsKept, OneLibrary, NEW s \in Slots, NEW r, run' = [run EXCEPT ![s] = r],
         filed \subseteq filed',
         UNCHANGED ckpt \/ (Kind[s] = "lib" /\ ~Idle(s)),
         Grows \/ (Kind[s] = "lib" /\ ~Idle(s)),
         run'[s] = r => Words(s)'
  PROVE  WordsKept'
<1>1. run' = [t \in Slots |-> IF t = s THEN r ELSE run[t]]
  BY DEF IInv
<1>2. ASSUME NEW t \in Slots, t # s PROVE Words(t)'
  <2>1. run'[t] = run[t] /\ Words(t)
    BY <1>1, <1>2 DEF WordsKept
  <2>2. CASE Kind[s] = "lib" /\ ~Idle(s)
    <3>1. Kind[t] = "lib" => Idle(t)
      BY <1>2, <2>2 DEF OneLibrary
    <3>2. run[t].phase \notin {"reflecting", "rewriting", "ready", "store", "clear"}
      BY <2>1, <3>1 DEF Words, Idle
    <3>3. ~(Kind[t] = "lib" /\ InGraph(t))
      BY <3>1 DEF Idle, InGraph
    <3> QED
      BY <2>1, <3>2, <3>3 DEF Words, InGraph
  <2>3. CASE UNCHANGED ckpt /\ Grows
    BY <2>1, <2>3 DEF Words, InGraph, Grows
  <2> QED
    BY <2>2, <2>3
<1> QED
  BY <1>1, <1>2 DEF WordsKept

\* A phase of which nothing is asked.
LEMMA FreeWords ==
  ASSUME NEW s, run'[s].phase \in {"idle", "capped", "complete"} PROVE Words(s)'
  BY DEF Words, InGraph

LEMMA WordsStep ==
  ASSUME IInv, LogInv, WordsKept, OneLibrary, [Next]_vars PROVE WordsKept'
<1>0. run = [t \in Slots |-> run[t]]
  BY DEF IInv
<1>g. UNCHANGED log => Grows
  BY DEF Grows
<1>1. CASE UNCHANGED vars \/ DayPasses
  BY <1>1 DEF vars, DayPasses, WordsKept, Words, InGraph
<1>2. ASSUME NEW s \in Slots, NEW job \in Jobs, Propagate(s, job) PROVE WordsKept'
  <2>1. PICK known \in SUBSET {e \in PendingOf(log, job.ticker) : Settles(e, today)} :
          run' = [run EXCEPT ![s] =
                    [phase |-> IF known = {} THEN "ready" ELSE "reflecting", job |-> job,
                     jobs |-> {[ticker |-> e.ticker, date |-> e.date] : e \in known}]]
    BY <1>2 DEF Propagate
  <2> DEFINE r == [phase |-> IF known = {} THEN "ready" ELSE "reflecting", job |-> job,
                   jobs |-> {[ticker |-> e.ticker, date |-> e.date] : e \in known}]
  <2>2. r.phase \in {"ready", "reflecting"} /\ run' = [run EXCEPT ![s] = r]
    BY <2>1
  <2>3. Kind[s] = "lib" /\ UNCHANGED <<log, ckpt, filed>>
    BY <1>2 DEF Propagate
  <2> HIDE DEF r
  <2>4. run'[s] = r => Words(s)'
    BY <2>2, <2>3 DEF Words, InGraph
  <2> QED
    BY <1>g, <2>2, <2>3, <2>4, OneRunWords
<1>3. ASSUME NEW s \in Slots, ReadLog(s) \/ ReplaceLog(s) PROVE WordsKept'
  <2>1. PICK r \in {[phase |-> "rewriting", job |-> run[s].job, text |-> Updated(log, run[s].jobs)],
                    [phase |-> "ready", job |-> run[s].job, jobs |-> {}]} :
          run' = [run EXCEPT ![s] = r]
    BY <1>3 DEF ReadLog, ReplaceLog
  <2>2. r.phase \in {"rewriting", "ready"}
    OBVIOUS
  <2>3. Kind[s] = "lib" /\ ~Idle(s) /\ UNCHANGED <<ckpt, filed>>
    BY <1>3 DEF ReadLog, ReplaceLog, WordsKept, Words, Idle
  <2>4. run'[s] = r => Words(s)'
    BY <2>2, <2>3 DEF Words, InGraph
  <2> QED
    BY <2>1, <2>3, <2>4, OneRunWords
<1>4. ASSUME NEW s \in Slots, BeginGraph(s) PROVE WordsKept'
  <2> DEFINE job == run[s].job
             past == PastContext(log, job.ticker, MemoryAsOf(job.date))
             g == CheckpointInput(job, Opening(past))
             r == Graphing(job, g)
  <2>1. /\ run' = [run EXCEPT ![s] = r] /\ ckpt' = [ckpt EXCEPT ![job] = g]
        /\ UNCHANGED <<log, filed>> /\ run[s].phase = "ready"
    BY <1>4 DEF BeginGraph
  <2>2. Kind[s] = "lib" /\ ~Idle(s) /\ job \in Jobs
    BY <2>1 DEF WordsKept, Words, Idle, IInv, Wellformed
  <2>3. GraphInv(g)
    BY <2>2, OpeningInv DEF IInv, Saved, CheckpointInput
  <2>4. r.phase = "graph" /\ r.job = job /\ r.graph = g
    BY DEF Graphing
  <2> HIDE DEF g, job, r
  <2>5. ckpt'[job] = g
    BY <2>1, <2>2 DEF IInv
  <2>6. Continues(g, g)
    BY <2>3, StateSpoken, ContinuesReflexive
  <2>7. run'[s] = r => Words(s)'
    BY <2>2, <2>4, <2>5, <2>6 DEF Words, InGraph
  <2> QED
    BY <1>g, <2>1, <2>2, <2>7, OneRunWords
<1>5. ASSUME NEW s \in Slots, LibStep(s) PROVE WordsKept'
  <2>0. InGraph(s) /\ Kind[s] = "lib" /\ ~Idle(s) /\ UNCHANGED <<log, filed>>
    BY <1>5 DEF LibStep, InGraph, Idle
  <2>1. InGraphRun(run[s]) /\ run[s].job \in Jobs /\ GraphInv(run[s].graph) /\ Placed(run[s].graph)
    BY <2>0, InGraphFacts DEF LogInv, RunsInOrder, RunInOrder, InGraph
  <2>a. PICK h \in Successors(run[s].graph) :
          /\ run' = [run EXCEPT ![s].graph = h, ![s].steps = @ + 1]
          /\ \E durable \in {run[s].graph, h} : ckpt' = [ckpt EXCEPT ![run[s].job] = durable]
    BY <1>5 DEF LibStep
  <2>2. PICK durable \in {run[s].graph, h} : ckpt' = [ckpt EXCEPT ![run[s].job] = durable]
    BY <2>a
  <2> DEFINE r == [run[s] EXCEPT !.graph = h, !.steps = @ + 1]
  <2>3. r.phase = "graph" /\ r.graph = h /\ r.job = run[s].job
    BY <2>1 DEF InGraphRun, GraphRuns
  <2>4. run' = [run EXCEPT ![s] = r]
    BY <1>0, <2>a
  <2>5. Continues(durable, h)
    <3>1. Continues(run[s].graph, h)
      BY <2>1, <2>2, StepPlaced
    <3>2. Continues(h, h)
      BY <2>1, <2>2, StepKeeps, StateSpoken, ContinuesReflexive
    <3> QED
      BY <2>2, <3>1, <3>2
  <2>6. ckpt'[run[s].job] = durable
    BY <2>1, <2>2 DEF IInv
  <2> HIDE DEF r
  <2>7. run'[s] = r => Words(s)'
    BY <2>0, <2>3, <2>5, <2>6 DEF Words, InGraph
  <2> QED
    BY <1>g, <2>0, <2>4, <2>7, OneRunWords
<1>6. ASSUME NEW s \in Slots, LogState(s) PROVE WordsKept'
  <2> DEFINE r == [phase |-> "store", job |-> run[s].job, decision |-> run[s].graph.decision]
  <2>1. /\ Kind[s] = "lib" /\ ~Idle(s) /\ UNCHANGED log /\ run' = [run EXCEPT ![s] = r]
        /\ filed' = filed \cup {run[s].job}
    BY <1>6 DEF LogState, InGraph, Idle
  <2>2. r.phase = "store" /\ r.job = run[s].job
    OBVIOUS
  <2> HIDE DEF r
  <2>3. run'[s] = r => Words(s)'
    BY <2>1, <2>2 DEF Words, InGraph
  <2> QED
    BY <1>g, <2>1, <2>3, OneRunWords
<1>7. ASSUME NEW s \in Slots, StoreDecision(s) PROVE WordsKept'
  <2> DEFINE r == [phase |-> "clear", job |-> run[s].job]
  <2>1. /\ run[s].phase = "store" /\ run' = [run EXCEPT ![s] = r] /\ UNCHANGED <<ckpt, filed>>
        /\ log' = Stored(log, run[s].job, run[s].decision)
    BY <1>7 DEF StoreDecision
  <2>2. Kind[s] = "lib" /\ ~Idle(s) /\ run[s].job \in filed /\ run[s].job \in Jobs
    BY <2>1 DEF WordsKept, Words, Idle, IInv, Wellformed
  <2>3. \E i \in DOMAIN log' : IsOf(log'[i], run[s].job)
    <3>1. log \in Logs /\ ParseRating(run[s].decision) \in Ratings
      BY <2>1 DEF LogInv, LogInOrder, RunsInOrder, RunInOrder
    <3>2. run[s].job.date \in Nat /\ run[s].job.ticker \in STRING
      BY <2>2, JobsAreDated
    <3> QED
      BY <2>1, <3>1, <3>2, StoredFacts
  <2>4. r.phase = "clear" /\ r.job = run[s].job
    OBVIOUS
  <2> HIDE DEF r
  <2>5. run'[s] = r => Words(s)'
    BY <2>1, <2>2, <2>3, <2>4 DEF Words, InGraph
  <2> QED
    BY <2>1, <2>2, <2>5, OneRunWords
<1>8. ASSUME NEW s \in Slots, LibFails(s) \/ ClearCheckpoint(s) \/ Crash(s) PROVE WordsKept'
  <2>1. run' = [run EXCEPT ![s] = NoRun] /\ UNCHANGED <<log, filed>>
    BY <1>8 DEF LibFails, ClearCheckpoint, Crash
  <2>2. Kind[s] = "lib" /\ ~Idle(s)
    BY <1>8 DEF LibFails, ClearCheckpoint, Crash, InGraph, Idle, WordsKept, Words
  <2>3. run'[s] = NoRun => Words(s)'
    BY FreeWords DEF NoRun
  <2> QED
    BY <1>g, <2>1, <2>2, <2>3, OneRunWords
<1>9. ASSUME NEW s \in Slots, AppStops(s) \/ SessionComplete(s) \/ CliEnds(s) PROVE WordsKept'
  <2>1. run' = [run EXCEPT ![s] = NoRun] /\ UNCHANGED <<log, filed, ckpt>>
    BY <1>9 DEF AppStops, SessionComplete, CliEnds
  <2>2. run'[s] = NoRun => Words(s)'
    BY FreeWords DEF NoRun
  <2> QED
    BY <1>g, <2>1, <2>2, OneRunWords
<1>10. ASSUME NEW s \in Slots, NEW job \in Jobs, FullDebate(s, job) \/ RunAnalysis(s, job)
       PROVE  WordsKept'
  <2>1. PICK g : run' = [run EXCEPT ![s] = Graphing(job, g)]
    BY <1>10 DEF FullDebate, RunAnalysis
  <2>2. Kind[s] # "lib" /\ UNCHANGED <<log, filed, ckpt>> /\ Graphing(job, g).phase = "graph"
    BY <1>10 DEF FullDebate, RunAnalysis, Graphing
  <2>3. run'[s] = Graphing(job, g) => Words(s)'
    BY <2>2 DEF Words, InGraph
  <2> QED
    BY <1>g, <2>1, <2>2, <2>3, OneRunWords
<1>11. ASSUME NEW s \in Slots, AppStep(s) PROVE WordsKept'
  <2>1. PICK h \in Successors(run[s].graph), c \in Metered(run[s].graph.at, run[s].tokens) :
          run' = [run EXCEPT ![s] = IF c.raises THEN Raised(run[s], c) ELSE Moved(run[s], h, c)]
    BY <1>11 DEF AppStep
  <2> DEFINE r == IF c.raises THEN Raised(run[s], c) ELSE Moved(run[s], h, c)
  <2>2. r.phase \in {"capped", "graph"}
    <3>1. Raised(run[s], c).phase = "capped"
      BY DEF Raised
    <3>2. Moved(run[s], h, c).phase = "graph"
      BY <1>11, InGraphFacts DEF AppStep, Moved, InGraphRun, GraphRuns
    <3> QED
      BY <3>1, <3>2
  <2>3. Kind[s] # "lib" /\ UNCHANGED <<log, filed, ckpt>>
    BY <1>11 DEF AppStep
  <2> HIDE DEF r
  <2>4. run'[s] = r => Words(s)'
    BY <2>2, <2>3 DEF Words, InGraph
  <2>5. run' = [run EXCEPT ![s] = r]
    BY <2>1 DEF r
  <2> QED
    BY <1>g, <2>3, <2>4, <2>5, OneRunWords
<1>12. ASSUME NEW s \in Slots, ScoreAndStore(s) PROVE WordsKept'
  <2>1. PICK n \in 0 .. MaxTokens :
          run' = [run EXCEPT ![s] = [phase |-> "complete", job |-> run[s].job,
                                     tokens |-> run[s].tokens + n]]
    BY <1>12 DEF ScoreAndStore
  <2> DEFINE r == [phase |-> "complete", job |-> run[s].job, tokens |-> run[s].tokens + n]
  <2>2. UNCHANGED <<ckpt, filed>>
    BY <1>12 DEF ScoreAndStore
  <2>3. Grows
    <3>2. log' = log \/ log' = Stored(log, run[s].job, run[s].graph.decision)
      BY <1>12 DEF ScoreAndStore
    <3>3. run[s].job \in Jobs /\ run[s].graph.decision \in Decisions \cup {Undecided}
      BY <1>12, InGraphFacts DEF ScoreAndStore, GraphInv, StatesWith
    <3>4. /\ log \in Logs /\ run[s].job.date \in Nat /\ run[s].job.ticker \in STRING
          /\ ParseRating(run[s].graph.decision) \in Ratings
      BY <3>3, JobsAreDated, DecisionsRated DEF LogInv, LogInOrder
    <3> QED
      BY <1>g, <3>2, <3>4, StoredFacts DEF Grows
  <2>4. r.phase = "complete"
    OBVIOUS
  <2>5. run' = [run EXCEPT ![s] = r]
    BY <2>1
  <2> HIDE DEF r
  <2>6. run'[s] = r => Words(s)'
    BY <2>4, FreeWords
  <2> QED
    BY <2>2, <2>3, <2>5, <2>6, OneRunWords
<1>13. ASSUME NEW s \in Slots, CliStep(s) PROVE WordsKept'
  <2>1. PICK h \in Successors(run[s].graph) :
          run' = [run EXCEPT ![s].graph = h, ![s].steps = @ + 1, ![s].view = Chunk(@, h)]
    BY <1>13 DEF CliStep
  <2> DEFINE r == [run[s] EXCEPT !.graph = h, !.steps = @ + 1, !.view = Chunk(@, h)]
  <2>2. r.phase = "graph"
    BY <1>13, InGraphFacts DEF CliStep, InGraphRun, GraphRuns
  <2>3. run' = [run EXCEPT ![s] = r]
    BY <1>0, <2>1
  <2>4. Kind[s] # "lib" /\ UNCHANGED <<log, filed, ckpt>>
    BY <1>13 DEF CliStep
  <2> HIDE DEF r
  <2>5. run'[s] = r => Words(s)'
    BY <2>2, <2>4 DEF Words, InGraph
  <2> QED
    BY <1>g, <2>3, <2>4, <2>5, OneRunWords
<1> QED
  BY <1>1, <1>2, <1>3, <1>4, <1>5, <1>6, <1>7, <1>8, <1>9, <1>10, <1>11, <1>12, <1>13
     DEF Next, LibNext, AppNext, CliNext

LEMMA WordsInductive == Spec /\ []OneLibrary => []WordsKept
<1>1. Init => WordsKept
  BY DEF Init, WordsKept, Words, InGraph, NoRun
<1>2. IInv /\ LogInv /\ WordsKept /\ OneLibrary /\ [Next]_vars => WordsKept'
  BY WordsStep
<1> QED
  BY <1>1, <1>2, Inductive, LogInductive, PTL DEF Spec

\* A step takes nothing back from a checkpoint, and lets go of it only when the
\* decision and the state file are written.
LEMMA CheckpointStep ==
  ASSUME IInv, LogInv, WordsKept, [Next]_vars, NEW j \in Jobs, ckpt[j] # Nothing
  PROVE  \/ ckpt'[j] # Nothing /\ Continues(ckpt[j], ckpt'[j])
         \/ ckpt'[j] = Nothing /\ j \in filed /\ \E i \in DOMAIN log : IsOf(log[i], j)
<1>0. /\ ckpt = [k \in Jobs |-> ckpt[k]] /\ Spoken(ckpt[j]) /\ Continues(ckpt[j], ckpt[j])
  BY StateSpoken, ContinuesReflexive DEF IInv, Saved
<1>1. CASE ckpt'[j] = ckpt[j]
  BY <1>0, <1>1
\* A run of the library leaves its graph, or the step after it.
<1>2. ASSUME NEW s \in Slots, Kind[s] = "lib", InGraph(s), run[s].job = j,
             ckpt'[j] = run[s].graph \/ ckpt'[j] \in Successors(run[s].graph)
      PROVE  ckpt'[j] # Nothing /\ Continues(ckpt[j], ckpt'[j])
  <2>1. GraphInv(run[s].graph) /\ Placed(run[s].graph) /\ run[s].graph # Nothing
    BY <1>2, InGraphFacts DEF LogInv, RunsInOrder, RunInOrder, InGraph
  <2>2. Continues(ckpt[j], run[s].graph)
    BY <1>2 DEF WordsKept, Words
  <2>3. ASSUME NEW h \in Successors(run[s].graph)
        PROVE  h # Nothing /\ Continues(ckpt[j], h)
    <3>1. GraphInv(h) /\ Continues(run[s].graph, h)
      BY <2>1, StepKeeps, StepPlaced
    <3>2. h.at.kind \in Kinds /\ Nothing.at.kind = "none"
      BY <3>1 DEF GraphInv, StatesWith, Nothing, The, Node
    <3>3. h # Nothing
      BY <3>2 DEF Kinds
    <3> QED
      BY <1>0, <2>1, <2>2, <3>1, <3>3, StateSpoken, ContinuesTransitive
  <2> QED
    BY <1>2, <2>1, <2>2, <2>3
<1>3. ASSUME NEW s \in Slots, BeginGraph(s) PROVE ckpt'[j] = ckpt[j]
  <2>1. PICK opening : ckpt' = [ckpt EXCEPT ![run[s].job] = CheckpointInput(run[s].job, opening)]
    BY <1>3 DEF BeginGraph
  <2> QED
    BY <1>0, <2>1 DEF CheckpointInput
<1>4. ASSUME NEW s \in Slots, LibStep(s) \/ LibFails(s) \/ LogState(s), ckpt'[j] # ckpt[j]
      PROVE  ckpt'[j] # Nothing /\ Continues(ckpt[j], ckpt'[j])
  <2>1. Kind[s] = "lib" /\ InGraph(s)
    BY <1>4 DEF LibStep, LibFails, LogState
  <2>2. PICK c : /\ c = run[s].graph \/ c \in Successors(run[s].graph)
                 /\ ckpt' = [ckpt EXCEPT ![run[s].job] = c]
    BY <1>4 DEF LibStep, LibFails, LogState, EndCheckpoint
  <2>3. run[s].job = j /\ ckpt'[j] = c
    BY <1>0, <1>4, <2>2
  <2> QED
    BY <1>2, <2>1, <2>2, <2>3
<1>5. ASSUME NEW s \in Slots, ClearCheckpoint(s), ckpt'[j] # ckpt[j]
      PROVE  ckpt'[j] = Nothing /\ j \in filed /\ \E i \in DOMAIN log : IsOf(log[i], j)
  <2>1. run[s].phase = "clear" /\ ckpt' = [ckpt EXCEPT ![run[s].job] = Nothing]
    BY <1>5 DEF ClearCheckpoint
  <2>2. run[s].job = j /\ ckpt'[j] = Nothing
    BY <1>0, <1>5, <2>1
  <2> QED
    BY <2>1, <2>2 DEF WordsKept, Words
<1>6. ASSUME NEW s \in Slots, AppNext(s) \/ CliNext(s) PROVE ckpt'[j] = ckpt[j]
  BY <1>6 DEF AppNext, CliNext, FullDebate, AppStep, AppStops, ScoreAndStore, SessionComplete,
              RunAnalysis, CliStep, CliEnds
<1>7. ASSUME NEW s \in Slots, LibNext(s), ckpt'[j] # ckpt[j]
      PROVE  BeginGraph(s) \/ LibStep(s) \/ LibFails(s) \/ LogState(s) \/ ClearCheckpoint(s)
  BY <1>7 DEF LibNext, Propagate, ReadLog, ReplaceLog, StoreDecision, Crash
<1>8. UNCHANGED vars \/ DayPasses => ckpt'[j] = ckpt[j]
  BY DEF vars, DayPasses
<1> QED
  BY <1>1, <1>3, <1>4, <1>5, <1>6, <1>7, <1>8 DEF Next

\* Nothing an agent said in a checkpointed run is unsaid or asked for again, and
\* the checkpoint goes only when the decision and the state file are written, in
\* every behaviour in which one library run is under way at a time.
THEOREM CheckpointStays == Spec /\ []OneLibrary => CheckpointKept
<1> DEFINE Step == \A j \in Jobs : ckpt[j] # Nothing =>
                     \/ ckpt'[j] # Nothing /\ Continues(ckpt[j], ckpt'[j])
                     \/ ckpt'[j] = Nothing /\ j \in filed /\ \E i \in DOMAIN log : IsOf(log[i], j)
<1>1. IInv /\ LogInv /\ WordsKept /\ [Next]_vars => Step
  BY CheckpointStep
<1> QED
  BY <1>1, Inductive, LogInductive, WordsInductive, PTL DEF Spec, CheckpointKept


-------------------------------------------------------------------------------
(* What the command line shows ---------------------------------------------*)
\* What a status says of the graph, whatever chunks it was worked out from.
Done(g, a) ==
  \/ a \in Planned /\ a \in g.reports
  \/ a \in ResearchTeam /\ g.plan
  \/ a = "Trader" /\ g.proposal
  \/ a \in Riskers \cup {"PortfolioManager"} /\ g.decision # Undecided
AtWork(g, a) ==
  \/ a \in Planned /\ FirstToReport(g, a)
  \/ a = "Bull" /\ AllReported(g)
  \/ a \in ResearchTeam /\ g.debate.turns # << >>
  \/ a = "Trader" /\ g.plan
  \/ a = "Aggressive" /\ g.proposal
  \/ a \in Riskers /\ a \in g.risk.spoken
StatusesOf(g) ==
  [a \in Agents |-> IF Done(g, a) THEN "completed" ELSE IF AtWork(g, a) THEN "in_progress" ELSE "pending"]

\* What a step of the graph leaves of what the view reads.
Grown(g, h) ==
  /\ g.reports \subseteq h.reports
  /\ g.risk.spoken \subseteq h.risk.spoken /\ h.risk.spoken \subseteq Riskers
  /\ g.debate.turns # << >> => h.debate.turns # << >>
  /\ g.risk.turns # << >> => h.risk.turns # << >>
  /\ (g.plan => h.plan) /\ (g.proposal => h.proposal)
  /\ g.decision = Undecided

LEMMA AgentNames ==
  /\ Planned \subseteq {"market", "social", "news", "fundamentals"}
  /\ ResearchTeam = {"Bull", "Bear", "ResearchManager"}
  /\ Riskers = {"Aggressive", "Conservative", "Neutral"}
  /\ Agents = Planned \cup {"Bull", "Bear", "ResearchManager", "Trader", "PortfolioManager",
                            "Aggressive", "Conservative", "Neutral"}
  BY PlanFacts DEF Planned, Analysts, ResearchTeam, Debaters, Riskers, Agents, Committee

\* The loop works the statuses out from what it showed before and the new chunk;
\* it comes out as if it had the chunk alone.
LEMMA ChunkShows ==
  ASSUME NEW g, NEW h, Grown(g, h)
  PROVE  Chunk(StatusesOf(g), h) = StatusesOf(h)
<1> DEFINE v == StatusesOf(g)
           A == AnalystStatuses(v, h)
           R == ResearchStatuses(A, h)
           T == TradingStatuses(R, h)
           K == RiskStatuses(T, h)
<1>1. \A a \in Agents :
        A[a] = IF a \in Planned
               THEN IF a \in h.reports THEN "completed"
                    ELSE IF FirstToReport(h, a) THEN "in_progress" ELSE "pending"
               ELSE IF a = "Bull" /\ AllReported(h) /\ v[a] = "pending" THEN "in_progress" ELSE v[a]
  <2> SUFFICES ASSUME NEW a \in Agents
               PROVE  A[a] = IF a \in Planned
                             THEN IF a \in h.reports THEN "completed"
                                  ELSE IF FirstToReport(h, a) THEN "in_progress" ELSE "pending"
                             ELSE IF a = "Bull" /\ AllReported(h) /\ v[a] = "pending"
                                  THEN "in_progress" ELSE v[a]
    OBVIOUS
  <2>1. CASE a \in Planned /\ a \in h.reports
    BY <2>1, AgentNames DEF AnalystStatuses
  <2>2. CASE a \in Planned /\ a \notin h.reports
    BY <2>2, AgentNames DEF AnalystStatuses
  <2>3. CASE a \notin Planned
    <3> HIDE DEF v
    <3>1. CASE a = "Bull" /\ AllReported(h) /\ v[a] = "pending"
      BY <2>3, <3>1 DEF AnalystStatuses
    <3>2. CASE ~(a = "Bull" /\ AllReported(h) /\ v[a] = "pending")
      BY <2>3, <3>2 DEF AnalystStatuses
    <3> QED
      BY <3>1, <3>2
  <2> QED
    BY <2>1, <2>2, <2>3
<1> HIDE DEF A
<1>2. \A a \in Agents :
        R[a] = IF h.plan
               THEN IF a = "Trader" THEN "in_progress"
                    ELSE IF a \in ResearchTeam THEN "completed" ELSE A[a]
               ELSE IF h.debate.turns # << >> /\ a \in ResearchTeam THEN "in_progress" ELSE A[a]
  <2>1. CASE h.plan
    BY <2>1 DEF ResearchStatuses, Marked
  <2>2. CASE ~h.plan /\ h.debate.turns # << >>
    BY <2>2 DEF ResearchStatuses, Marked
  <2>3. CASE ~h.plan /\ h.debate.turns = << >>
    BY <2>3 DEF ResearchStatuses
  <2> QED
    BY <2>1, <2>2, <2>3
<1> HIDE DEF R
<1>3. \A a \in Agents :
        T[a] = IF h.proposal /\ R["Trader"] # "completed"
               THEN IF a = "Aggressive" THEN "in_progress"
                    ELSE IF a = "Trader" THEN "completed" ELSE R[a]
               ELSE R[a]
  BY DEF TradingStatuses, Marked
<1> HIDE DEF T
<1>4. /\ K = [a \in Agents |-> K[a]]
      /\ \A a \in Agents :
           K[a] = IF h.decision # Undecided /\ a \in Riskers \cup {"PortfolioManager"} THEN "completed"
                  ELSE IF a \in h.risk.spoken /\ T[a] # "completed" THEN "in_progress" ELSE T[a]
  BY DEF RiskStatuses, Marked
<1>5. Chunk(v, h) = K
  BY DEF Chunk, A, R, T
<1> HIDE DEF K, v
<1>v. \A a \in Agents : v[a] = IF Done(g, a) THEN "completed"
                               ELSE IF AtWork(g, a) THEN "in_progress" ELSE "pending"
  BY DEF v, StatusesOf
<1>w. \A a \in Agents : StatusesOf(h)[a] = IF Done(h, a) THEN "completed"
                                      ELSE IF AtWork(h, a) THEN "in_progress" ELSE "pending"
  BY DEF StatusesOf
<1>n. Planned \cap {"Bull", "Bear", "ResearchManager", "Trader", "PortfolioManager",
                    "Aggressive", "Conservative", "Neutral"} = {}
  BY AgentNames
<1>6. ASSUME NEW a \in Planned PROVE K[a] = StatusesOf(h)[a]
  <2>1. a \in Agents /\ a \notin ResearchTeam \cup {"Trader", "Aggressive"}
    BY <1>n, AgentNames
  <2>2. a \notin Riskers \cup {"PortfolioManager", "Bull"}
    BY <1>n, AgentNames
  <2>3. a \notin h.risk.spoken
    BY <2>2 DEF Grown
  <2>4. K[a] = A[a]
    BY <1>2, <1>3, <1>4, <2>1, <2>2, <2>3
  <2>5. (Done(h, a) <=> a \in h.reports) /\ (AtWork(h, a) <=> FirstToReport(h, a))
    BY <2>1, <2>2 DEF Done, AtWork
  <2> QED
    BY <1>1, <1>w, <2>1, <2>4, <2>5
<1>7. ASSUME NEW a \in ResearchTeam PROVE K[a] = StatusesOf(h)[a]
  <2>1. a \in Agents /\ a \notin Planned /\ a \notin {"Trader", "Aggressive"}
    BY <1>n, AgentNames
  <2>2. a \notin Riskers \cup {"PortfolioManager"}
    BY AgentNames
  <2>3. a \notin h.risk.spoken
    BY <2>2 DEF Grown
  <2>4. K[a] = R[a]
    BY <1>3, <1>4, <2>1, <2>2, <2>3
  <2>5. /\ Done(h, a) <=> h.plan
        /\ Done(g, a) <=> g.plan
        /\ AtWork(h, a) <=> (a = "Bull" /\ AllReported(h)) \/ h.debate.turns # << >>
        /\ AtWork(g, a) <=> (a = "Bull" /\ AllReported(g)) \/ g.debate.turns # << >>
    BY <2>1, <2>2 DEF Done, AtWork
  <2>6. AllReported(g) => AllReported(h)
    BY DEF AllReported, Grown
  <2>7. CASE h.plan \/ h.debate.turns # << >>
    BY <1>2, <1>w, <2>1, <2>4, <2>5, <2>7
  <2>8. CASE ~h.plan /\ h.debate.turns = << >>
    <3>1. R[a] = A[a] /\ ~g.plan /\ g.debate.turns = << >>
      BY <1>2, <2>1, <2>8 DEF Grown
    <3>2. v[a] = IF a = "Bull" /\ AllReported(g) THEN "in_progress" ELSE "pending"
      BY <1>v, <2>1, <2>5, <3>1
    <3>3. A[a] = IF a = "Bull" /\ AllReported(h) THEN "in_progress" ELSE "pending"
      BY <1>1, <2>1, <2>6, <3>2
    <3> QED
      BY <1>w, <2>1, <2>4, <2>5, <2>8, <3>1, <3>3
  <2> QED
    BY <2>7, <2>8
<1>8. K["Trader"] = StatusesOf(h)["Trader"]
  <2>1. /\ "Trader" \in Agents /\ "Trader" \notin Planned /\ "Trader" \notin ResearchTeam
        /\ "Trader" \notin Riskers \cup {"PortfolioManager"}
    BY <1>n, AgentNames
  <2>2. K["Trader"] = T["Trader"]
    BY <1>4, <2>1 DEF Grown
  <2>3. /\ Done(h, "Trader") <=> h.proposal
        /\ Done(g, "Trader") <=> g.proposal
        /\ AtWork(h, "Trader") <=> h.plan
        /\ AtWork(g, "Trader") <=> g.plan
    BY <2>1 DEF Done, AtWork
  <2>4. R["Trader"] = IF h.plan THEN "in_progress" ELSE v["Trader"]
    BY <1>1, <1>2, <2>1
  <2>5. v["Trader"] = IF g.proposal THEN "completed" ELSE IF g.plan THEN "in_progress" ELSE "pending"
    BY <1>v, <2>1, <2>3
  <2>6. T["Trader"] = IF h.proposal THEN "completed" ELSE R["Trader"]
    BY <1>3, <2>1
  <2> QED
    BY <1>w, <2>1, <2>2, <2>3, <2>4, <2>5, <2>6 DEF Grown
<1>9. ASSUME NEW a \in Riskers \cup {"PortfolioManager"} PROVE K[a] = StatusesOf(h)[a]
  <2>1. a \in Agents /\ a \notin Planned /\ a \notin ResearchTeam \cup {"Trader", "Bull"}
    BY <1>n, AgentNames
  <2>2. /\ Done(h, a) <=> h.decision # Undecided
        /\ ~Done(g, a)
        /\ AtWork(h, a) <=> (a = "Aggressive" /\ h.proposal) \/ (a \in Riskers /\ a \in h.risk.spoken)
        /\ AtWork(g, a) <=> (a = "Aggressive" /\ g.proposal) \/ (a \in Riskers /\ a \in g.risk.spoken)
    BY <2>1 DEF Done, AtWork, Grown
  <2>3. R[a] = v[a]
    BY <1>1, <1>2, <2>1
  <2>4. v[a] = IF AtWork(g, a) THEN "in_progress" ELSE "pending"
    BY <1>v, <2>1, <2>2
  <2>5. h.proposal /\ R["Trader"] = "completed" => g.proposal
    <3>1. "Trader" \in Agents \ Planned /\ "Trader" \notin ResearchTeam
          /\ "Trader" \notin Riskers \cup {"PortfolioManager"}
      BY <1>n, AgentNames
    <3>2. R["Trader"] = IF h.plan THEN "in_progress" ELSE v["Trader"]
      BY <1>1, <1>2, <3>1
    <3>3. v["Trader"] = "completed" => g.proposal
      BY <1>v, <3>1 DEF Done
    <3> QED
      BY <3>2, <3>3
  <2>6. T[a] = IF AtWork(g, a) \/ (a = "Aggressive" /\ h.proposal) THEN "in_progress" ELSE "pending"
    BY <1>3, <2>1, <2>2, <2>3, <2>4, <2>5, AgentNames
  <2>7. a \in h.risk.spoken => a \in Riskers
    BY DEF Grown
  <2>8. AtWork(g, a) => AtWork(h, a)
    BY <2>2 DEF Grown
  <2> QED
    BY <1>4, <1>w, <2>1, <2>2, <2>6, <2>7, <2>8
<1>10. \A a \in Agents : K[a] = StatusesOf(h)[a]
  BY <1>6, <1>7, <1>8, <1>9, AgentNames
<1> QED
  BY <1>4, <1>5, <1>10 DEF StatusesOf, v

\* A run begins with the first analyst at work.
LEMMA OpeningShown == ASSUME NEW past PROVE Opened = StatusesOf(Opening(past))
<1> DEFINE g == Opening(past)
<1>1. /\ g.reports = {} /\ g.debate.turns = << >> /\ ~g.plan /\ ~g.proposal
      /\ g.decision = Undecided /\ g.risk.spoken = {}
  BY DEF Opening
<1> HIDE DEF g
<1>2. /\ Planned # {} /\ Plan[1] \in Planned
      /\ Planned \cap {"Bull", "Bear", "ResearchManager", "Trader", "Aggressive"} = {}
  BY PlanFacts, AgentNames DEF Planned
<1>3. ~AllReported(g)
  BY <1>1, <1>2 DEF AllReported
<1>4. \A a : ~Done(g, a)
  BY <1>1 DEF Done
<1>5. ASSUME NEW a \in Agents PROVE AtWork(g, a) <=> a = Plan[1]
  <2>1. AtWork(g, a) <=> a \in Planned /\ FirstToReport(g, a)
    BY <1>1, <1>3 DEF AtWork
  <2>2. FirstToReport(g, a) <=> a = Plan[1]
    <3>1. ASSUME NEW i \in 1 .. Len(Plan), \A j \in 1 .. (i - 1) : Plan[j] \in g.reports PROVE i = 1
      <4>1. 1 \notin 1 .. (i - 1)
        BY <1>1, <3>1
      <4> QED
        BY <4>1, PlanFacts
    <3>2. 1 \in 1 .. Len(Plan) /\ 1 .. (1 - 1) = {}
      BY PlanFacts
    <3> QED
      BY <1>1, <3>1, <3>2 DEF FirstToReport
  <2> QED
    BY <1>2, <2>1, <2>2
<1> QED
  BY <1>4, <1>5 DEF Opened, StatusesOf, g

LEMMA SpokenGrows ==
  ASSUME NEW g, GraphInv(g), NEW h \in Successors(g)
  PROVE  g.risk.spoken \subseteq h.risk.spoken
<1>1. g \in StatesWith(g.past) /\ g.at.kind \in Kinds
  BY DEF GraphInv, StatesWith
<1>2. CASE g.at.kind = "agent"
  BY <1>2, AnalystAnswers DEF Successors
<1>3. CASE g.at.kind \in {"tools", "clear"}
  BY <1>1, <1>3 DEF Successors, Tools, MsgClear, StatesWith
<1>4. CASE g.at.kind \in {"Bull", "Bear"}
  BY <1>1, <1>4 DEF Successors, BullResearcher, BearResearcher, AfterDebater, StatesWith
<1>5. CASE g.at.kind \in {"Aggressive", "Conservative", "Neutral"}
  <2>1. PICK who \in Riskers : h = AfterRisker([g EXCEPT !.risk = Argues(@, who)])
    BY <1>5 DEF Successors, AggressiveDebator, ConservativeDebator, NeutralDebator, Riskers
  <2>2. h.risk = Argues(g.risk, who)
    BY <1>1, <2>1 DEF AfterRisker, StatesWith
  <2> QED
    BY <2>2 DEF Argues
<1>6. CASE g.at.kind = "ResearchManager"
  <2>1. h = [g EXCEPT !.debate.response = "Manager", !.plan = TRUE, !.at = The("Trader")]
    BY <1>6 DEF Successors, ResearchManager
  <2> QED
    BY <1>1, <2>1 DEF StatesWith
<1>9. CASE g.at.kind = "Trader"
  <2>1. h = [g EXCEPT !.messages = Said(g.messages, "Trader", FALSE), !.proposal = TRUE,
                      !.at = The("Aggressive")]
    BY <1>9 DEF Successors, Trader
  <2> QED
    BY <1>1, <2>1 DEF StatesWith
<1>7. CASE g.at.kind = "PortfolioManager"
  <2>1. PICK d \in Decisions :
          h = [g EXCEPT !.risk.latest = "Judge", !.decision = d, !.at = The("END")]
    BY <1>7 DEF Successors, PortfolioManager
  <2>2. h.risk.spoken = g.risk.spoken
    BY <1>1, <2>1 DEF StatesWith
  <2> QED
    BY <2>2
<1>8. CASE g.at.kind = "END"
  BY <1>8 DEF Successors
<1> QED
  BY <1>1, <1>2, <1>3, <1>4, <1>5, <1>6, <1>7, <1>8, <1>9 DEF Kinds

LEMMA StepGrows ==
  ASSUME NEW g, GraphInv(g), Unreported(g), NEW h \in Successors(g)
  PROVE  Grown(g, h)
<1>1. GraphInv(h) /\ Continues(g, h)
  BY StepKeeps, SuccessorsStepOn DEF StepsOn
<1>2. h.risk.spoken \subseteq Riskers
  BY <1>1 DEF GraphInv, StatesWith
<1>3. ASSUME NEW S, NEW s \in Seq(S), NEW t \in Seq(S), IsPrefix(s, t), s # << >>
      PROVE  t # << >>
  <2>1. Len(s) <= Len(t) /\ Len(s) \in Nat /\ Len(t) \in Nat
    BY <1>3, PrefixStarts, LenProperties DEF Starts
  <2>2. Len(s) # 0
    BY <1>3, EmptySeq
  <2> QED
    BY <2>1, <2>2
<1>4. /\ g.debate.turns # << >> => h.debate.turns # << >>
      /\ g.risk.turns # << >> => h.risk.turns # << >>
  BY <1>1, <1>3, StateSpoken DEF Continues, Spoken
<1>5. g.decision = Undecided
  <2>1. g.at.kind # "END"
    BY DEF Successors
  <2> QED
    BY <2>1 DEF GraphInv, BeforeEnd
<1> QED
  BY <1>1, <1>2, <1>4, <1>5, SpokenGrows DEF Grown, Continues

\* A command-line run is in the graph or nowhere, and shows its last chunk.
CliShown(s) ==
  \/ run[s].phase = "idle"
  \/ InGraph(s) /\ run[s].view = StatusesOf(run[s].graph)
ViewInv == \A s \in Slots : Kind[s] = "cli" => CliShown(s)

\* What a step may do to a command-line run.
LEMMA CliRunSteps ==
  ASSUME IInv, LogInv, ViewInv, [Next]_vars, NEW s \in Slots, Kind[s] = "cli"
  PROVE  \/ run'[s] = run[s]
         \/ run'[s] = NoRun
         \/ ~InGraph(s) /\ \E job \in Jobs : run'[s] = Graphing(job, Opening({}))
         \/ /\ InGraph(s) /\ InGraph(s)'
            /\ \E h \in Successors(run[s].graph) :
                 /\ run'[s].graph = h /\ run'[s].view = Chunk(run[s].view, h)
                 /\ Grown(run[s].graph, h) /\ GraphInv(h) /\ h.at \in Nodes
<1>1. /\ run = [t \in Slots |-> run[t]] /\ run[s].phase \in {"idle", "graph"}
      /\ InGraph(s) => /\ InGraphRun(run[s]) /\ GraphInv(run[s].graph)
                       /\ Unreported(run[s].graph)
  BY InGraphFacts DEF IInv, LogInv, RunsInOrder, RunInOrder, Placed, InGraph, ViewInv, CliShown
<1>2. ASSUME NEW t \in Slots, NEW r, run' = [run EXCEPT ![t] = r]
      PROVE  run'[s] = IF t = s THEN r ELSE run[s]
  BY <1>1, <1>2
<1>3. CASE UNCHANGED vars \/ DayPasses
  BY <1>3 DEF vars, DayPasses
<1>4. ASSUME NEW t \in Slots, t # s, LibNext(t) \/ AppNext(t) \/ CliNext(t)
      PROVE  run'[s] = run[s]
  BY <1>1, <1>4 DEF LibNext, AppNext, CliNext, Propagate, ReadLog, ReplaceLog, BeginGraph, LibStep,
     LibFails, LogState, StoreDecision, ClearCheckpoint, Crash, FullDebate, AppStep, AppStops,
     ScoreAndStore, SessionComplete, RunAnalysis, CliStep, CliEnds
<1>5. ~LibNext(s) /\ ~AppNext(s)
  BY <1>1 DEF InGraph, Idle, LibNext, AppNext, Propagate, ReadLog, ReplaceLog, BeginGraph, LibStep,
     LibFails, LogState, StoreDecision, ClearCheckpoint, Crash, FullDebate, AppStep, AppStops,
     ScoreAndStore, SessionComplete
<1>6. ASSUME NEW job \in Jobs, RunAnalysis(s, job)
      PROVE  ~InGraph(s) /\ run'[s] = Graphing(job, Opening({}))
  BY <1>2, <1>6 DEF RunAnalysis, Idle, InGraph
<1>7. CASE CliStep(s)
  <2>1. PICK h \in Successors(run[s].graph) :
          run' = [run EXCEPT ![s].graph = h, ![s].steps = @ + 1, ![s].view = Chunk(@, h)]
    BY <1>7 DEF CliStep
  <2>2. run'[s] = [run[s] EXCEPT !.graph = h, !.steps = @ + 1, !.view = Chunk(@, h)] /\ InGraph(s)
    BY <1>1, <1>7, <2>1 DEF CliStep
  <2>3. InGraph(s)' /\ run'[s].graph = h /\ run'[s].view = Chunk(run[s].view, h)
    BY <1>1, <2>2 DEF InGraphRun, GraphRuns, InGraph
  <2>4. Grown(run[s].graph, h) /\ GraphInv(h) /\ h.at \in Nodes
    BY <1>1, <2>2, StepGrows, StepKeeps, SuccessorsStepOn DEF StepsOn
  <2> QED
    BY <2>2, <2>3, <2>4
<1>8. CASE CliEnds(s)
  BY <1>2, <1>8 DEF CliEnds
<1> QED
  BY <1>3, <1>4, <1>5, <1>6, <1>7, <1>8 DEF Next, CliNext

LEMMA ViewInductive == Spec => []ViewInv
<1>0. NoRun.phase = "idle"
  BY DEF NoRun
<1>1. Init => ViewInv
  BY <1>0 DEF Init, ViewInv, CliShown
<1>2. IInv /\ LogInv /\ ViewInv /\ [Next]_vars => ViewInv'
  <2> SUFFICES ASSUME IInv, LogInv, ViewInv, [Next]_vars, NEW s \in Slots, Kind[s] = "cli"
               PROVE  CliShown(s)'
    BY DEF ViewInv
  <2>1. CASE run'[s] = run[s] \/ run'[s] = NoRun
    BY <1>0, <2>1 DEF ViewInv, CliShown, InGraph
  <2>2. ASSUME NEW job \in Jobs, run'[s] = Graphing(job, Opening({})) PROVE CliShown(s)'
    BY <2>2, OpeningShown DEF Graphing, CliShown, InGraph
  <2>3. ASSUME InGraph(s), InGraph(s)', NEW h, run'[s].graph = h,
               run'[s].view = Chunk(run[s].view, h), Grown(run[s].graph, h)
        PROVE  CliShown(s)'
    <3>1. run[s].view = StatusesOf(run[s].graph)
      BY <2>3 DEF ViewInv, CliShown, InGraph
    <3> QED
      BY <2>3, <3>1, ChunkShows DEF CliShown
  <2> QED
    BY <2>1, <2>2, <2>3, CliRunSteps
<1> QED
  BY <1>1, <1>2, Inductive, LogInductive, PTL DEF Spec

\* A status goes forward with the graph.
LEMMA StatusForward ==
  ASSUME NEW g, NEW h, Grown(g, h) \/ h = g, NEW a \in Agents
  PROVE  StatusRank(StatusesOf(g)[a]) <= StatusRank(StatusesOf(h)[a])
<1>1. Done(g, a) => Done(h, a)
  BY DEF Done, Grown
<1>2. AtWork(g, a) => AtWork(h, a) \/ Done(h, a)
  <2>1. ASSUME Grown(g, h), a \in Planned, FirstToReport(g, a)
        PROVE  FirstToReport(h, a) \/ a \in h.reports
    BY <2>1 DEF FirstToReport, Grown
  <2>2. Grown(g, h) => (AllReported(g) => AllReported(h))
    BY DEF AllReported, Grown
  <2>3. CASE Grown(g, h)
    <3>1. CASE a \in Planned /\ FirstToReport(g, a)
      BY <2>1, <2>3, <3>1 DEF AtWork, Done
    <3>2. CASE ~(a \in Planned /\ FirstToReport(g, a))
      BY <2>2, <2>3, <3>2 DEF AtWork, Grown
    <3> QED
      BY <3>1, <3>2
  <2> QED
    BY <2>3
<1>3. /\ StatusesOf(g)[a] = IF Done(g, a) THEN "completed" ELSE IF AtWork(g, a) THEN "in_progress" ELSE "pending"
      /\ StatusesOf(h)[a] = IF Done(h, a) THEN "completed" ELSE IF AtWork(h, a) THEN "in_progress" ELSE "pending"
  BY DEF StatusesOf
<1> QED
  BY <1>1, <1>2, <1>3 DEF StatusRank

\* The reports that count as done, and when.
LEMMA ReportsDone ==
  ASSUME NEW g
  PROVE  \A a : a \in DoneReports(StatusesOf(g), g) <=>
           \/ a \in Planned /\ a \in g.reports
           \/ a = "ResearchManager" /\ g.debate.turns # << >> /\ g.plan
           \/ a = "Trader" /\ g.proposal
           \/ a = "PortfolioManager" /\ g.risk.turns # << >> /\ g.decision # Undecided
<1>1. \A a \in Agents : StatusesOf(g)[a] = "completed" <=> Done(g, a)
  BY DEF StatusesOf
<1>2. /\ Planned \subseteq Agents
      /\ Planned \cap {"ResearchManager", "Trader", "PortfolioManager"} = {}
      /\ {"ResearchManager", "Trader", "PortfolioManager"} \subseteq Agents
  BY AgentNames
<1>3. \A a \in Planned : a \in g.reports => Done(g, a)
  BY DEF Done
<1>4. /\ Done(g, "ResearchManager") <=> g.plan
      /\ Done(g, "Trader") <=> g.proposal
      /\ Done(g, "PortfolioManager") <=> g.decision # Undecided
  BY <1>2, AgentNames DEF Done
<1> QED
  BY <1>1, <1>2, <1>3, <1>4 DEF DoneReports

\* What the command line shows only goes forward, and a report counts as done
\* only when its last agent has spoken, though the loop sets agents back to work
\* on every chunk.
THEOREM ShownForward == Spec => ViewForward
<1> DEFINE Forward(s) ==
             Kind[s] = "cli" /\ InGraph(s) /\ InGraph(s)' =>
               /\ \A a \in Agents : StatusRank(run[s].view[a]) <= StatusRank(run'[s].view[a])
               /\ DoneReports(run[s].view, run[s].graph) \subseteq DoneReports(run'[s].view, run'[s].graph)
               /\ "ResearchManager" \in DoneReports(run'[s].view, run'[s].graph) => run'[s].graph.plan
               /\ "PortfolioManager" \in DoneReports(run'[s].view, run'[s].graph)
                    => Ended(run'[s].graph)
<1>1. ASSUME IInv, LogInv, ViewInv, ViewInv', [Next]_vars, NEW s \in Slots PROVE Forward(s)
  <2> SUFFICES ASSUME Kind[s] = "cli", InGraph(s), InGraph(s)'
               PROVE  /\ \A a \in Agents : StatusRank(run[s].view[a]) <= StatusRank(run'[s].view[a])
                      /\ DoneReports(run[s].view, run[s].graph)
                            \subseteq DoneReports(run'[s].view, run'[s].graph)
                      /\ "ResearchManager" \in DoneReports(run'[s].view, run'[s].graph)
                           => run'[s].graph.plan
                      /\ "PortfolioManager" \in DoneReports(run'[s].view, run'[s].graph)
                           => Ended(run'[s].graph)
    OBVIOUS
  <2> DEFINE g == run[s].graph
             h == run'[s].graph
  <2>1. run[s].view = StatusesOf(g) /\ run'[s].view = StatusesOf(h)
    BY <1>1 DEF ViewInv, CliShown, InGraph
  <2>2. (h = g \/ Grown(g, h)) /\ GraphInv(h) /\ h.at \in Nodes
    <3>1. CASE run'[s] = run[s]
      BY <1>1, <3>1, InGraphFacts DEF LogInv, RunsInOrder, RunInOrder, Placed, InGraph
    <3>2. run'[s] # NoRun
      BY DEF InGraph, NoRun
    <3> QED
      BY <1>1, <3>1, <3>2, CliRunSteps
  <2> HIDE DEF g, h
  <2>3. DoneReports(StatusesOf(g), g) \subseteq DoneReports(StatusesOf(h), h)
    BY <2>2, ReportsDone DEF Grown
  <2>4. "ResearchManager" \in DoneReports(StatusesOf(h), h) => h.plan
    BY ReportsDone, AgentNames
  <2>5. "PortfolioManager" \in DoneReports(StatusesOf(h), h) => Ended(h)
    <3>1. "PortfolioManager" \in DoneReports(StatusesOf(h), h) => h.decision # Undecided
      BY ReportsDone, AgentNames
    <3>2. h.decision # Undecided => h.at.kind = "END"
      BY <2>2 DEF GraphInv, BeforeEnd
    <3>3. h.at.kind = "END" => h.at = The("END")
      BY <2>2 DEF Nodes, Node, The
    <3> QED
      BY <3>1, <3>2, <3>3 DEF Ended
  <2> QED
    BY <2>1, <2>2, <2>3, <2>4, <2>5, StatusForward DEF g, h
<1>2. IInv /\ LogInv /\ ViewInv /\ ViewInv' /\ [Next]_vars => \A s \in Slots : Forward(s)
  BY <1>1
<1>3. Spec => [][\A s \in Slots : Forward(s)]_vars
  BY <1>2, Inductive, LogInductive, ViewInductive, PTL DEF Spec
<1> QED
  BY <1>3 DEF ViewForward
=============================================================================
