------------------------------ MODULE BatchRunner ------------------------------
(***************************************************************************)
(* The watchlist's batch runner (desktop/src/components/BatchRunner.tsx),  *)
(* composed with runAnalysis() of the renderer and the sign-in of the main *)
(* process.  Each visit of the page mounts an instance with refs of its    *)
(* own; leaving the page unmounts it, and its loop runs on until it looks. *)
(*                                                                         *)
(* The engine is the environment: it reserves or blocks, takes a stream or *)
(* not, completes a session or reports an error, and closes the stream.    *)
(***************************************************************************)
EXTENDS OpenAILogin, Sequences

CONSTANTS
  Visits,     \* bound: visits of the page, 1..n
  Queue,      \* the watchlist's length
  Manual      \* the provider chosen on the Analyze page, or Absent

ASSUME VisitsAssumption == Visits \subseteq Nat \ {0}
ASSUME QueueAssumption == Queue \in Nat \ {0}

VARIABLES
  page,       \* the visit that is mounted, or 0
  batch       \* the instance of each visit

vars == <<loginVars, page, batch>>

Pending == [i \in 1..Queue |-> "pending"]

\* at: where the loop stands; mounted, stop, handle: its refs (handle is the
\* stream it may close); stream: what the stream does; late: history, streams
\* opened after the loop was told to stop.
Unvisited ==
  [at |-> "unvisited", mounted |-> FALSE, stop |-> FALSE, handle |-> FALSE,
   stream |-> "none", creds |-> "none", auth |-> "none", provider |-> "none",
   rows |-> Pending, idx |-> 0, late |-> 0]

Gone == [Unvisited EXCEPT !.at = "gone"]

\* A batch is over: the locals of its loop are gone, its table is still shown,
\* if there is a page to show it on.
AtRest(b, rows) == IF b.mounted
                   THEN [Unvisited EXCEPT !.at = "idle", !.mounted = TRUE, !.rows = rows]
                   ELSE Gone

Init ==
  /\ LoginInit
  /\ page = 0
  /\ batch = [v \in Visits |-> Unvisited]

Loops == {"choosing", "next", "config", "refreshing", "reserving",
          "connecting", "streaming"}
Running(v) == batch[v].at \in Loops

(* Mounting and unmounting -------------------------------------------------*)
Mount(v) ==
  /\ page = 0 /\ batch[v].at = "unvisited"
  /\ \A u \in Visits : u < v => batch[u].at # "unvisited"
  /\ page' = v
  /\ batch' = [batch EXCEPT ![v].at = "idle", ![v].mounted = TRUE]
  /\ UNCHANGED loginVars

\* A stream that has a handle can be closed; one that is being set up cannot.
Closed(b) == IF b.handle THEN [b EXCEPT !.stream = "closing"] ELSE b

Unmount(v) ==
  /\ page = v /\ page' = 0
  /\ batch' = [batch EXCEPT ![v] =
       IF @.at \in Loops
       THEN [Closed(@) EXCEPT !.mounted = FALSE, !.stop = TRUE, !.rows = Pending]
       ELSE Gone]
  /\ UNCHANGED loginVars

OnStop(v) ==
  /\ page = v /\ Running(v) /\ ~batch[v].stop
  /\ batch' = [batch EXCEPT ![v] = [Closed(@) EXCEPT !.stop = TRUE]]
  /\ UNCHANGED <<loginVars, page>>

(* The loop ----------------------------------------------------------------*)
Goes(v, from, new) == /\ batch[v].at = from
                      /\ batch' = [batch EXCEPT ![v] = new]

OnRun(v) ==
  /\ page = v
  /\ Goes(v, "idle", [batch[v] EXCEPT !.at = "choosing", !.stop = FALSE])
  /\ UNCHANGED <<loginVars, page>>

(* resolveActiveProvider: an error counts as nothing stored *)
HasKey(name) == CanPersist /\ name \in ListSecrets(vault)
Connected == LoadStored # Absent
Configured == {p \in {"openai", "other"} : HasKey(p) \/ (p = "openai" /\ Connected)}
Active == IF Manual \in Configured THEN Manual
          ELSE IF "openai" \in Configured THEN "openai" ELSE "other"
ActiveAuth == IF Connected THEN "oauth" ELSE "api_key"

NoProvider(v) ==
  /\ Configured = {}
  /\ Goes(v, "choosing", AtRest(batch[v], batch[v].rows))
  /\ UNCHANGED <<loginVars, page>>

ResolveActiveProvider(v) ==
  /\ Configured # {}
  /\ Goes(v, "choosing", [batch[v] EXCEPT !.at = "next", !.provider = Active,
                            !.auth = ActiveAuth, !.rows = Pending, !.idx = 1])
  /\ UNCHANGED <<loginVars, page>>

\* Nothing is shown on a page that was left.
Row(v, status) ==
  IF batch[v].mounted THEN [batch[v].rows EXCEPT ![batch[v].idx] = status] ELSE Pending

(* The end of the list comes before the two checks; a loop that is no longer
   mounted returns without a word. *)
\* Mutant: the stop request is not looked at.
NextUnasked(v) ==
  LET b == batch[v]
      finished == b.idx > Queue
  IN  /\ Goes(v, "next",
           IF finished \/ ~b.mounted THEN AtRest(b, b.rows)
           ELSE [b EXCEPT !.at = "config", !.rows = Row(v, "running")])
      /\ UNCHANGED <<loginVars, page>>
NextTicker(v) ==
  LET b == batch[v]
      finished == b.idx > Queue
      skipped == [i \in 1..Queue |-> IF i >= b.idx THEN "skipped" ELSE b.rows[i]]
  IN  /\ Goes(v, "next",
           IF finished \/ ~b.mounted THEN AtRest(b, b.rows)
           ELSE IF b.stop THEN AtRest(b, skipped)
           ELSE [b EXCEPT !.at = "config", !.rows = Row(v, "running")])
      /\ UNCHANGED <<loginVars, page>>

(* resolveProviderConfig.  Without credentials the OpenAI sign-in falls back to
   the API key, and a provider without a key to the stub debate. *)
Keyed(v) == IF HasKey(batch[v].provider) THEN "api_key" ELSE "stub"
ByLogin(v) == batch[v].provider = "openai" /\ batch[v].auth = "oauth"

Configure(v) ==
  /\ ~(ByLogin(v) /\ Stale)
  /\ Goes(v, "config",
       [batch[v] EXCEPT !.at = "reserving",
                        !.creds = IF ByLogin(v) /\ LoadStored # Absent THEN "oauth" ELSE Keyed(v)])
  /\ UNCHANGED <<loginVars, page>>

ConfigureAwaits(v) ==
  /\ ByLogin(v) /\ AwaitRefresh
  /\ Goes(v, "config", [batch[v] EXCEPT !.at = "refreshing"])
  /\ UNCHANGED page

\* Mutant: only the loop of the page that is shown is woken.
RefreshSettlesShown ==
  /\ \E result \in Credentials : RefreshEnds(result)
  /\ batch' = [v \in Visits |->
       IF batch[v].at = "refreshing" /\ v = page
       THEN [batch[v] EXCEPT !.at = "reserving", !.creds = "oauth"] ELSE batch[v]]
  /\ UNCHANGED page
(* Everyone who waits for the exchange goes on with what came of it. *)
RefreshSettles ==
  /\ \E result \in Credentials : RefreshEnds(result)
  /\ batch' = [v \in Visits |->
       IF batch[v].at = "refreshing"
       THEN [batch[v] EXCEPT !.at = "reserving", !.creds = "oauth"] ELSE batch[v]]
  /\ UNCHANGED page

\* Mutant: a ticker that failed is tried again.
FailedAgain(v) == [batch[v] EXCEPT !.at = "next", !.rows = Row(v, "failed"),
                                   !.stream = "none", !.handle = FALSE]
\* The row of a run that threw; the loop goes on.
Failed(v) == [batch[v] EXCEPT !.at = "next", !.rows = Row(v, "failed"), !.idx = @ + 1,
                              !.stream = "none", !.handle = FALSE]

(* reserveCostGuard: a stub run reserves nothing. *)
Reserves(v) ==
  /\ Goes(v, "reserving", [batch[v] EXCEPT !.at = "connecting"])
  /\ UNCHANGED <<loginVars, page>>

(* onCostBlocked answers false: the batch is over, what was queued stays so. *)
CostBlocked(v) ==
  /\ batch[v].creds # "stub"
  /\ Goes(v, "reserving", AtRest(batch[v], Row(v, "failed")))
  /\ UNCHANGED <<loginVars, page>>

(* The engine is not there: the reserve or the handshake throws. *)
Throws(v) ==
  /\ \E at \in {"reserving", "connecting"} : Goes(v, at, Failed(v))
  /\ UNCHANGED <<loginVars, page>>

(* streamDebate resolves: only now the loop has a handle. *)
Connects(v) ==
  /\ Goes(v, "connecting",
       [batch[v] EXCEPT !.at = "streaming", !.stream = "open", !.handle = TRUE,
                        !.late = IF batch[v].stop THEN @ + 1 ELSE @])
  /\ UNCHANGED <<loginVars, page>>

(* done resolves: codes 1000 and 1005 are a clean end, whoever closed and
   whatever the engine had to say.  A loop that was unmounted meanwhile
   returns. *)
StreamEnds(v) ==
  /\ Goes(v, "streaming",
       IF batch[v].mounted
       THEN [batch[v] EXCEPT !.at = "next", !.rows = Row(v, "done"), !.idx = @ + 1,
                             !.stream = "none", !.handle = FALSE]
       ELSE Gone)
  /\ UNCHANGED <<loginVars, page>>

(* done rejects: the engine refused the run, or died. *)
StreamBreaks(v) ==
  /\ batch[v].stream # "closing"
  /\ Goes(v, "streaming", Failed(v))
  /\ UNCHANGED <<loginVars, page>>

LoopStep(v) ==
  \/ NoProvider(v) \/ ResolveActiveProvider(v) \/ NextTicker(v)
  \/ Configure(v) \/ ConfigureAwaits(v)
  \/ Reserves(v) \/ CostBlocked(v) \/ Throws(v) \/ Connects(v)
  \/ StreamEnds(v) \/ StreamBreaks(v)

Next ==
  \/ LoginStep /\ UNCHANGED <<page, batch>>
  \/ RefreshSettles
  \/ \E v \in Visits : Mount(v) \/ Unmount(v) \/ OnStop(v) \/ OnRun(v) \/ LoopStep(v)

Spec == Init /\ [][Next]_vars

\* Requests are answered and streams come to an end.  Users owe nothing.
FairSpec == Spec /\ WF_vars(RefreshSettles) /\ \A v \in Visits : WF_vars(LoopStep(v))

(* Properties --------------------------------------------------------------*)
Batches ==
  [at : Loops \cup {"unvisited", "idle", "gone"}, mounted : BOOLEAN, stop : BOOLEAN,
   handle : BOOLEAN, stream : {"none", "open", "closing"},
   creds : {"none", "oauth", "api_key", "stub"}, auth : {"none", "oauth", "api_key"},
   provider : {"none", "openai", "other"},
   rows : [1..Queue -> {"pending", "running", "done", "failed", "skipped"}],
   idx : 0 .. Queue + 1, late : Nat]

\* Types; a loop in its table is at a row, has a handle only for a stream that
\* is there, and waits only for an exchange that is under way.
TypeOK ==
  /\ LoginTypeOK
  /\ page \in Visits \cup {0}
  /\ batch \in [Visits -> Batches]
  /\ \A v \in Visits :
       /\ batch[v].handle <=> batch[v].at = "streaming"
       /\ batch[v].at \in Loops \ {"choosing", "next"} => batch[v].idx \in 1..Queue
       /\ batch[v].at = "refreshing" => inflight # Absent

\* Stop, or leaving the page, ends a batch within the ticker at hand, whatever
\* its loop awaits at that moment: at most the one stream that was being set
\* up is still opened.
StopLeavesOne == \A v \in Visits : batch[v].late <= 1

\* Every batch ends, also one that waits for somebody else's token exchange.
BatchEnds == \A v \in Visits : Running(v) ~> ~Running(v)
=============================================================================
