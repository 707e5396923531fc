------------------------------ MODULE DebateRuns ------------------------------
(***************************************************************************)
(* A debate from the user's click to the settled ledger, composed with the *)
(* ledger of CostGuard: runAnalysis() in the renderer (desktop/src/lib/    *)
(* run-analysis.ts) reserves and opens the stream; the `stream` handler of *)
(* engine/server.py admits the run, drives live_debate() (free) or         *)
(* full_debate() (Pro), and stores the session.                            *)
(*                                                                         *)
(* The engine is one event loop: a step is what runs between two awaits.   *)
(*                                                                         *)
(*   idle -> asking -> held -> opening -> debating -> completing -> ended  *)
(*                                            \-> closing -> ended         *)
(*                                                                         *)
(*   asking      the renderer shows the cost modal of a refused reserve    *)
(*   held        the renderer holds a reservation_id, stream not open yet  *)
(*   opening     the handler fetches market data and checks the request    *)
(*   unavailable the Pro engine did not import, run.error is being sent    *)
(*   debating    the handler iterates the debate generator                 *)
(*   completing  session.complete was sent and captured                    *)
(*   closing     the client left; the generator's finally is still to run  *)
(*   unsettled   over, but the database refused to finalize the reservation*)
(*   killed      the engine process died under it                          *)
(***************************************************************************)
EXTENDS CostGuard

CONSTANTS
  Requests,     \* the requests users make
  Overrun,      \* by how much a run may cost more than its worst case
  UserActions,  \* which of "override", "config", "delete" users perform
  Faults        \* which of "crash", "leave", "db" happen

Request == [auth : AuthKinds \cup {"none"}, pro : BOOLEAN, est : Nat]

ASSUME RequestsAssumption ==
  /\ Requests \subseteq Request
  \* worst_case_reservation() is 0 for free auth; a stub run has no price.
  /\ \A q \in Requests : q.auth # "api_key" => q.est = 0
ASSUME OverrunAssumption == Overrun \in Nat
ASSUME ChoicesAssumption ==
  /\ UserActions \subseteq {"override", "config", "delete"}
  /\ Faults \subseteq {"crash", "leave", "db"}

VARIABLES
  request,    \* what each run asks for
  pc,         \* where each run is
  spent,      \* dollars the run's provider calls have cost so far
  engineUp,   \* the engine process is alive
  waived      \* history: an event outside the cap check moved the window's
              \* spend or its cap since the window began

runVars    == <<request, pc, spent, engineUp>>
ledgerVars == <<now, config, resv, sess>>
vars       == <<now, config, resv, sess, request, pc, spent, engineUp, waived>>

Places == {"idle", "asking", "held", "opening", "unavailable", "debating",
           "completing", "closing", "unsettled", "killed", "ended"}

InEngine == {"opening", "unavailable", "debating", "completing", "closing"}
Running  == {"debating", "completing", "closing"}

TypeOK ==
  /\ LedgerTypeOK
  /\ request \in [Runs -> Requests]
  /\ pc \in [Runs -> Places]
  /\ spent \in [Runs -> Nat]
  /\ engineUp \in BOOLEAN
  /\ waived \in [Windows -> BOOLEAN]

Live(r) == request[r].auth \in AuthKinds

Goes(r, from, to) == pc[r] = from /\ pc' = [pc EXCEPT ![r] = to]

Init ==
  /\ LedgerInit
  /\ request \in [Runs -> Requests]
  /\ pc = [r \in Runs |-> "idle"]
  /\ spent = [r \in Runs |-> 0]
  /\ engineUp = TRUE
  /\ waived = [w \in Windows |-> FALSE]

WaiveAll == waived' = [w \in Windows |-> TRUE]

-------------------------------------------------------------------------------
(***************************************************************************)
(* The renderer: runAnalysis().                                            *)
(***************************************************************************)
RendererReserve(r) ==
  /\ engineUp /\ Live(r)
  /\ MayReserve(request[r].auth, request[r].est, FALSE)
  /\ resv' = Reserved(r, request[r].auth, request[r].est, FALSE)
  /\ Goes(r, "idle", "held")
  /\ UNCHANGED <<now, config, sess, request, spent, engineUp, waived>>

\* 402: onCostBlocked() opens the modal and runAnalysis() awaits the answer.
RendererRefused(r) ==
  /\ engineUp /\ Live(r)
  /\ ~MayReserve(request[r].auth, request[r].est, FALSE)
  /\ resv' = Swept(resv)
  /\ Goes(r, "idle", "asking")
  /\ UNCHANGED <<now, config, sess, request, spent, engineUp, waived>>

Override(r) ==
  /\ "override" \in UserActions
  /\ engineUp /\ Live(r)
  /\ resv' = Reserved(r, request[r].auth, request[r].est, TRUE)
  /\ Goes(r, "asking", "held")
  /\ WaiveAll
  /\ UNCHANGED <<now, config, sess, request, spent, engineUp>>

Cancel(r) ==
  /\ Goes(r, "asking", "ended")
  /\ UNCHANGED <<ledgerVars, request, spent, engineUp, waived>>

\* loadWebhooksForStream() or streamDebate() throws, or the window is closed:
\* nothing tells the engine that the reservation will not be used.
Abandon(r) ==
  /\ "leave" \in Faults
  /\ Goes(r, "held", "ended")
  /\ UNCHANGED <<ledgerVars, request, spent, engineUp, waived>>

\* The start frame arrives: with a reservation_id, or without one (a stub
\* run, a renderer that does not pre-reserve).  The id is not looked up.
OpenStream(r) ==
  /\ engineUp
  /\ Goes(r, "held", "opening") \/ Goes(r, "idle", "opening")
  /\ UNCHANGED <<ledgerVars, request, spent, engineUp, waived>>

-------------------------------------------------------------------------------
(***************************************************************************)
(* The `stream` handler before the generator exists.                       *)
(***************************************************************************)
HasReservation(r) == resv[r].status # "none"

\* WebSocketDisconnect while the data card or the headlines are sent.
DropWhileOpening(r) ==
  /\ "leave" \in Faults
  /\ Goes(r, "opening", "ended")
  /\ UNCHANGED <<ledgerVars, request, spent, engineUp, waived>>

\* Pro with local auth, or a pro_config _build_pro_library_config refuses.
RejectPro(r) ==
  /\ Live(r) /\ request[r].pro
  /\ Goes(r, "opening", "ended")
  /\ UNCHANGED <<ledgerVars, request, spent, engineUp, waived>>

\* Mutant: full_debate is started without the auto-reserve.
AdmittedUnlessPro(r) ==
  IF ~Live(r) \/ HasReservation(r) \/ request[r].pro THEN resv
  ELSE Reserved(r, request[r].auth, request[r].est, FALSE)

\* The reservation the run goes on with: its own, or the auto-reserve.
AdmittedLedger(r) ==
  IF ~Live(r) \/ HasReservation(r) THEN resv
  ELSE Reserved(r, request[r].auth, request[r].est, FALSE)

MayStart(r) ==
  \/ ~Live(r)
  \/ /\ ~(request[r].pro /\ request[r].auth = "local")
     /\ HasReservation(r) \/ MayReserve(request[r].auth, request[r].est, FALSE)

StartDebate(r) ==
  /\ MayStart(r)
  /\ resv' = AdmittedLedger(r)
  /\ Goes(r, "opening", "debating")
  /\ UNCHANGED <<now, config, sess, request, spent, engineUp, waived>>

\* cost.blocked, close 1008.
BlockStream(r) ==
  /\ Live(r) /\ ~HasReservation(r)
  /\ ~MayReserve(request[r].auth, request[r].est, FALSE)
  /\ ~(request[r].pro /\ request[r].auth = "local")
  /\ resv' = Swept(resv)
  /\ Goes(r, "opening", "ended")
  /\ UNCHANGED <<now, config, sess, request, spent, engineUp, waived>>

\* live_debate: adapter.open() raises outside its try, the reservation stays.
AdapterFails(r) ==
  /\ Live(r) /\ ~request[r].pro /\ MayStart(r)
  /\ resv' = AdmittedLedger(r)
  /\ Goes(r, "opening", "ended")
  /\ UNCHANGED <<now, config, sess, request, spent, engineUp, waived>>

-------------------------------------------------------------------------------
(***************************************************************************)
(* The Pro engine's dependencies fail to load: the run is reserved, the    *)
(* error is sent, and only then is the reservation released.               *)
(***************************************************************************)
ProUnavailable(r) ==
  /\ Live(r) /\ request[r].pro /\ MayStart(r)
  /\ resv' = AdmittedLedger(r)
  /\ Goes(r, "opening", "unavailable")
  /\ UNCHANGED <<now, config, sess, request, spent, engineUp, waived>>

ReleaseUnavailable(r) ==
  /\ resv' = Finalized(r, 0)
  /\ Goes(r, "unavailable", "ended")
  /\ UNCHANGED <<now, config, sess, request, spent, engineUp, waived>>

\* WebSocketDisconnect out of that send skips the release.
DropUnavailable(r) ==
  /\ "leave" \in Faults
  /\ Goes(r, "unavailable", "ended")
  /\ UNCHANGED <<ledgerVars, request, spent, engineUp, waived>>

-------------------------------------------------------------------------------
(***************************************************************************)
(* The debate.                                                             *)
(***************************************************************************)
\* An agent answers and its tokens are metered; the price of a run's answers
\* is bounded by its worst case plus Overrun, free runs cost nothing.
AgentTurn(r) ==
  /\ pc[r] = "debating"
  /\ request[r].auth = "api_key"
  /\ spent[r] < request[r].est + Overrun
  /\ spent' = [spent EXCEPT ![r] = @ + 1]
  /\ UNCHANGED <<ledgerVars, request, pc, engineUp, waived>>

\* session.complete goes out.
Complete(r) ==
  /\ Goes(r, "debating", "completing")
  /\ UNCHANGED <<ledgerVars, request, spent, engineUp, waived>>

\* Mutant: the generator has no finally.
DisconnectUnfinished(r) ==
  /\ "leave" \in Faults
  /\ Goes(r, "debating", "ended")
  /\ UNCHANGED <<ledgerVars, request, spent, engineUp, waived>>

\* A send inside the loop raises WebSocketDisconnect.  The handler returns;
\* the suspended generator is closed by a task of its own, later.
Disconnect(r) ==
  /\ "leave" \in Faults
  /\ Goes(r, "debating", "closing")
  /\ UNCHANGED <<ledgerVars, request, spent, engineUp, waived>>

\* Mutant: a run that cost nothing is not finalized.
FinalizeIfSpent(r, written, next) ==
  /\ written \/ "db" \in Faults
  /\ IF written
       THEN /\ resv' = IF HasReservation(r) /\ spent[r] > 0
                         THEN Finalized(r, spent[r]) ELSE resv
            /\ pc' = [pc EXCEPT ![r] = next]
       ELSE /\ resv' = resv
            /\ pc' = [pc EXCEPT ![r] = "unsettled"]

\* finalize_reservation() is best-effort: a database error is logged and the
\* row stays open.  A stub run has nothing to finalize.
Finalize(r, written, next) ==
  /\ written \/ "db" \in Faults
  /\ IF written
       THEN /\ resv' = IF HasReservation(r) THEN Finalized(r, spent[r]) ELSE resv
            /\ pc' = [pc EXCEPT ![r] = next]
       ELSE /\ resv' = resv
            /\ pc' = [pc EXCEPT ![r] = "unsettled"]

\* run.token_cap or run.error ends a Pro stream without session.complete: its
\* finally finalizes, and write_session_from_events() finds nothing to store.
AbortRun(r) ==
  /\ request[r].pro /\ Live(r)
  /\ pc[r] = "debating"
  /\ \E written \in BOOLEAN : Finalize(r, written, "ended")
  /\ UNCHANGED <<now, config, sess, request, spent, engineUp, waived>>

\* Mutant: the abandoned generator waits for a hold that may have lapsed.
UnwindWhileHeld(r) ==
  /\ pc[r] = "closing"
  /\ resv[r].status = "open"
  /\ \E written \in BOOLEAN : Finalize(r, written, "ended")
  /\ UNCHANGED <<now, config, sess, request, spent, engineUp, waived>>

\* The abandoned generator's finally.
Unwind(r) ==
  /\ pc[r] = "closing"
  /\ \E written \in BOOLEAN : Finalize(r, written, "ended")
  /\ UNCHANGED <<now, config, sess, request, spent, engineUp, waived>>

\* What storing r's session adds to w beyond what its reservation held there.
Lapse(r, written, w) ==
  \/ ~written
  \/ ~HoldCounts(resv, r, w)
  \/ spent[r] > request[r].est

\* The generator ends: its finally finalizes, and, with no await in between,
\* _persist_session_safe() stores the session (best-effort too).
Settle(r) ==
  /\ pc[r] = "completing"
  /\ \E written, stored \in BOOLEAN :
       /\ Finalize(r, written, "ended")
       /\ stored \/ "db" \in Faults
       /\ sess' = IF stored
                   THEN [sess EXCEPT ![r] = SessionRow(request[r].auth, spent[r])]
                   ELSE sess
       /\ waived' = [w \in Windows |->
                       waived[w] \/ (stored /\ Live(r) /\ Lapse(r, written, w))]
  /\ UNCHANGED <<now, config, request, spent, engineUp>>

-------------------------------------------------------------------------------
(***************************************************************************)
(* The engine process, the user's settings and history, the clock.         *)
(***************************************************************************)
Crash ==
  /\ "crash" \in Faults
  /\ engineUp
  /\ engineUp' = FALSE
  /\ pc' = [r \in Runs |-> IF pc[r] \in InEngine THEN "killed" ELSE pc[r]]
  /\ UNCHANGED <<ledgerVars, request, spent, waived>>

\* The first call of the new process runs initialize(), which sweeps.
Restart ==
  /\ ~engineUp
  /\ engineUp' = TRUE
  /\ resv' = Swept(resv)
  /\ UNCHANGED <<now, config, sess, request, pc, spent, waived>>

Poll ==
  /\ engineUp
  /\ PollLedger
  /\ UNCHANGED <<runVars, waived>>

UpdateConfig(c) ==
  /\ "config" \in UserActions
  /\ engineUp
  /\ SetConfig(c)
  /\ WaiveAll
  /\ UNCHANGED runVars

DeleteSession(r) ==
  /\ "delete" \in UserActions
  /\ engineUp
  /\ DropSession(r)
  /\ UNCHANGED <<runVars, waived>>

Tick ==
  /\ AdvanceClock
  /\ waived' = [w \in Windows |-> waived[w] /\ WindowStart(w)' = WindowStart(w)]
  /\ UNCHANGED runVars

-------------------------------------------------------------------------------
RendererStep(r) ==
  \/ RendererReserve(r) \/ RendererRefused(r) \/ Override(r) \/ Cancel(r)
  \/ Abandon(r) \/ OpenStream(r)

HandlerStep(r) ==
  \/ DropWhileOpening(r) \/ RejectPro(r) \/ StartDebate(r) \/ BlockStream(r)
  \/ AdapterFails(r) \/ ProUnavailable(r) \/ ReleaseUnavailable(r)
  \/ DropUnavailable(r)

DebateStep(r) ==
  \/ AgentTurn(r) \/ Complete(r) \/ Disconnect(r) \/ AbortRun(r) \/ Unwind(r)
  \/ Settle(r)

SystemStep ==
  \/ Crash \/ Restart \/ Poll \/ Tick
  \/ \E c \in Configs : UpdateConfig(c)
  \/ \E r \in Runs : DeleteSession(r)

Next ==
  \/ \E r \in Runs : RendererStep(r) \/ HandlerStep(r) \/ DebateStep(r)
  \/ SystemStep

Spec == Init /\ [][Next]_vars

\* The event loop runs every task that can go on, provider calls time out, and
\* time passes.  Users, crashes and the renderer owe nothing.
Fairness ==
  /\ WF_vars(Tick)
  /\ \A r \in Runs : WF_vars(HandlerStep(r) \/ DebateStep(r))

FairSpec == Spec /\ Fairness

-------------------------------------------------------------------------------
(***************************************************************************)
(* Safety.                                                                 *)
(***************************************************************************)
\* The strengthening that makes the two properties below inductive: a lapsed
\* row is past its expiry; a run waiting for its first reserve has no row; a
\* run still under way is neither billed nor stored; a live debate has a row;
\* only a billed row has a cost; no row is dated in the future.
Bookkeeping ==
  \A r \in Runs :
    /\ resv[r].status = "swept" => resv[r].expires < now
    /\ pc[r] \in {"idle", "asking"} => resv[r].status = "none"
    /\ pc[r] \notin {"ended", "unsettled"} => resv[r].status # "billed" /\ ~sess[r].stored
    /\ pc[r] \in Running /\ Live(r) => resv[r].status # "none"
    /\ resv[r].status # "billed" => resv[r].cost = 0
    /\ resv[r].created <= now /\ sess[r].created <= now

\* A live debate keeps its hold on the budget until it is over or its TTL has
\* passed: no other run's reserve, sweep, finalize or crash recovery frees it.
HeldWhileRunning ==
  \A r \in Runs :
    pc[r] \in Running /\ Live(r) => resv[r].status = "open" \/ resv[r].expires < now

\* A stored session is never in the ledger next to its own open reservation,
\* unless the database refused to finalize that reservation.
NoDoubleCount ==
  \A r \in Runs : sess[r].stored /\ resv[r].status = "open" => pc[r] = "unsettled"

\* Whatever debates run side by side, a window's spend stays within its cap
\* while the guard is on, unless an override, a change of the caps, a debate
\* that outlived its hold or cost more than its worst case, or a failed
\* finalize went past the check since the window began.
CapRespected ==
  \A w \in Windows :
    config.enabled /\ config.cap[w] > 0 /\ ~waived[w] => Spend(resv, w) <= config.cap[w]

\* The same for the number of live runs a day, free runs included.
RateRespected ==
  config.enabled /\ config.rate > 0 /\ ~waived["day"] => SessionsToday(resv) <= config.rate

\* A debate that spent money and was not killed with the engine leaves no open
\* reservation behind, whichever way its stream ended.
SpentRunReleases ==
  \A r \in Runs :
    pc[r] = "ended" /\ spent[r] > 0 => resv[r].status \in {"billed", "swept"}

\* The reservations implement the promise of module Budget.
Holds == [r \in Runs |->
  [state  |-> CASE resv[r].status = "none"   -> "none"
                [] resv[r].status = "open"   -> "held"
                [] resv[r].status = "swept"  -> "lapsed"
                [] resv[r].status = "billed" -> "settled",
   amount |-> resv[r].cost]]

Promise == INSTANCE Budget WITH hold <- Holds

KeepsPromise == Promise!Spec

\* The inductive invariant of the proofs.
IInv == TypeOK /\ Bookkeeping /\ NoDoubleCount

(***************************************************************************)
(* Liveness.                                                               *)
(***************************************************************************)
\* Every reservation stops counting, even that of a run nobody finishes: a
\* crash, a lost client or a refused request blocks the budget only for a TTL.
HoldReleased ==
  \A r \in Runs :
    (HoldCounts(resv, r, "month") /\ now + TTL < MaxTime)
      ~> ~HoldCounts(resv, r, "month")

\* Every run the engine takes on leaves it, abandoned ones included.
RunEnds == \A r \in Runs : pc[r] \in InEngine ~> pc[r] \notin InEngine

(***************************************************************************)
(* What the documentation says and the code does not do.                   *)
(***************************************************************************)
\* engine/server.py:626 on a rejected Pro run: "No reservation exists yet at
\* this point, so there is nothing to release".
RejectedHoldsNothing == [][\A r \in Runs : RejectPro(r) => resv[r].status # "open"]_vars
=============================================================================
