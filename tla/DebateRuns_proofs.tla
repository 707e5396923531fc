-------------------------- MODULE DebateRuns_proofs --------------------------
(***************************************************************************)
(* Theorems about DebateRuns.                                              *)
(***************************************************************************)
EXTENDS DebateRuns, FiniteSetTheorems, TLAPS

-------------------------------------------------------------------------------
(***************************************************************************)
(* The ledger's table updates keep its type.                               *)
(***************************************************************************)
\* A sweep, a reserve and a finalize turn reservation tables into such tables.
LEMMA SweptType ==
  ASSUME LedgerTypeOK
  PROVE  Swept(resv) \in [Runs -> Reservation]
BY DEF LedgerTypeOK, Swept, Reservation

\* A reserve turns a reservation table into one.
LEMMA ReservedType ==
  ASSUME LedgerTypeOK, NEW r \in Runs, NEW auth \in AuthKinds, NEW est \in Nat,
         NEW override \in BOOLEAN
  PROVE  Reserved(r, auth, est, override) \in [Runs -> Reservation]
<1>1. [status |-> "open", created |-> now, expires |-> now + TTL, est |-> est,
       auth |-> auth, override |-> override, cost |-> 0] \in Reservation
  BY TTLAssumption, TimeAssumption DEF LedgerTypeOK, Reservation
<1>2. QED
  BY <1>1, SweptType DEF Reserved

\* So does a finalize, for any cost.
LEMMA FinalizedType ==
  ASSUME LedgerTypeOK, NEW r \in Runs, NEW cost \in Nat
  PROVE  Finalized(r, cost) \in [Runs -> Reservation]
<1>1. [resv[r] EXCEPT !.status = "billed", !.cost = cost] \in Reservation
  BY DEF LedgerTypeOK, Reservation
<1>2. QED
  BY <1>1, SweptType DEF Finalized

\* A settled run's row is a session.
LEMMA RowType ==
  ASSUME LedgerTypeOK, NEW auth \in AuthKinds \cup {"none"}, NEW cost \in Nat
  PROVE  SessionRow(auth, cost) \in Session
BY TimeAssumption DEF LedgerTypeOK, SessionRow, Session

\* The empty tables are tables.
LEMMA NoRowsType ==
  NoReservation \in Reservation /\ NoSession \in Session
BY DEF NoReservation, NoSession, Reservation, Session, AuthKinds

-------------------------------------------------------------------------------
(***************************************************************************)
(* Type correctness.                                                       *)
(***************************************************************************)
\* What every action says of the run it moves.
LEMMA RequestType ==
  ASSUME TypeOK, NEW r \in Runs
  PROVE  /\ request[r].auth \in AuthKinds \cup {"none"}
         /\ Live(r) => request[r].auth \in AuthKinds
         /\ request[r].est \in Nat
         /\ request[r].pro \in BOOLEAN
BY RequestsAssumption DEF TypeOK, Request, Live

\* The ledger a run is admitted with is a reservation table.
LEMMA AdmittedType ==
  ASSUME TypeOK, NEW r \in Runs
  PROVE  AdmittedLedger(r) \in [Runs -> Reservation]
<1>1. CASE ~Live(r) \/ HasReservation(r)
  BY <1>1 DEF AdmittedLedger, TypeOK, LedgerTypeOK
<1>2. CASE Live(r) /\ ~HasReservation(r)
  <2>1. Reserved(r, request[r].auth, request[r].est, FALSE) \in [Runs -> Reservation]
    BY <1>2, RequestType, ReservedType DEF TypeOK
  <2>2. QED
    BY <1>2, <2>1 DEF AdmittedLedger
<1>3. QED
  BY <1>1, <1>2

\* Ending a run through finalize_reservation() keeps the table and the places.
LEMMA FinalizeType ==
  ASSUME TypeOK, NEW r \in Runs, NEW written \in BOOLEAN, Finalize(r, written, "ended")
  PROVE  resv' \in [Runs -> Reservation] /\ pc' \in [Runs -> Places]
<1>1. Finalized(r, spent[r]) \in [Runs -> Reservation]
  BY FinalizedType DEF TypeOK
<1>2. resv \in [Runs -> Reservation] /\ pc \in [Runs -> Places]
  BY DEF TypeOK, LedgerTypeOK
<1>3. QED
  BY <1>1, <1>2 DEF Finalize, Places

\* The program starts with the right types.
LEMMA TypeInit == Init => TypeOK
BY NoRowsType, TimeAssumption DEF Init, LedgerInit, TypeOK, LedgerTypeOK, Places

\* runAnalysis() keeps the types.
LEMMA TypeRenderer ==
  ASSUME TypeOK, NEW r \in Runs, RendererStep(r)
  PROVE  TypeOK'
<1> USE DEF TypeOK, LedgerTypeOK
<1>t. /\ request[r].auth \in AuthKinds \cup {"none"} /\ request[r].est \in Nat
      /\ Live(r) => request[r].auth \in AuthKinds
  BY RequestType
<1>1. CASE RendererReserve(r)
  <2>1. resv' \in [Runs -> Reservation]
    BY <1>1, <1>t, ReservedType DEF RendererReserve
  <2>2. QED
    BY <1>1, <2>1 DEF RendererReserve, Goes, Places
<1>2. CASE RendererRefused(r)
  BY <1>2, SweptType DEF RendererRefused, Goes, Places
<1>3. CASE Override(r)
  <2>1. resv' \in [Runs -> Reservation]
    BY <1>3, <1>t, ReservedType DEF Override
  <2>2. QED
    BY <1>3, <2>1 DEF Override, Goes, Places, WaiveAll
<1>4. CASE Cancel(r) \/ Abandon(r) \/ OpenStream(r)
  BY <1>4 DEF Cancel, Abandon, OpenStream, Goes, Places, ledgerVars
<1>5. QED
  BY <1>1, <1>2, <1>3, <1>4 DEF RendererStep

\* The stream handler keeps the types up to the debate.
LEMMA TypeHandler ==
  ASSUME TypeOK, NEW r \in Runs, HandlerStep(r)
  PROVE  TypeOK'
<1> USE DEF TypeOK, LedgerTypeOK
<1>1. CASE DropWhileOpening(r) \/ RejectPro(r) \/ DropUnavailable(r)
  BY <1>1 DEF DropWhileOpening, RejectPro, DropUnavailable, Goes, Places, ledgerVars
<1>2. CASE StartDebate(r) \/ AdapterFails(r) \/ ProUnavailable(r)
  BY <1>2, AdmittedType DEF StartDebate, AdapterFails, ProUnavailable, Goes, Places
<1>3. CASE BlockStream(r)
  BY <1>3, SweptType DEF BlockStream, Goes, Places
<1>4. CASE ReleaseUnavailable(r)
  BY <1>4, FinalizedType DEF ReleaseUnavailable, Goes, Places
<1>5. QED
  BY <1>1, <1>2, <1>3, <1>4 DEF HandlerStep

\* The debate and its end keep the types.
LEMMA TypeDebate ==
  ASSUME TypeOK, NEW r \in Runs, DebateStep(r)
  PROVE  TypeOK'
<1>1. CASE AgentTurn(r)
  BY <1>1 DEF AgentTurn, TypeOK, LedgerTypeOK, ledgerVars
<1>2. CASE Complete(r) \/ Disconnect(r)
  BY <1>2 DEF Complete, Disconnect, Goes, Places, TypeOK, LedgerTypeOK, ledgerVars
<1>3. CASE AbortRun(r) \/ Unwind(r)
  <2>1. resv' \in [Runs -> Reservation] /\ pc' \in [Runs -> Places]
    BY <1>3, FinalizeType DEF AbortRun, Unwind
  <2>2. QED
    BY <1>3, <2>1 DEF AbortRun, Unwind, TypeOK, LedgerTypeOK
<1>4. CASE Settle(r)
  <2>1. resv' \in [Runs -> Reservation] /\ pc' \in [Runs -> Places]
    BY <1>4, FinalizeType DEF Settle
  <2>2. SessionRow(request[r].auth, spent[r]) \in Session
    BY RequestType, RowType DEF TypeOK
  <2>3. sess' \in [Runs -> Session]
    BY <1>4, <2>2 DEF Settle, TypeOK, LedgerTypeOK
  <2>4. waived' \in [Windows -> BOOLEAN]
    BY <1>4 DEF Settle, TypeOK
  <2>5. QED
    BY <1>4, <2>1, <2>3, <2>4 DEF Settle, TypeOK, LedgerTypeOK
<1>5. QED
  BY <1>1, <1>2, <1>3, <1>4 DEF DebateStep

\* Crashes, the clock and the settings keep the types.
LEMMA TypeSystem ==
  ASSUME TypeOK, SystemStep
  PROVE  TypeOK'
<1> USE DEF TypeOK, LedgerTypeOK
<1>1. CASE Crash
  BY <1>1 DEF Crash, ledgerVars, Places
<1>2. CASE Restart \/ Poll
  BY <1>2, SweptType DEF Restart, Poll, PollLedger, runVars
<1>3. CASE Tick
  BY <1>3, TimeAssumption DEF Tick, AdvanceClock, runVars
<1>4. ASSUME NEW c \in Configs, UpdateConfig(c)
      PROVE  TypeOK'
  BY <1>4, SweptType DEF UpdateConfig, SetConfig, WaiveAll, runVars
<1>5. ASSUME NEW r \in Runs, DeleteSession(r)
      PROVE  TypeOK'
  BY <1>5, NoRowsType DEF DeleteSession, DropSession, runVars
<1>6. QED
  BY <1>1, <1>2, <1>3, <1>4, <1>5 DEF SystemStep

\* Every step keeps the types.
LEMMA TypeNext == TypeOK /\ [Next]_vars => TypeOK'
<1> SUFFICES ASSUME TypeOK, [Next]_vars PROVE TypeOK'
  OBVIOUS
<1>1. CASE UNCHANGED vars
  BY <1>1 DEF vars, TypeOK, LedgerTypeOK
<1>2. CASE Next
  BY <1>2, TypeRenderer, TypeHandler, TypeDebate, TypeSystem DEF Next
<1>3. QED
  BY <1>1, <1>2

\* Every row of both tables and every run stays well formed, whatever users,
\* crashes and the database do.
THEOREM TypeCorrect == Spec => []TypeOK
BY TypeInit, TypeNext, PTL DEF Spec

-------------------------------------------------------------------------------
(***************************************************************************)
(* The inductive invariant.                                                *)
(***************************************************************************)
\* What a sweep does to one row.
LEMMA SweptRow ==
  ASSUME LedgerTypeOK, NEW q \in Runs
  PROVE  /\ Swept(resv)[q].expires = resv[q].expires
         /\ Swept(resv)[q].created = resv[q].created
         /\ Swept(resv)[q].cost = resv[q].cost
         /\ Swept(resv)[q].est = resv[q].est
         /\ Swept(resv)[q].auth = resv[q].auth
         /\ Swept(resv)[q].status =
              IF resv[q].status = "open" /\ resv[q].expires < now
                THEN "swept" ELSE resv[q].status
BY DEF LedgerTypeOK, Swept, Reservation

\* What a reserve does to one row: it opens the run's, and sweeps the others.
LEMMA ReservedRow ==
  ASSUME LedgerTypeOK, NEW r \in Runs, NEW auth, NEW est, NEW override, NEW q \in Runs
  PROVE  /\ q # r => Reserved(r, auth, est, override)[q] = Swept(resv)[q]
         /\ q = r => /\ Reserved(r, auth, est, override)[q].status = "open"
                     /\ Reserved(r, auth, est, override)[q].created = now
                     /\ Reserved(r, auth, est, override)[q].expires = now + TTL
                     /\ Reserved(r, auth, est, override)[q].est = est
                     /\ Reserved(r, auth, est, override)[q].auth = auth
                     /\ Reserved(r, auth, est, override)[q].cost = 0
BY DEF LedgerTypeOK, Reserved, Swept

\* What a finalize does to one row.
LEMMA FinalizedRow ==
  ASSUME LedgerTypeOK, NEW r \in Runs, NEW cost, NEW q \in Runs
  PROVE  /\ q # r => Finalized(r, cost)[q] = Swept(resv)[q]
         /\ Finalized(r, cost)[q].created = resv[q].created
         /\ Finalized(r, cost)[q].expires = resv[q].expires
         /\ q = r => Finalized(r, cost)[q].status =
              IF Swept(resv)[r].status = "open" THEN "billed" ELSE Swept(resv)[r].status
         /\ q = r => Finalized(r, cost)[q].cost =
              IF Swept(resv)[r].status = "open" THEN cost ELSE resv[r].cost
<1>1. CASE q = r /\ Swept(resv)[r].status = "open"
  BY <1>1 DEF Finalized, LedgerTypeOK, Reservation
<1>2. CASE ~(q = r /\ Swept(resv)[r].status = "open")
  BY <1>2, SweptRow DEF Finalized
<1>3. QED
  BY <1>1, <1>2

\* The empty ledger is consistent.
LEMMA BookInit == Init => Bookkeeping /\ NoDoubleCount
BY DEF Init, LedgerInit, Bookkeeping, NoDoubleCount, NoReservation, NoSession, Running

\* runAnalysis() keeps the ledger consistent with the places of the runs.
LEMMA BookRenderer ==
  ASSUME IInv, NEW r \in Runs, RendererStep(r)
  PROVE  Bookkeeping' /\ NoDoubleCount'
<1> USE DEF IInv, TypeOK
<1>m. now \in Int /\ TTL \in Nat
  BY TTLAssumption, TimeAssumption DEF LedgerTypeOK
<1>n. now' = now /\ sess' = sess /\ request' = request
  BY DEF RendererStep, RendererReserve, RendererRefused, Override, Cancel, Abandon,
     OpenStream, ledgerVars
<1>1. CASE RendererReserve(r) \/ Override(r)
  <2>1. PICK override \in BOOLEAN :
          resv' = Reserved(r, request[r].auth, request[r].est, override)
    BY <1>1 DEF RendererReserve, Override
  <2>2. /\ pc[r] \in {"idle", "asking"}
        /\ pc' = [pc EXCEPT ![r] = "held"]
    BY <1>1 DEF RendererReserve, Override, Goes
  <2>3. \A q \in Runs : q # r => resv'[q] = Swept(resv)[q] /\ pc'[q] = pc[q]
    BY <2>1, <2>2, ReservedRow
  <2>4. /\ resv'[r].status = "open" /\ resv'[r].created = now /\ resv'[r].cost = 0
        /\ pc'[r] = "held" /\ ~sess[r].stored /\ sess[r].created <= now
    BY <2>1, <2>2, ReservedRow DEF Bookkeeping
  <2>5. Bookkeeping'
    BY <1>m, <1>n, <2>3, <2>4, SweptRow DEF Bookkeeping, Running, Live
  <2>6. NoDoubleCount'
    BY <1>m, <1>n, <2>3, <2>4, SweptRow DEF NoDoubleCount
  <2>7. QED
    BY <2>5, <2>6
<1>2. CASE RendererRefused(r)
  BY <1>m, <1>n, <1>2, SweptRow
  DEF RendererRefused, Goes, Bookkeeping, NoDoubleCount, Running, Live
<1>3. CASE Cancel(r) \/ Abandon(r) \/ OpenStream(r)
  BY <1>m, <1>n, <1>3
  DEF Cancel, Abandon, OpenStream, Goes, ledgerVars, Bookkeeping, NoDoubleCount, Running, Live
<1>4. QED
  BY <1>1, <1>2, <1>3 DEF RendererStep

\* A run leaving "opening" with the reservation it is admitted with.
LEMMA BookAdmitted ==
  ASSUME IInv, NEW r \in Runs, pc[r] = "opening", NEW to \in {"debating", "ended", "unavailable"},
         resv' = AdmittedLedger(r), pc' = [pc EXCEPT ![r] = to],
         now' = now, sess' = sess, request' = request
  PROVE  Bookkeeping' /\ NoDoubleCount'
<1>m. now \in Int /\ TTL \in Nat
  BY TTLAssumption, TimeAssumption DEF IInv, TypeOK, LedgerTypeOK
<1>1. CASE ~Live(r) \/ HasReservation(r)
  BY <1>1, <1>m DEF AdmittedLedger, HasReservation, IInv, TypeOK, Bookkeeping, NoDoubleCount,
     Running, Live
<1>2. CASE Live(r) /\ ~HasReservation(r)
  <2>1. PICK override \in BOOLEAN :
          resv' = Reserved(r, request[r].auth, request[r].est, override)
    BY <1>2 DEF AdmittedLedger
  <2>p. /\ \A q \in Runs : q # r => pc'[q] = pc[q]
        /\ pc'[r] = to
    BY DEF IInv, TypeOK
  <2>t. LedgerTypeOK
    BY DEF IInv, TypeOK
  <2>2. \A q \in Runs : q # r => resv'[q] = Swept(resv)[q] /\ pc'[q] = pc[q]
    BY <2>1, <2>p, <2>t, ReservedRow
  <2>3. /\ resv'[r].status = "open" /\ resv'[r].created = now /\ resv'[r].cost = 0
        /\ pc'[r] = to /\ ~sess[r].stored /\ sess[r].created <= now
    BY <2>1, <2>p, <2>t, ReservedRow DEF IInv, Bookkeeping
  <2>4. Bookkeeping'
    BY <1>m, <2>2, <2>3, SweptRow DEF IInv, TypeOK, Bookkeeping, Running, Live
  <2>5. NoDoubleCount'
    BY <1>m, <2>2, <2>3, SweptRow DEF IInv, TypeOK, NoDoubleCount
  <2>6. QED
    BY <2>4, <2>5
<1>3. QED
  BY <1>1, <1>2

\* A run whose reservation is finalized, its session stored or not.
LEMMA BookFinalized ==
  ASSUME IInv, NEW r \in Runs, pc[r] \notin {"ended", "unsettled"}, NEW cost \in Nat,
         resv' = Finalized(r, cost), pc' = [pc EXCEPT ![r] = "ended"],
         now' = now, request' = request,
         \A q \in Runs : sess'[q].stored => sess[q].stored \/ q = r,
         \A q \in Runs : sess'[q].created <= now
  PROVE  Bookkeeping' /\ NoDoubleCount'
<1> USE DEF IInv, TypeOK
<1>1. \A q \in Runs : q # r => resv'[q] = Swept(resv)[q] /\ pc'[q] = pc[q]
  BY FinalizedRow
<1>2. /\ pc'[r] = "ended" /\ resv'[r].status # "open"
      /\ resv'[r].created = resv[r].created
      /\ resv'[r].status = "swept" => resv'[r].expires < now
      /\ resv'[r].status # "billed" => resv'[r].cost = 0
  BY FinalizedRow, SweptRow DEF Bookkeeping
<1>3. Bookkeeping'
  BY <1>1, <1>2, SweptRow DEF Bookkeeping, Running, Live
<1>4. NoDoubleCount'
  BY <1>1, <1>2, SweptRow DEF NoDoubleCount
<1>5. QED
  BY <1>3, <1>4

\* So does the stream handler up to the debate.
LEMMA BookHandler ==
  ASSUME IInv, NEW r \in Runs, HandlerStep(r)
  PROVE  Bookkeeping' /\ NoDoubleCount'
<1> USE DEF IInv, TypeOK
<1>n. now' = now /\ sess' = sess /\ request' = request
  BY DEF HandlerStep, DropWhileOpening, RejectPro, StartDebate, BlockStream, AdapterFails,
     ProUnavailable, ReleaseUnavailable, DropUnavailable, ledgerVars
<1>1. CASE DropWhileOpening(r) \/ RejectPro(r) \/ DropUnavailable(r)
  BY <1>1, <1>n DEF DropWhileOpening, RejectPro, DropUnavailable, Goes, ledgerVars,
     Bookkeeping, NoDoubleCount, Running, Live
<1>2. CASE StartDebate(r) \/ AdapterFails(r) \/ ProUnavailable(r)
  BY <1>2, <1>n, BookAdmitted DEF StartDebate, AdapterFails, ProUnavailable, Goes
<1>3. CASE BlockStream(r)
  BY <1>3, <1>n, SweptRow DEF BlockStream, Goes, Bookkeeping, NoDoubleCount, Running, Live
<1>4. CASE ReleaseUnavailable(r)
  <2>1. \A q \in Runs : sess'[q].created <= now
    BY <1>n DEF Bookkeeping
  <2>2. QED
    BY <1>4, <1>n, <2>1, BookFinalized DEF ReleaseUnavailable, Goes
<1>5. QED
  BY <1>1, <1>2, <1>3, <1>4 DEF HandlerStep

\* Ending a debate through finalize_reservation(), whether it is written or not.
LEMMA BookFinalize ==
  ASSUME IInv, NEW r \in Runs, pc[r] \notin {"ended", "unsettled"},
         NEW written \in BOOLEAN, Finalize(r, written, "ended"),
         now' = now, request' = request,
         \A q \in Runs : sess'[q].stored => sess[q].stored \/ q = r,
         \A q \in Runs : sess'[q].created <= now
  PROVE  Bookkeeping' /\ NoDoubleCount'
<1>1. CASE written /\ HasReservation(r)
  BY <1>1, BookFinalized DEF Finalize, IInv, TypeOK
<1>2. CASE ~(written /\ HasReservation(r))
  <2>1. /\ resv' = resv
        /\ pc' = [pc EXCEPT ![r] = IF written THEN "ended" ELSE "unsettled"]
        /\ written => resv[r].status = "none"
    BY <1>2 DEF Finalize, HasReservation
  <2>2. QED
    BY <2>1 DEF IInv, TypeOK, Bookkeeping, NoDoubleCount, Running, Live
<1>3. QED
  BY <1>1, <1>2

\* So do the debate and its end.
LEMMA BookDebate ==
  ASSUME IInv, NEW r \in Runs, DebateStep(r)
  PROVE  Bookkeeping' /\ NoDoubleCount'
<1>n. now' = now /\ request' = request
  BY DEF DebateStep, AgentTurn, Complete, Disconnect, AbortRun, Unwind, Settle, ledgerVars
<1>1. CASE AgentTurn(r)
  BY <1>1 DEF AgentTurn, ledgerVars, IInv, Bookkeeping, NoDoubleCount, Live
<1>2. CASE Complete(r) \/ Disconnect(r)
  BY <1>2 DEF Complete, Disconnect, Goes, ledgerVars, IInv, TypeOK, Bookkeeping,
     NoDoubleCount, Running, Live
<1>3. CASE AbortRun(r) \/ Unwind(r)
  <2>1. /\ pc[r] \notin {"ended", "unsettled"} /\ sess' = sess
        /\ \E written \in BOOLEAN : Finalize(r, written, "ended")
    BY <1>3 DEF AbortRun, Unwind
  <2>2. \A q \in Runs : sess'[q].created <= now
    BY <2>1 DEF IInv, Bookkeeping
  <2>3. QED
    BY <1>n, <2>1, <2>2, BookFinalize
<1>4. CASE Settle(r)
  <2>1. PICK written \in BOOLEAN, stored \in BOOLEAN :
          /\ Finalize(r, written, "ended")
          /\ sess' = IF stored
                       THEN [sess EXCEPT ![r] = SessionRow(request[r].auth, spent[r])]
                       ELSE sess
    BY <1>4 DEF Settle
  <2>2. \A q \in Runs : sess'[q].stored => sess[q].stored \/ q = r
    BY <2>1 DEF IInv, TypeOK, LedgerTypeOK
  <2>3. SessionRow(request[r].auth, spent[r]).created = now
    BY DEF SessionRow
  <2>4. now <= now
    BY TimeAssumption DEF IInv, TypeOK, LedgerTypeOK
  <2>5. \A q \in Runs : sess'[q].created <= now
    BY <2>1, <2>3, <2>4 DEF IInv, TypeOK, LedgerTypeOK, Bookkeeping
  <2>6. QED
    BY <1>4, <1>n, <2>1, <2>2, <2>5, BookFinalize DEF Settle
<1>5. QED
  BY <1>1, <1>2, <1>3, <1>4 DEF DebateStep

\* So do crashes, the sweep at restart, the clock and the user's edits.
LEMMA BookSystem ==
  ASSUME IInv, SystemStep
  PROVE  Bookkeeping' /\ NoDoubleCount'
<1> USE DEF IInv, TypeOK
<1>1. CASE Crash
  <2>1. /\ UNCHANGED <<now, resv, sess, request>>
        /\ \A r \in Runs : pc'[r] = IF pc[r] \in InEngine THEN "killed" ELSE pc[r]
    BY <1>1 DEF Crash, ledgerVars
  <2>2. QED
    BY <2>1 DEF Bookkeeping, NoDoubleCount, Running, Live, InEngine
<1>2. CASE Restart \/ Poll \/ \E c \in Configs : UpdateConfig(c)
  <2>1. UNCHANGED <<now, sess, pc, request>> /\ resv' = Swept(resv)
    BY <1>2 DEF Restart, Poll, PollLedger, UpdateConfig, SetConfig, runVars
  <2>2. QED
    BY <2>1, SweptRow DEF Bookkeeping, NoDoubleCount, Running, Live
<1>3. CASE Tick
  <2>1. UNCHANGED <<resv, sess, pc, request>> /\ now' = now + 1 /\ now \in Int
    BY <1>3, TimeAssumption DEF Tick, AdvanceClock, runVars, LedgerTypeOK
  <2>2. \A r \in Runs : resv[r].expires \in Nat /\ resv[r].created \in Nat
                         /\ sess[r].created \in Nat
    BY DEF LedgerTypeOK, Reservation, Session
  <2>3. QED
    BY <2>1, <2>2 DEF Bookkeeping, NoDoubleCount, Running, Live
<1>4. ASSUME NEW r \in Runs, DeleteSession(r)
      PROVE  Bookkeeping' /\ NoDoubleCount'
  <2>1. /\ UNCHANGED <<now, resv, pc, request>>
        /\ \A q \in Runs : sess'[q] = sess[q] \/ sess'[q] = NoSession
    BY <1>4 DEF DeleteSession, DropSession, runVars, LedgerTypeOK
  <2>2. 0 <= now
    BY TimeAssumption DEF LedgerTypeOK
  <2>3. QED
    BY <2>1, <2>2 DEF Bookkeeping, NoDoubleCount, Running, Live, NoSession
<1>5. QED
  BY <1>1, <1>2, <1>3, <1>4 DEF SystemStep

\* The invariant is inductive.
LEMMA BookNext == IInv /\ [Next]_vars => IInv'
<1> SUFFICES ASSUME IInv, [Next]_vars PROVE IInv'
  OBVIOUS
<1>1. TypeOK'
  BY TypeNext DEF IInv
<1>2. CASE UNCHANGED vars
  BY <1>1, <1>2 DEF vars, IInv, Bookkeeping, NoDoubleCount, Live
<1>3. CASE Next
  BY <1>1, <1>3, BookRenderer, BookHandler, BookDebate, BookSystem DEF Next, IInv
<1>4. QED
  BY <1>2, <1>3

\* Every reachable state satisfies it.
LEMMA Inductive == Spec => []IInv
<1>1. Init => IInv
  BY TypeInit, BookInit DEF IInv
<1>2. QED
  BY <1>1, BookNext, PTL DEF Spec

-------------------------------------------------------------------------------
(***************************************************************************)
(* What follows from it.                                                   *)
(***************************************************************************)
\* No session is in the ledger next to its own open reservation, unless the
\* database failed to finalize it.
THEOREM NeverCountedTwice == Spec => []NoDoubleCount
<1>1. IInv => NoDoubleCount
  BY DEF IInv
<1>2. QED
  BY <1>1, Inductive, PTL

\* A live debate under way holds its reservation until its TTL has passed: for
\* any number of runs, any TTL, any order of their steps, and across crashes.
THEOREM HoldLasts == Spec => []HeldWhileRunning
<1>1. IInv => HeldWhileRunning
  <2> SUFFICES ASSUME IInv, NEW r \in Runs, pc[r] \in Running, Live(r),
                      resv[r].status # "open"
               PROVE  resv[r].expires < now
    BY DEF HeldWhileRunning
  <2>1. resv[r].status \in {"none", "open", "swept", "billed"}
    BY DEF IInv, TypeOK, LedgerTypeOK, Reservation
  <2>2. QED
    BY <2>1 DEF IInv, Bookkeeping, Running
<1>2. QED
  BY <1>1, Inductive, PTL

-------------------------------------------------------------------------------
(***************************************************************************)
(* The reservations keep the promise of module Budget.                     *)
(***************************************************************************)
Late == {q \in Runs : resv[q].status = "open" /\ resv[q].expires < now}

\* A row the sweep takes is a hold of the abstract ledger.
LEMMA LateIsHeld ==
  ASSUME IInv
  PROVE  Late \in SUBSET Promise!Held
BY DEF IInv, Bookkeeping, Late, Promise!Held, Holds

\* A step that only sweeps, or does not touch the table.
LEMMA PromiseSweep ==
  ASSUME IInv, resv' = Swept(resv)
  PROVE  Promise!Next
<1>1. Holds' = Promise!Lapsed(Late)
  <2>1. \A q \in Runs : Holds'[q] = Promise!Lapsed(Late)[q]
    <3> SUFFICES ASSUME NEW q \in Runs PROVE Holds'[q] = Promise!Lapsed(Late)[q]
      OBVIOUS
    <3>1. /\ resv'[q].cost = resv[q].cost
          /\ resv'[q].status = IF q \in Late THEN "swept" ELSE resv[q].status
      BY SweptRow DEF Late, IInv, TypeOK
    <3>2. q \in Late => resv[q].cost = 0
      BY DEF Late, IInv, Bookkeeping
    <3>3. QED
      BY <3>1, <3>2 DEF Holds, Promise!Lapsed
  <2>2. QED
    BY <2>1 DEF Holds, Promise!Lapsed
<1>2. QED
  BY <1>1, LateIsHeld DEF Promise!Next, Promise!LapseOnly

\* A step that leaves the table alone leaves the holds alone.
LEMMA PromiseSame == resv' = resv => Holds' = Holds
BY DEF Holds

\* A reserve takes one hold and lapses the expired ones.
LEMMA PromiseReserve ==
  ASSUME IInv, NEW r \in Runs, resv[r].status = "none", NEW auth, NEW est, NEW override,
         resv' = Reserved(r, auth, est, override)
  PROVE  Promise!Next
<1>1. r \notin Late /\ Holds[r].state = "none"
  BY DEF Late, Holds
<1>2. Holds' = [Promise!Lapsed(Late) EXCEPT ![r] = [state |-> "held", amount |-> 0]]
  <2>1. \A q \in Runs : q # r => Holds'[q] = Promise!Lapsed(Late)[q]
    <3> SUFFICES ASSUME NEW q \in Runs, q # r PROVE Holds'[q] = Promise!Lapsed(Late)[q]
      OBVIOUS
    <3>1. /\ resv'[q].cost = resv[q].cost
          /\ resv'[q].status = IF q \in Late THEN "swept" ELSE resv[q].status
      BY ReservedRow, SweptRow DEF Late, IInv, TypeOK
    <3>2. q \in Late => resv[q].cost = 0
      BY DEF Late, IInv, Bookkeeping
    <3>3. QED
      BY <3>1, <3>2 DEF Holds, Promise!Lapsed
  <2>2. Holds'[r] = [state |-> "held", amount |-> 0]
    BY ReservedRow DEF Holds, IInv, TypeOK
  <2>3. QED
    BY <2>1, <2>2 DEF Holds, Promise!Lapsed
<1>3. Promise!Take(Late, r)
  BY <1>1, <1>2 DEF Promise!Take
<1>4. QED
  BY <1>1, <1>3, LateIsHeld DEF Promise!Next

\* A finalize settles one hold, or only lapses the expired ones.
LEMMA PromiseFinalize ==
  ASSUME IInv, NEW r \in Runs, NEW cost \in Nat, resv' = Finalized(r, cost)
  PROVE  Promise!Next
<1>1. CASE Swept(resv)[r].status # "open"
  <2>1. resv' = Swept(resv)
    BY <1>1 DEF Finalized, Swept
  <2>2. QED
    BY <2>1, PromiseSweep
<1>2. CASE Swept(resv)[r].status = "open"
  <2>1. r \notin Late /\ Holds[r].state = "held"
    BY <1>2, SweptRow DEF Late, Holds, IInv, TypeOK
  <2>2. Holds'[r] = [state |-> "settled", amount |-> cost]
    BY <1>2, FinalizedRow DEF Holds, IInv, TypeOK
  <2>3. \A q \in Runs : q # r => Holds'[q] = Promise!Lapsed(Late)[q]
    <3> SUFFICES ASSUME NEW q \in Runs, q # r PROVE Holds'[q] = Promise!Lapsed(Late)[q]
      OBVIOUS
    <3>1. /\ resv'[q].cost = resv[q].cost
          /\ resv'[q].status = IF q \in Late THEN "swept" ELSE resv[q].status
      BY FinalizedRow, SweptRow DEF Late, IInv, TypeOK
    <3>2. q \in Late => resv[q].cost = 0
      BY DEF Late, IInv, Bookkeeping
    <3>3. QED
      BY <3>1, <3>2 DEF Holds, Promise!Lapsed
  <2>4. Promise!Settle(Late, r)
    <3>1. Holds' = [Promise!Lapsed(Late) EXCEPT ![r] = Holds'[r]]
      BY <2>3 DEF Holds, Promise!Lapsed
    <3>2. Holds'[r].amount = cost /\ Holds'[r] = [state |-> "settled", amount |-> Holds'[r].amount]
      BY <2>2
    <3>3. QED
      BY <2>1, <3>1, <3>2 DEF Promise!Settle
  <2>5. QED
    BY <2>1, <2>4, LateIsHeld DEF Promise!Next
<1>3. QED
  BY <1>1, <1>2

\* Every step changes the reservation table in one of four ways.
LEMMA LedgerStep ==
  ASSUME IInv, Next
  PROVE  \/ resv' = resv
         \/ resv' = Swept(resv)
         \/ \E r \in Runs, override \in BOOLEAN :
              /\ resv[r].status = "none"
              /\ resv' = Reserved(r, request[r].auth, request[r].est, override)
         \/ \E r \in Runs, cost \in Nat : resv' = Finalized(r, cost)
<1> USE DEF IInv, TypeOK
<1>1. ASSUME NEW r \in Runs, RendererStep(r)
      PROVE  \/ resv' = resv \/ resv' = Swept(resv)
             \/ /\ resv[r].status = "none"
                /\ \E override \in BOOLEAN :
                     resv' = Reserved(r, request[r].auth, request[r].est, override)
  <2>1. CASE RendererReserve(r) \/ Override(r)
    <3>1. resv[r].status = "none"
      BY <2>1 DEF RendererReserve, Override, Goes, Bookkeeping
    <3>2. QED
      BY <2>1, <3>1 DEF RendererReserve, Override
  <2>2. QED
    BY <1>1, <2>1 DEF RendererStep, RendererRefused, Cancel, Abandon, OpenStream, ledgerVars
<1>2. ASSUME NEW r \in Runs, HandlerStep(r)
      PROVE  \/ resv' = resv \/ resv' = Swept(resv)
             \/ /\ resv[r].status = "none"
                /\ \E override \in BOOLEAN :
                     resv' = Reserved(r, request[r].auth, request[r].est, override)
             \/ \E cost \in Nat : resv' = Finalized(r, cost)
  BY <1>2 DEF HandlerStep, DropWhileOpening, RejectPro, StartDebate, BlockStream,
     AdapterFails, ProUnavailable, ReleaseUnavailable, DropUnavailable, AdmittedLedger,
     HasReservation, ledgerVars
<1>3. ASSUME NEW r \in Runs, DebateStep(r)
      PROVE  resv' = resv \/ \E cost \in Nat : resv' = Finalized(r, cost)
  BY <1>3 DEF DebateStep, AgentTurn, Complete, Disconnect, AbortRun, Unwind, Settle,
     Finalize, ledgerVars
<1>4. SystemStep => resv' = resv \/ resv' = Swept(resv)
  BY DEF SystemStep, Crash, Restart, Poll, PollLedger, Tick, AdvanceClock, UpdateConfig,
     SetConfig, DeleteSession, DropSession, ledgerVars
<1>5. QED
  BY <1>1, <1>2, <1>3, <1>4 DEF Next

\* A run takes at most one hold on the budget, and the hold is settled once
\* with one amount or lapses, whatever the callers of cost_guard.py do.
THEOREM LedgerKeepsPromise == Spec => KeepsPromise
<1>1. Init => Promise!Init
  BY DEF Init, LedgerInit, Promise!Init, Promise!Blank, Holds, NoReservation
<1>2. IInv /\ [Next]_vars => [Promise!Next]_Holds
  <2> SUFFICES ASSUME IInv, [Next]_vars PROVE Promise!Next \/ Holds' = Holds
    OBVIOUS
  <2>1. CASE UNCHANGED vars
    BY <2>1, PromiseSame DEF vars
  <2>2. CASE Next
    BY <2>2, LedgerStep, PromiseSame, PromiseSweep, PromiseReserve, PromiseFinalize
  <2>3. QED
    BY <2>1, <2>2
<1>3. QED
  BY <1>1, <1>2, Inductive, PTL DEF Spec, KeepsPromise, Promise!Spec

-------------------------------------------------------------------------------
(***************************************************************************)
(* A run that spent money lets go of its hold.                             *)
(***************************************************************************)
\* Before the debate nothing is spent, a stub run never spends, and a run that
\* spent and ended has a row that is settled or has lapsed.
Early == {"idle", "asking", "held", "opening", "unavailable"}

SpentOK ==
  /\ \A r \in Runs : spent[r] > 0 => Live(r) /\ pc[r] \notin Early
  /\ SpentRunReleases

\* A row that is settled or has lapsed is never open again.
LEMMA DoneStays ==
  ASSUME IInv, Next, NEW q \in Runs, resv[q].status \in {"billed", "swept"}
  PROVE  resv'[q].status \in {"billed", "swept"}
<1>t. LedgerTypeOK
  BY DEF IInv, TypeOK
<1>1. CASE resv' = Swept(resv)
  BY <1>1, <1>t, SweptRow
<1>2. ASSUME NEW r \in Runs, NEW override \in BOOLEAN, resv[r].status = "none",
             resv' = Reserved(r, request[r].auth, request[r].est, override)
      PROVE  resv'[q].status \in {"billed", "swept"}
  <2>1. q # r
    BY <1>2
  <2> QED
    BY <1>2, <1>t, <2>1, ReservedRow, SweptRow
<1>3. ASSUME NEW r \in Runs, NEW cost \in Nat, resv' = Finalized(r, cost)
      PROVE  resv'[q].status \in {"billed", "swept"}
  BY <1>3, <1>t, FinalizedRow, SweptRow
<1> QED
  BY <1>1, <1>2, <1>3, LedgerStep

\* A debate that was finalized has a row that is settled or had lapsed.
LEMMA FinalizeReleases ==
  ASSUME IInv, NEW r \in Runs, pc[r] \in Running, Live(r), NEW written \in BOOLEAN,
         Finalize(r, written, "ended"), pc'[r] = "ended"
  PROVE  resv'[r].status \in {"billed", "swept"}
<1>1. resv[r].status \in {"open", "swept", "billed"}
  BY DEF IInv, TypeOK, LedgerTypeOK, Reservation, Bookkeeping
<1>2. resv' = Finalized(r, spent[r])
  BY <1>1 DEF Finalize, HasReservation, IInv, TypeOK
<1>3. LedgerTypeOK
  BY DEF IInv, TypeOK
<1> QED
  BY <1>1, <1>2, <1>3, FinalizedRow, SweptRow

\* How a run's place and its cost change.
LEMMA Courses ==
  ASSUME IInv, Next, NEW q \in Runs
  PROVE  /\ request' = request
         /\ spent'[q] # spent[q] => pc[q] = "debating" /\ Live(q) /\ pc'[q] = pc[q]
         /\ pc'[q] \in Early => pc[q] \in Early
         /\ pc'[q] = "ended" /\ pc[q] \notin Early \cup {"ended"} /\ Live(q) =>
              resv'[q].status \in {"billed", "swept"}
<1> USE DEF Early
<1>t. pc \in [Runs -> Places] /\ spent \in [Runs -> Nat]
  BY DEF IInv, TypeOK
<1> DEFINE Goal == /\ request' = request
                   /\ spent'[q] # spent[q] => pc[q] = "debating" /\ Live(q) /\ pc'[q] = pc[q]
                   /\ pc'[q] \in Early => pc[q] \in Early
                   /\ pc'[q] = "ended" /\ pc[q] \notin Early \cup {"ended"} /\ Live(q) =>
                        resv'[q].status \in {"billed", "swept"}
<1>1. ASSUME NEW r \in Runs, RendererStep(r) PROVE Goal
  BY <1>1, <1>t DEF RendererStep, RendererReserve, RendererRefused, Override, Cancel,
     Abandon, OpenStream, Goes
<1>2. ASSUME NEW r \in Runs, HandlerStep(r) PROVE Goal
  BY <1>2, <1>t DEF HandlerStep, DropWhileOpening, RejectPro, StartDebate, BlockStream,
     AdapterFails, ProUnavailable, ReleaseUnavailable, DropUnavailable, Goes
<1>3. ASSUME NEW r \in Runs, AgentTurn(r) PROVE Goal
  BY <1>3, <1>t DEF AgentTurn, Live, AuthKinds
<1>4. ASSUME NEW r \in Runs, Complete(r) \/ Disconnect(r) PROVE Goal
  BY <1>4, <1>t DEF Complete, Disconnect, Goes
<1>5. ASSUME NEW r \in Runs, AbortRun(r) \/ Unwind(r) \/ Settle(r) PROVE Goal
  <2>1. /\ pc[r] \in Running /\ UNCHANGED <<request, spent>>
        /\ \E written \in BOOLEAN : Finalize(r, written, "ended")
    BY <1>5 DEF AbortRun, Unwind, Settle, Running
  <2>2. PICK written \in BOOLEAN : Finalize(r, written, "ended")
    BY <2>1
  <2>3. /\ q # r => pc'[q] = pc[q]
        /\ pc'[r] \in {"ended", "unsettled"}
    BY <2>2, <1>t DEF Finalize
  <2>4. CASE q = r
    BY <2>1, <2>2, <2>3, <2>4, FinalizeReleases DEF Running
  <2>5. CASE q # r
    BY <2>1, <2>3, <2>5
  <2> QED
    BY <2>4, <2>5
<1>6. CASE SystemStep
  BY <1>6, <1>t DEF SystemStep, Crash, Restart, Poll, Tick, UpdateConfig, DeleteSession, runVars,
     InEngine
<1> QED
  BY <1>1, <1>2, <1>3, <1>4, <1>5, <1>6 DEF Next, DebateStep

\* A debate that cost money and was not killed with the engine leaves no open
\* hold behind: complete, aborted or abandoned, in any company, its finally
\* block settles the row or finds it lapsed.
THEOREM SpentSettles == Spec => []SpentRunReleases
<1>1. Init => SpentOK
  BY DEF Init, SpentOK, SpentRunReleases
<1>2. IInv /\ SpentOK /\ [Next]_vars => SpentOK'
  <2> SUFFICES ASSUME IInv, SpentOK, [Next]_vars PROVE SpentOK'
    OBVIOUS
  <2>1. CASE UNCHANGED vars
    BY <2>1 DEF vars, SpentOK, SpentRunReleases, Live
  <2>2. CASE Next
    <3> SUFFICES ASSUME NEW r \in Runs
                 PROVE  /\ spent'[r] > 0 => Live(r)' /\ pc'[r] \notin Early
                        /\ pc'[r] = "ended" /\ spent'[r] > 0 =>
                             resv'[r].status \in {"billed", "swept"}
      BY DEF SpentOK, SpentRunReleases, Early
    <3>1. Live(r)' = Live(r)
      BY <2>2, Courses DEF Live
    <3>2. CASE spent'[r] # spent[r]
      <4>1. pc[r] = "debating" /\ Live(r) /\ pc'[r] = pc[r]
        BY <2>2, <3>2, Courses
      <4> QED
        BY <3>1, <4>1 DEF Early
    <3>3. CASE spent'[r] = spent[r]
      <4> SUFFICES ASSUME spent[r] > 0
                   PROVE  /\ pc'[r] \notin Early
                          /\ pc'[r] = "ended" => resv'[r].status \in {"billed", "swept"}
        BY <3>1, <3>3 DEF SpentOK
      <4>1. Live(r) /\ pc[r] \notin Early
        BY DEF SpentOK
      <4>2. pc'[r] \notin Early
        BY <2>2, <4>1, Courses
      <4>3. CASE pc[r] = "ended"
        <5>1. resv[r].status \in {"billed", "swept"}
          BY <4>3 DEF SpentOK, SpentRunReleases
        <5> QED
          BY <2>2, <4>2, <5>1, DoneStays
      <4>4. CASE pc[r] # "ended"
        BY <2>2, <4>1, <4>2, <4>4, Courses
      <4> QED
        BY <4>2, <4>3, <4>4
    <3> QED
      BY <3>2, <3>3
  <2> QED
    BY <2>1, <2>2
<1>3. SpentOK => SpentRunReleases
  BY DEF SpentOK
<1> QED
  BY <1>1, <1>2, <1>3, Inductive, PTL DEF Spec

-------------------------------------------------------------------------------
(***************************************************************************)
(* The sessions-per-day cap.                                               *)
(***************************************************************************)
Rows  == {q \in Runs : SessionCounts(q, "day")}
Holders == {q \in Runs : HoldCounts(resv, q, "day")}

Counted == Cardinality(Rows) + Cardinality(Holders)

\* The runs counted today are a finite number.
LEMMA CountedType ==
  ASSUME NEW A \in SUBSET Runs
  PROVE  IsFiniteSet(A) /\ Cardinality(A) \in Nat
BY RunsAssumption, FS_Subset, FS_CardinalityType

\* Fewer runs make a smaller count.
LEMMA SmallerCount ==
  ASSUME NEW A \in SUBSET Runs, NEW B \in SUBSET A
  PROVE  Cardinality(B) <= Cardinality(A)
BY CountedType, FS_Subset

\* A run that joins adds one.
LEMMA OneMore ==
  ASSUME NEW A \in SUBSET Runs, NEW r \in Runs, NEW B \in SUBSET (A \cup {r})
  PROVE  Cardinality(B) <= Cardinality(A) + 1
<1>1. A \cup {r} \in SUBSET Runs
  OBVIOUS
<1>2. Cardinality(B) <= Cardinality(A \cup {r})
  BY <1>1, SmallerCount
<1>3. /\ Cardinality(A \cup {r}) = IF r \in A THEN Cardinality(A) ELSE Cardinality(A) + 1
      /\ Cardinality(A) \in Nat /\ Cardinality(B) \in Nat
  BY <1>1, CountedType, FS_AddElement
<1>4. QED
  BY <1>2, <1>3

\* A run that is taken away leaves one less.
LEMMA OneLess ==
  ASSUME NEW A \in SUBSET Runs, NEW r \in A, NEW B \in SUBSET (A \ {r})
  PROVE  Cardinality(B) + 1 <= Cardinality(A)
<1>1. Cardinality(A \ {r}) = Cardinality(A) - 1
  BY CountedType, FS_RemoveElement
<1>2. Cardinality(B) <= Cardinality(A \ {r})
  BY SmallerCount
<1>3. Cardinality(A) \in Nat /\ Cardinality(B) \in Nat
  BY CountedType
<1>4. QED
  BY <1>1, <1>2, <1>3

\* What does not count today before a step, and does not become a row or a
\* hold in it, leaves the count no larger.
LEMMA CountShrinks ==
  ASSUME Rows' \subseteq Rows, Holders' \subseteq Holders
  PROVE  Counted' <= Counted
<1>1. Rows \in SUBSET Runs /\ Holders \in SUBSET Runs
  BY DEF Rows, Holders
<1>2. Rows' \in SUBSET Runs /\ Holders' \in SUBSET Runs
  BY <1>1
<1>3. /\ Cardinality(Rows') <= Cardinality(Rows)
      /\ Cardinality(Holders') <= Cardinality(Holders)
  BY <1>1, SmallerCount
<1>4. /\ Cardinality(Rows) \in Nat /\ Cardinality(Holders) \in Nat
      /\ Cardinality(Rows') \in Nat /\ Cardinality(Holders') \in Nat
  BY <1>1, <1>2, CountedType
<1>5. Counted' = Cardinality(Rows') + Cardinality(Holders')
  BY DEF Counted
<1>6. QED
  BY <1>3, <1>4, <1>5 DEF Counted

\* An admitted run adds one.
LEMMA CountGrowsByOne ==
  ASSUME NEW r \in Runs, Rows' \subseteq Rows, Holders' \subseteq Holders \cup {r}
  PROVE  Counted' <= Counted + 1
<1>1. Rows \in SUBSET Runs /\ Holders \in SUBSET Runs
  BY DEF Rows, Holders
<1>2. Rows' \in SUBSET Runs /\ Holders' \in SUBSET Runs
  BY <1>1
<1>3. /\ Cardinality(Rows') <= Cardinality(Rows)
      /\ Cardinality(Holders') <= Cardinality(Holders) + 1
  BY <1>1, SmallerCount, OneMore
<1>4. /\ Cardinality(Rows) \in Nat /\ Cardinality(Holders) \in Nat
      /\ Cardinality(Rows') \in Nat /\ Cardinality(Holders') \in Nat
  BY <1>1, <1>2, CountedType
<1>5. Counted' = Cardinality(Rows') + Cardinality(Holders')
  BY DEF Counted
<1>6. QED
  BY <1>3, <1>4, <1>5 DEF Counted

\* A run whose hold becomes a row is still one.
LEMMA CountMoves ==
  ASSUME NEW r \in Holders, Rows' \subseteq Rows \cup {r}, Holders' \subseteq Holders \ {r}
  PROVE  Counted' <= Counted
<1>1. Rows \in SUBSET Runs /\ Holders \in SUBSET Runs /\ r \in Runs
  BY DEF Rows, Holders
<1>2. Rows' \in SUBSET Runs /\ Holders' \in SUBSET Runs
  BY <1>1
<1>3. /\ Cardinality(Rows') <= Cardinality(Rows) + 1
      /\ Cardinality(Holders') + 1 <= Cardinality(Holders)
  BY <1>1, OneMore, OneLess
<1>4. /\ Cardinality(Rows) \in Nat /\ Cardinality(Holders) \in Nat
      /\ Cardinality(Rows') \in Nat /\ Cardinality(Holders') \in Nat
  BY <1>1, <1>2, CountedType
<1>5. Counted' = Cardinality(Rows') + Cardinality(Holders')
  BY DEF Counted
<1>6. QED
  BY <1>3, <1>4, <1>5 DEF Counted

\* The runs counted are those the rate check adds up.
LEMMA CountedIsToday ==
  ASSUME LedgerTypeOK
  PROVE  /\ SessionsToday(resv) = Counted
         /\ SessionsToday(Swept(resv)) = Counted
<1>1. \A q \in Runs : HoldCounts(Swept(resv), q, "day") <=> HoldCounts(resv, q, "day")
  <2> SUFFICES ASSUME NEW q \in Runs
               PROVE  HoldCounts(Swept(resv), q, "day") <=> HoldCounts(resv, q, "day")
    OBVIOUS
  <2>1. now \in Int /\ resv[q].expires \in Int
    BY TimeAssumption DEF LedgerTypeOK, Reservation
  <2>2. QED
    BY <2>1, SweptRow DEF HoldCounts
<1>2. {q \in Runs : HoldCounts(Swept(resv), q, "day")} = Holders
  BY <1>1 DEF Holders
<1>3. QED
  BY <1>2 DEF SessionsToday, Counted, Rows, Holders

\* The property with the count named.
RateKept ==
  config.enabled /\ config.rate > 0 /\ ~waived["day"] => Counted <= config.rate

\* No run is counted at the start.
LEMMA RateInit == Init => RateKept
<1> SUFFICES ASSUME Init PROVE Counted = 0 /\ config.rate \in Nat
  BY DEF RateKept
<1>1. Rows = {} /\ Holders = {}
  BY DEF Init, LedgerInit, Rows, Holders, SessionCounts, HoldCounts, NoSession, NoReservation
<1>2. QED
  BY <1>1, FS_EmptySet, ConfigAssumption DEF Counted, Init, LedgerInit, Config

\* The ways a step can touch the count.  Only an admission adds to it, and it
\* is checked; a settled run moves from the holds to the rows.
LEMMA CountStep ==
  ASSUME IInv, Next
  PROVE  \/ /\ Rows' \subseteq Rows /\ Holders' \subseteq Holders
            /\ config' = config /\ (~waived["day"]' => ~waived["day"])
         \/ \E r \in Runs :
              /\ Rows' \subseteq Rows /\ Holders' \subseteq Holders \cup {r}
              /\ MayReserve(request[r].auth, request[r].est, FALSE)
              /\ config' = config /\ waived' = waived
         \/ \E r \in Holders :
              /\ Rows' \subseteq Rows \cup {r} /\ Holders' \subseteq Holders \ {r}
              /\ config' = config /\ (~waived["day"]' => ~waived["day"])
         \/ Rows' = {} /\ Holders' = {} /\ config' = config
         \/ waived["day"]'
<1> USE DEF IInv, TypeOK
<1>r. \A q \in Runs : resv[q].expires \in Nat /\ resv[q].created \in Nat
                       /\ sess[q].created \in Nat
  BY DEF LedgerTypeOK, Reservation, Session
<1>s. now' = now /\ resv' = Swept(resv) => Holders' \subseteq Holders
  <2> SUFFICES ASSUME now' = now, resv' = Swept(resv), NEW q \in Runs,
                      HoldCounts(resv, q, "day")'
               PROVE  HoldCounts(resv, q, "day")
    BY DEF Holders
  <2>1. QED
    BY SweptRow DEF HoldCounts, WindowStart
<1>f. ASSUME NEW r \in Runs, NEW cost \in Nat, now' = now, resv' = Finalized(r, cost)
      PROVE  Holders' \subseteq Holders \ {r}
  <2> SUFFICES ASSUME NEW q \in Runs, HoldCounts(resv, q, "day")'
               PROVE  HoldCounts(resv, q, "day") /\ q # r
    BY <1>f DEF Holders
  <2>1. QED
    BY <1>f, FinalizedRow, SweptRow DEF HoldCounts, WindowStart
<1>v. ASSUME NEW r \in Runs, NEW auth, NEW est, NEW override, now' = now,
             resv' = Reserved(r, auth, est, override)
      PROVE  Holders' \subseteq Holders \cup {r}
  <2> SUFFICES ASSUME NEW q \in Runs, HoldCounts(resv, q, "day")', q # r
               PROVE  HoldCounts(resv, q, "day")
    BY <1>v DEF Holders
  <2>1. QED
    BY <1>v, ReservedRow, SweptRow DEF HoldCounts, WindowStart
<1>w. now' = now /\ resv' = resv => Holders' = Holders
  BY DEF Holders, HoldCounts, WindowStart
<1>x. now' = now /\ sess' = sess => Rows' = Rows
  BY DEF Rows, SessionCounts, WindowStart
<1>y. WindowStart("day") \in Int /\ now \in Int
  <2>1. "day" \in Windows /\ now \in 0 .. MaxTime
    BY DEF LedgerTypeOK, Windows
  <2>2. Start["day"][now] \in Nat
    BY <2>1, StartAssumption
  <2>3. QED
    BY <2>1, <2>2, TimeAssumption DEF WindowStart
<1>1. ASSUME NEW r \in Runs, RendererStep(r)
      PROVE  \/ /\ Rows' \subseteq Rows /\ Holders' \subseteq Holders
                /\ config' = config /\ waived' = waived
             \/ /\ Rows' \subseteq Rows /\ Holders' \subseteq Holders \cup {r}
                /\ MayReserve(request[r].auth, request[r].est, FALSE)
                /\ config' = config /\ waived' = waived
             \/ waived["day"]'
  <2>1. CASE RendererReserve(r)
    <3>1. PICK override \in BOOLEAN :
            resv' = Reserved(r, request[r].auth, request[r].est, override)
      BY <2>1 DEF RendererReserve
    <3>2. Holders' \subseteq Holders \cup {r}
      BY <2>1, <3>1, <1>v DEF RendererReserve
    <3>3. QED
      BY <2>1, <3>2, <1>x DEF RendererReserve
  <2>2. CASE Override(r)
    BY <2>2 DEF Override, WaiveAll, Windows
  <2>3. CASE RendererRefused(r)
    BY <2>3, <1>s, <1>x DEF RendererRefused
  <2>4. CASE Cancel(r) \/ Abandon(r) \/ OpenStream(r)
    BY <2>4, <1>w, <1>x DEF Cancel, Abandon, OpenStream, ledgerVars
  <2>5. QED
    BY <1>1, <2>1, <2>2, <2>3, <2>4 DEF RendererStep
<1>2. ASSUME NEW r \in Runs, HandlerStep(r)
      PROVE  /\ Rows' \subseteq Rows /\ config' = config /\ waived' = waived
             /\ \/ Holders' \subseteq Holders
                \/ /\ Holders' \subseteq Holders \cup {r}
                   /\ MayReserve(request[r].auth, request[r].est, FALSE)
  <2>0. Rows' = Rows /\ config' = config /\ waived' = waived /\ now' = now
    BY <1>2, <1>x DEF HandlerStep, DropWhileOpening, RejectPro, StartDebate, BlockStream,
       AdapterFails, ProUnavailable, ReleaseUnavailable, DropUnavailable, ledgerVars
  <2>1. CASE DropWhileOpening(r) \/ RejectPro(r) \/ DropUnavailable(r)
    BY <2>0, <2>1, <1>w DEF DropWhileOpening, RejectPro, DropUnavailable, ledgerVars
  <2>2. CASE StartDebate(r) \/ AdapterFails(r) \/ ProUnavailable(r)
    <3>1. resv' = AdmittedLedger(r) /\ MayStart(r)
      BY <2>2 DEF StartDebate, AdapterFails, ProUnavailable
    <3>2. CASE ~Live(r) \/ HasReservation(r)
      BY <2>0, <3>1, <3>2, <1>w DEF AdmittedLedger
    <3>3. CASE Live(r) /\ ~HasReservation(r)
      <4>1. PICK override \in BOOLEAN :
              resv' = Reserved(r, request[r].auth, request[r].est, override)
        BY <3>1, <3>3 DEF AdmittedLedger
      <4>2. MayReserve(request[r].auth, request[r].est, FALSE)
        BY <3>1, <3>3 DEF MayStart
      <4>3. QED
        BY <2>0, <4>1, <4>2, <1>v
    <3>4. QED
      BY <3>2, <3>3
  <2>3. CASE BlockStream(r)
    BY <2>0, <2>3, <1>s DEF BlockStream
  <2>4. CASE ReleaseUnavailable(r)
    BY <2>0, <2>4, <1>f DEF ReleaseUnavailable
  <2>5. QED
    BY <1>2, <2>1, <2>2, <2>3, <2>4 DEF HandlerStep
<1>z. ASSUME NEW r \in Runs, NEW written \in BOOLEAN, Finalize(r, written, "ended"),
             now' = now
      PROVE  /\ Holders' \subseteq Holders
             /\ written /\ HasReservation(r) => Holders' \subseteq Holders \ {r}
  BY <1>z, <1>f, <1>w DEF Finalize
<1>3. ASSUME NEW r \in Runs, DebateStep(r)
      PROVE  \/ /\ Rows' \subseteq Rows /\ Holders' \subseteq Holders
                /\ config' = config /\ (~waived["day"]' => ~waived["day"])
             \/ /\ r \in Holders
                /\ Rows' \subseteq Rows \cup {r} /\ Holders' \subseteq Holders \ {r}
                /\ config' = config /\ (~waived["day"]' => ~waived["day"])
             \/ waived["day"]'
  <2>1. CASE AgentTurn(r) \/ Complete(r) \/ Disconnect(r)
    BY <2>1, <1>w, <1>x DEF AgentTurn, Complete, Disconnect, ledgerVars
  <2>2. CASE AbortRun(r) \/ Unwind(r)
    BY <2>2, <1>z, <1>x DEF AbortRun, Unwind
  <2>3. CASE Settle(r)
    <3>1. PICK written \in BOOLEAN, stored \in BOOLEAN :
            /\ Finalize(r, written, "ended")
            /\ sess' = IF stored
                         THEN [sess EXCEPT ![r] = SessionRow(request[r].auth, spent[r])]
                         ELSE sess
            /\ waived' = [w \in Windows |->
                            waived[w] \/ (stored /\ Live(r) /\ Lapse(r, written, w))]
      BY <2>3 DEF Settle
    <3>2. now' = now /\ config' = config
      BY <2>3 DEF Settle
    <3>3. "day" \in Windows /\ (~waived["day"]' => ~waived["day"])
      BY <3>1 DEF Windows
    <3>4. CASE ~stored
      BY <3>1, <3>2, <3>3, <3>4, <1>x, <1>z
    <3>5. CASE stored /\ ~Live(r)
      <4>1. ~SessionRow(request[r].auth, spent[r]).live
        BY <3>5 DEF SessionRow, Live
      <4>2. Rows' \subseteq Rows
        BY <3>1, <3>2, <3>5, <4>1 DEF Rows, SessionCounts, WindowStart, LedgerTypeOK
      <4>3. QED
        BY <3>1, <3>2, <3>3, <4>2, <1>z
    <3>6. CASE stored /\ Live(r) /\ Lapse(r, written, "day")
      BY <3>1, <3>3, <3>6
    <3>7. CASE stored /\ Live(r) /\ ~Lapse(r, written, "day")
      <4>1. r \in Holders /\ written /\ HasReservation(r)
        BY <3>7 DEF Lapse, Holders, HoldCounts, HasReservation
      <4>2. Rows' \subseteq Rows \cup {r}
        BY <3>1, <3>2 DEF Rows, SessionCounts, WindowStart, LedgerTypeOK
      <4>3. QED
        BY <3>1, <3>2, <3>3, <4>1, <4>2, <1>z
    <3>8. QED
      BY <3>4, <3>5, <3>6, <3>7
  <2>4. QED
    BY <1>3, <2>1, <2>2, <2>3 DEF DebateStep
<1>4. ASSUME SystemStep
      PROVE  \/ /\ Rows' \subseteq Rows /\ Holders' \subseteq Holders
                /\ config' = config /\ (~waived["day"]' => ~waived["day"])
             \/ Rows' = {} /\ Holders' = {} /\ config' = config
             \/ waived["day"]'
  <2>1. CASE Crash
    BY <2>1, <1>w, <1>x DEF Crash, ledgerVars
  <2>2. CASE Restart \/ Poll
    BY <2>2, <1>s, <1>x DEF Restart, Poll, PollLedger
  <2>3. ASSUME NEW c \in Configs, UpdateConfig(c)
        PROVE  waived["day"]'
    BY <2>3 DEF UpdateConfig, WaiveAll, Windows
  <2>4. ASSUME NEW r \in Runs, DeleteSession(r)
        PROVE  /\ Rows' \subseteq Rows /\ Holders' \subseteq Holders
               /\ config' = config /\ waived' = waived
    BY <2>4, <1>w DEF DeleteSession, DropSession, Rows, SessionCounts, WindowStart,
       LedgerTypeOK, NoSession
  <2>5. CASE Tick
    <3>1. /\ now' = now + 1 /\ config' = config /\ resv' = resv /\ sess' = sess
          /\ now < MaxTime
          /\ waived["day"]' => waived["day"]
          /\ WindowStart("day")' = WindowStart("day") => waived["day"]' = waived["day"]
      BY <2>5 DEF Tick, AdvanceClock, Windows
    <3>2. CASE WindowStart("day")' = WindowStart("day")
      <4>1. Rows' = Rows
        BY <3>1, <3>2 DEF Rows, SessionCounts
      <4>2. Holders' \subseteq Holders
        BY <3>1, <3>2, <1>r, <1>y DEF Holders, HoldCounts
      <4>3. QED
        BY <3>1, <3>2, <4>1, <4>2
    <3>3. CASE WindowStart("day")' # WindowStart("day")
      <4>1. WindowStart("day")' = now + 1
        BY <3>1, <3>3, StartAssumption, TimeAssumption DEF WindowStart, LedgerTypeOK, Windows
      <4>2. \A q \in Runs : resv[q].created <= now /\ sess[q].created <= now
        BY DEF Bookkeeping
      <4>3. Rows' = {}
        BY <3>1, <4>1, <4>2, <1>r, <1>y DEF Rows, SessionCounts
      <4>4. Holders' = {}
        BY <3>1, <4>1, <4>2, <1>r, <1>y DEF Holders, HoldCounts
      <4>5. QED
        BY <3>1, <4>3, <4>4
    <3>4. QED
      BY <3>2, <3>3
  <2>6. QED
    BY <1>4, <2>1, <2>2, <2>3, <2>4, <2>5 DEF SystemStep
<1>5. CASE \E r \in Runs : RendererStep(r)
  BY <1>5, <1>1
<1>6. CASE \E r \in Runs : HandlerStep(r)
  BY <1>6, <1>2
<1>7. CASE \E r \in Runs : DebateStep(r)
  BY <1>7, <1>3
<1>8. QED
  BY <1>4, <1>5, <1>6, <1>7 DEF Next

\* The rate invariant is inductive.
LEMMA RateNext == IInv /\ RateKept /\ [Next]_vars => RateKept'
<1> SUFFICES ASSUME IInv, RateKept, [Next]_vars,
                    config'.enabled, config'.rate > 0, ~waived["day"]'
             PROVE  Counted' <= config'.rate
  BY DEF RateKept
<1>c. /\ Counted \in Nat /\ Counted' \in Nat
      /\ config.rate \in Nat
  <2>1. Rows \in SUBSET Runs /\ Holders \in SUBSET Runs
    BY DEF Rows, Holders
  <2>2. Rows' \in SUBSET Runs /\ Holders' \in SUBSET Runs
    BY DEF Rows, Holders
  <2>3. Counted' = Cardinality(Rows') + Cardinality(Holders')
    BY DEF Counted
  <2>4. config.rate \in Nat
    BY ConfigAssumption DEF IInv, TypeOK, LedgerTypeOK, Config
  <2>5. QED
    BY <2>1, <2>2, <2>3, <2>4, CountedType DEF Counted
<1>1. CASE UNCHANGED vars
  <2>1. Rows' = Rows /\ Holders' = Holders /\ config' = config /\ waived' = waived
    BY <1>1 DEF vars, Rows, Holders, SessionCounts, HoldCounts, WindowStart
  <2>2. Counted' <= Counted
    BY <2>1, CountShrinks
  <2>3. QED
    BY <1>c, <2>1, <2>2 DEF RateKept
<1>2. CASE Next
  <2>1. CASE /\ Rows' \subseteq Rows /\ Holders' \subseteq Holders
             /\ config' = config /\ (~waived["day"]' => ~waived["day"])
    BY <1>c, <2>1, CountShrinks DEF RateKept
  <2>2. ASSUME NEW r \in Runs,
               Rows' \subseteq Rows, Holders' \subseteq Holders \cup {r},
               MayReserve(request[r].auth, request[r].est, FALSE),
               config' = config, waived' = waived
        PROVE  Counted' <= config'.rate
    <3>1. SessionsToday(Swept(resv)) + 1 <= config.rate
      <4>1. ~(SessionsToday(Swept(resv)) + 1 > config.rate)
        BY <2>2 DEF MayReserve, ExceedsAnyCap
      <4>2. SessionsToday(Swept(resv)) \in Nat
        BY <1>c, CountedIsToday DEF IInv, TypeOK
      <4>3. QED
        BY <1>c, <4>1, <4>2
    <3>2. Counted' <= Counted + 1
      BY <2>2, CountGrowsByOne
    <3>3. QED
      BY <1>c, <2>2, <3>1, <3>2, CountedIsToday DEF IInv, TypeOK
  <2>3. ASSUME NEW r \in Holders,
               Rows' \subseteq Rows \cup {r}, Holders' \subseteq Holders \ {r},
               config' = config, ~waived["day"]' => ~waived["day"]
        PROVE  Counted' <= config'.rate
    BY <1>c, <2>3, CountMoves DEF RateKept
  <2>4. CASE Rows' = {} /\ Holders' = {} /\ config' = config
    <3>1. Counted' = 0
      BY <2>4, FS_EmptySet DEF Counted
    <3>2. QED
      BY <1>c, <2>4, <3>1
  <2>5. QED
    BY <1>2, CountStep, <2>1, <2>2, <2>3, <2>4
<1>3. QED
  BY <1>1, <1>2

\* However many debates run side by side, no more live runs count against a day
\* than the sessions-per-day cap allows, unless an override, a change of the
\* caps, or a debate that outlived its hold went past the check that day.
THEOREM RateCapHolds == Spec => []RateRespected
<1>1. Init => RateKept
  BY RateInit
<1>2. IInv /\ RateKept => RateRespected
  BY CountedIsToday DEF RateKept, RateRespected, IInv, TypeOK
<1>3. QED
  BY <1>1, <1>2, RateNext, Inductive, PTL DEF Spec

-------------------------------------------------------------------------------
(***************************************************************************)
(* The dollar caps.                                                        *)
(***************************************************************************)
\* A run's dollars are as many as its amount.
LEMMA Worth ==
  ASSUME NEW r, NEW n \in Nat
  PROVE  IsFiniteSet({r} \X (1 .. n)) /\ Cardinality({r} \X (1 .. n)) = n
<1>1. IsFiniteSet({r}) /\ Cardinality({r}) = 1
  BY FS_Singleton
<1>2. IsFiniteSet(1 .. n) /\ Cardinality(1 .. n) = n
  BY FS_Interval
<1>3. /\ IsFiniteSet({r} \X (1 .. n))
      /\ Cardinality({r} \X (1 .. n)) = Cardinality({r}) * Cardinality(1 .. n)
  BY <1>1, <1>2, FS_Product
<1> QED
  BY <1>1, <1>2, <1>3

\* What amounts come to over some runs is a finite number of dollars.
LEMMA DollarsFinite ==
  ASSUME NEW S \in SUBSET Runs, NEW f \in [Runs -> Nat]
  PROVE  IsFiniteSet(Dollars(S, f)) /\ Cardinality(Dollars(S, f)) \in Nat
<1> DEFINE P == [r \in S |-> {r} \X (1 .. f[r])]
           T == {{r} \X (1 .. f[r]) : r \in S}
<1>1. P \in Surjection(S, T)
  BY DEF Surjection
<1>2. IsFiniteSet(T)
  BY <1>1, CountedType, FS_Surjection
<1>3. \A X \in T : IsFiniteSet(X)
  BY Worth
<1>4. IsFiniteSet(UNION T)
  BY <1>2, <1>3, FS_UNION
<1>5. IsFiniteSet(Dollars(S, f))
  BY <1>4 DEF Dollars
<1> QED
  BY <1>5, FS_CardinalityType

\* Fewer runs at the same amounts come to no more.
LEMMA DollarsShrink ==
  ASSUME NEW A \in SUBSET Runs, NEW B \in SUBSET A,
         NEW f \in [Runs -> Nat], NEW g \in [Runs -> Nat], \A q \in B : g[q] = f[q]
  PROVE  Cardinality(Dollars(B, g)) <= Cardinality(Dollars(A, f))
<1>1. Dollars(B, g) \subseteq Dollars(A, f)
  BY DEF Dollars
<1> QED
  BY <1>1, DollarsFinite, FS_Subset

\* A run that joins adds its amount.
LEMMA DollarsJoin ==
  ASSUME NEW A \in SUBSET Runs, NEW r \in Runs, NEW B \in SUBSET (A \cup {r}),
         NEW f \in [Runs -> Nat], NEW g \in [Runs -> Nat],
         \A q \in B : q # r => g[q] = f[q]
  PROVE  Cardinality(Dollars(B, g)) <= Cardinality(Dollars(A, f)) + g[r]
<1> DEFINE D == {r} \X (1 .. g[r])
           U == Dollars(A, f) \cup D
<1>1. Dollars(B, g) \subseteq U
  BY DEF Dollars
<1>2. IsFiniteSet(D) /\ Cardinality(D) = g[r]
  BY Worth
<1>3. IsFiniteSet(Dollars(A, f)) /\ Cardinality(Dollars(A, f)) \in Nat
  BY DollarsFinite
<1>4. Dollars(A, f) \cap D \subseteq D
  OBVIOUS
<1>5. Cardinality(Dollars(A, f) \cap D) \in Nat
  BY <1>2, <1>4, FS_Subset, FS_CardinalityType
<1> HIDE DEF D
<1>6. /\ IsFiniteSet(U)
      /\ Cardinality(U) = Cardinality(Dollars(A, f)) + Cardinality(D)
                            - Cardinality(Dollars(A, f) \cap D)
  BY <1>2, <1>3, FS_Union
<1>7. Cardinality(Dollars(B, g)) <= Cardinality(U) /\ Cardinality(Dollars(B, g)) \in Nat
  BY <1>1, <1>6, FS_Subset, FS_CardinalityType
<1> QED
  BY <1>2, <1>3, <1>5, <1>6, <1>7

\* A run that leaves takes its amount away.
LEMMA DollarsLeave ==
  ASSUME NEW A \in SUBSET Runs, NEW r \in A, NEW B \in SUBSET (A \ {r}),
         NEW f \in [Runs -> Nat], NEW g \in [Runs -> Nat], \A q \in B : g[q] = f[q]
  PROVE  Cardinality(Dollars(B, g)) + f[r] <= Cardinality(Dollars(A, f))
<1> DEFINE D == {r} \X (1 .. f[r])
           X == Dollars(A, f)
<1>1. Dollars(B, g) \subseteq X \ D
  BY DEF Dollars
<1>2. D \subseteq X
  BY DEF Dollars
<1>3. IsFiniteSet(D) /\ Cardinality(D) = f[r] /\ f[r] \in Nat
  BY Worth
<1>4. IsFiniteSet(X) /\ Cardinality(X) \in Nat
  BY DollarsFinite
<1> HIDE DEF D, X
<1>5. X \cap D = D
  BY <1>2
<1>6. /\ IsFiniteSet(X \ D)
      /\ Cardinality(X \ D) = Cardinality(X) - Cardinality(X \cap D)
  BY <1>4, FS_Difference
<1>7. Cardinality(Dollars(B, g)) <= Cardinality(X \ D) /\ Cardinality(Dollars(B, g)) \in Nat
  BY <1>1, <1>6, FS_Subset, FS_CardinalityType
<1> QED
  BY <1>3, <1>4, <1>5, <1>6, <1>7 DEF X


\* A row carries the auth and the estimate of the request it was made for.
RowsMatch ==
  \A r \in Runs :
    resv[r].status # "none" =>
      resv[r].auth = request[r].auth /\ resv[r].est = request[r].est

\* Rows stay with the request they were made for.
LEMMA MatchNext == IInv /\ RowsMatch /\ [Next]_vars => RowsMatch'
<1> SUFFICES ASSUME IInv, RowsMatch, [Next]_vars PROVE RowsMatch'
  OBVIOUS
<1> USE DEF IInv, TypeOK
<1>t. \A q \in Runs : resv[q] \in Reservation
  BY DEF LedgerTypeOK
<1>s. resv' = Swept(resv) /\ request' = request => RowsMatch'
  BY SweptRow DEF RowsMatch
<1>k. resv' = resv /\ request' = request => RowsMatch'
  BY DEF RowsMatch
<1>v. ASSUME NEW r \in Runs, NEW override, request' = request,
             resv' = Reserved(r, request[r].auth, request[r].est, override)
      PROVE  RowsMatch'
  BY <1>v, ReservedRow, SweptRow DEF RowsMatch
<1>f. ASSUME NEW r \in Runs, NEW cost, request' = request, resv' = Finalized(r, cost)
      PROVE  RowsMatch'
  <2> SUFFICES ASSUME NEW q \in Runs, resv'[q].status # "none"
               PROVE  resv'[q].auth = request[q].auth /\ resv'[q].est = request[q].est
    BY <1>f DEF RowsMatch
  <2>1. /\ resv'[q].auth = resv[q].auth /\ resv'[q].est = resv[q].est
        /\ resv[q].status # "none"
    <3>1. CASE q = r /\ Swept(resv)[r].status = "open"
      <4>1. resv'[q] = [resv[q] EXCEPT !.status = "billed", !.cost = cost]
        BY <1>f, <3>1 DEF Finalized
      <4> QED
        BY <1>t, <3>1, <4>1, SweptRow DEF Reservation
    <3>2. CASE ~(q = r /\ Swept(resv)[r].status = "open")
      <4>1. resv'[q] = Swept(resv)[q]
        BY <1>f, <3>2 DEF Finalized
      <4> QED
        BY <4>1, SweptRow
    <3> QED
      BY <3>1, <3>2
  <2> QED
    BY <2>1 DEF RowsMatch
<1>a. ASSUME NEW r \in Runs, request' = request, resv' = AdmittedLedger(r)
      PROVE  RowsMatch'
  BY <1>a, <1>k, <1>v DEF AdmittedLedger
<1>z. ASSUME NEW r \in Runs, NEW written \in BOOLEAN, Finalize(r, written, "ended"),
             request' = request
      PROVE  RowsMatch'
  BY <1>z, <1>f, <1>k DEF Finalize
<1>1. ASSUME NEW r \in Runs, RendererStep(r) PROVE RowsMatch'
  <2>1. CASE RendererReserve(r)
    BY <2>1, <1>v DEF RendererReserve
  <2>2. CASE Override(r)
    BY <2>2, <1>v DEF Override
  <2>3. CASE RendererRefused(r)
    BY <2>3, <1>s DEF RendererRefused
  <2>4. CASE Cancel(r) \/ Abandon(r) \/ OpenStream(r)
    BY <2>4, <1>k DEF Cancel, Abandon, OpenStream, ledgerVars
  <2> QED
    BY <1>1, <2>1, <2>2, <2>3, <2>4 DEF RendererStep
<1>2. ASSUME NEW r \in Runs, HandlerStep(r) PROVE RowsMatch'
  <2>1. CASE DropWhileOpening(r) \/ RejectPro(r) \/ DropUnavailable(r)
    BY <2>1, <1>k DEF DropWhileOpening, RejectPro, DropUnavailable, ledgerVars
  <2>2. CASE StartDebate(r) \/ AdapterFails(r) \/ ProUnavailable(r)
    BY <2>2, <1>a DEF StartDebate, AdapterFails, ProUnavailable
  <2>3. CASE BlockStream(r)
    BY <2>3, <1>s DEF BlockStream
  <2>4. CASE ReleaseUnavailable(r)
    BY <2>4, <1>f DEF ReleaseUnavailable
  <2> QED
    BY <1>2, <2>1, <2>2, <2>3, <2>4 DEF HandlerStep
<1>3. ASSUME NEW r \in Runs, DebateStep(r) PROVE RowsMatch'
  <2>1. CASE AgentTurn(r) \/ Complete(r) \/ Disconnect(r)
    BY <2>1, <1>k DEF AgentTurn, Complete, Disconnect, ledgerVars
  <2>2. CASE AbortRun(r) \/ Unwind(r) \/ Settle(r)
    BY <2>2, <1>z DEF AbortRun, Unwind, Settle
  <2> QED
    BY <1>3, <2>1, <2>2 DEF DebateStep
<1>4. CASE SystemStep
  <2>1. CASE Crash \/ Tick \/ \E r \in Runs : DeleteSession(r)
    BY <2>1, <1>k DEF Crash, Tick, AdvanceClock, DeleteSession, DropSession, ledgerVars, runVars
  <2>2. CASE Restart \/ Poll \/ \E c \in Configs : UpdateConfig(c)
    BY <2>2, <1>s DEF Restart, Poll, PollLedger, UpdateConfig, SetConfig, runVars
  <2> QED
    BY <1>4, <2>1, <2>2 DEF SystemStep
<1>5. CASE UNCHANGED vars
  BY <1>5, <1>k DEF vars
<1> QED
  BY <1>1, <1>2, <1>3, <1>4, <1>5 DEF Next


\* The parts of a window's spend, before and after a step.
LEMMA SpendParts ==
  ASSUME TypeOK, TypeOK', NEW w \in Windows
  PROVE  /\ BilledSessions(w) \in SUBSET Runs /\ HeldDollars(resv, w) \in SUBSET Runs
         /\ BilledSessions(w)' \in SUBSET Runs /\ HeldDollars(resv, w)' \in SUBSET Runs
         /\ Costs \in [Runs -> Nat] /\ Ests(resv) \in [Runs -> Nat]
         /\ Costs' \in [Runs -> Nat] /\ Ests(resv)' \in [Runs -> Nat]
         /\ \A q \in Runs : /\ Costs[q] = sess[q].cost /\ Costs'[q] = sess'[q].cost
                            /\ Ests(resv)[q] = resv[q].est /\ Ests(resv)'[q] = resv'[q].est
<1>1. /\ \A q \in Runs : sess[q].cost \in Nat /\ resv[q].est \in Nat
      /\ \A q \in Runs : sess'[q].cost \in Nat /\ resv'[q].est \in Nat
  BY DEF TypeOK, LedgerTypeOK, Session, Reservation
<1> QED
  BY <1>1 DEF BilledSessions, HeldDollars, Costs, Ests

\* A window's spend is a number of dollars, before and after a step.
LEMMA SpendType ==
  ASSUME TypeOK, TypeOK', NEW w \in Windows
  PROVE  /\ Spend(resv, w) \in Nat /\ Spend(resv, w)' \in Nat
         /\ Cardinality(Dollars(BilledSessions(w), Costs)) \in Nat
         /\ Cardinality(Dollars(HeldDollars(resv, w), Ests(resv))) \in Nat
         /\ Cardinality(Dollars(BilledSessions(w)', Costs')) \in Nat
         /\ Cardinality(Dollars(HeldDollars(resv, w)', Ests(resv)')) \in Nat
         /\ Spend(resv, w)' = Cardinality(Dollars(BilledSessions(w)', Costs'))
                                + Cardinality(Dollars(HeldDollars(resv, w)', Ests(resv)'))
<1>1. /\ Cardinality(Dollars(BilledSessions(w), Costs)) \in Nat
      /\ Cardinality(Dollars(HeldDollars(resv, w), Ests(resv))) \in Nat
  BY SpendParts, DollarsFinite
<1>2. /\ Cardinality(Dollars(BilledSessions(w)', Costs')) \in Nat
      /\ Cardinality(Dollars(HeldDollars(resv, w)', Ests(resv)')) \in Nat
  BY SpendParts, DollarsFinite
<1>3. Spend(resv, w)' = Cardinality(Dollars(BilledSessions(w)', Costs'))
                          + Cardinality(Dollars(HeldDollars(resv, w)', Ests(resv)'))
  BY DEF Spend, Dollars
<1> QED
  BY <1>1, <1>2, <1>3 DEF Spend

\* A sweep takes nothing out of a window's spend: what it closes counts no more.
LEMMA SpendSwept ==
  ASSUME LedgerTypeOK, NEW w \in Windows
  PROVE  Spend(Swept(resv), w) = Spend(resv, w)
<1>1. \A q \in Runs : HoldCounts(Swept(resv), q, w) <=> HoldCounts(resv, q, w)
  <2> SUFFICES ASSUME NEW q \in Runs
               PROVE  HoldCounts(Swept(resv), q, w) <=> HoldCounts(resv, q, w)
    OBVIOUS
  <2>1. now \in Int /\ resv[q].expires \in Int
    BY TimeAssumption DEF LedgerTypeOK, Reservation
  <2> QED
    BY <2>1, SweptRow DEF HoldCounts
<1>2. HeldDollars(Swept(resv), w) = HeldDollars(resv, w)
  BY <1>1, SweptRow DEF HeldDollars
<1>3. Ests(Swept(resv)) = Ests(resv)
  BY SweptRow DEF Ests
<1> QED
  BY <1>2, <1>3 DEF Spend

\* What the holds of a window do in a step of the ledger.
LEMMA HoldsStep ==
  ASSUME TypeOK, TypeOK', NEW w \in Windows, now' = now, NEW r \in Runs
  PROVE  /\ resv' = resv \/ resv' = Swept(resv) =>
              /\ HeldDollars(resv, w)' \subseteq HeldDollars(resv, w)
              /\ \A q \in Runs : Ests(resv)'[q] = Ests(resv)[q]
         /\ \A cost : resv' = Finalized(r, cost) =>
              /\ HeldDollars(resv, w)' \subseteq HeldDollars(resv, w) \ {r}
              /\ \A q \in HeldDollars(resv, w)' : Ests(resv)'[q] = Ests(resv)[q]
         /\ \A est, override :
              resv' = Reserved(r, request[r].auth, est, override) =>
              /\ HeldDollars(resv, w)' \subseteq HeldDollars(resv, w) \cup {r}
              /\ \A q \in Runs : q # r => Ests(resv)'[q] = Ests(resv)[q]
              /\ Ests(resv)'[r] = est
<1> USE DEF TypeOK
<1>n. \A q \in Runs : Ests(resv)[q] = resv[q].est /\ Ests(resv)'[q] = resv'[q].est
  BY SpendParts
<1>w. WindowStart(w)' = WindowStart(w)
  BY DEF WindowStart
<1>1. ASSUME resv' = resv \/ resv' = Swept(resv)
      PROVE  /\ HeldDollars(resv, w)' \subseteq HeldDollars(resv, w)
             /\ \A q \in Runs : Ests(resv)'[q] = Ests(resv)[q]
  BY <1>1, <1>n, <1>w, SweptRow DEF HeldDollars, HoldCounts
<1>2. ASSUME NEW cost, resv' = Finalized(r, cost)
      PROVE  /\ HeldDollars(resv, w)' \subseteq HeldDollars(resv, w) \ {r}
             /\ \A q \in HeldDollars(resv, w)' : Ests(resv)'[q] = Ests(resv)[q]
  <2>1. HeldDollars(resv, w)' \subseteq HeldDollars(resv, w) \ {r}
    <3> SUFFICES ASSUME NEW q \in Runs, HoldCounts(resv, q, w)', resv'[q].auth = "api_key"
                 PROVE  HoldCounts(resv, q, w) /\ q # r /\ resv[q].auth = "api_key"
      BY <1>2 DEF HeldDollars
    <3> QED
      BY <1>2, <1>w, FinalizedRow, SweptRow DEF HoldCounts
  <2>2. \A q \in Runs \ {r} : resv'[q].est = resv[q].est
    BY <1>2, FinalizedRow, SweptRow
  <2> QED
    BY <1>n, <2>1, <2>2 DEF HeldDollars
<1>3. ASSUME NEW est, NEW override, resv' = Reserved(r, request[r].auth, est, override)
      PROVE  /\ HeldDollars(resv, w)' \subseteq HeldDollars(resv, w) \cup {r}
             /\ \A q \in Runs : q # r => Ests(resv)'[q] = Ests(resv)[q]
             /\ Ests(resv)'[r] = est
  <2>1. HeldDollars(resv, w)' \subseteq HeldDollars(resv, w) \cup {r}
    <3> SUFFICES ASSUME NEW q \in Runs, HoldCounts(resv, q, w)', resv'[q].auth = "api_key", q # r
                 PROVE  HoldCounts(resv, q, w) /\ resv[q].auth = "api_key"
      BY <1>3 DEF HeldDollars
    <3> QED
      BY <1>3, <1>w, ReservedRow, SweptRow DEF HoldCounts
  <2>2. \A q \in Runs : q # r => resv'[q].est = resv[q].est
    BY <1>3, ReservedRow, SweptRow
  <2>3. resv'[r].est = est
    BY <1>3, ReservedRow
  <2> QED
    BY <1>n, <2>1, <2>2, <2>3
<1> QED
  BY <1>1, <1>2, <1>3

\* What those steps do to the dollars held.
LEMMA HeldStep ==
  ASSUME TypeOK, TypeOK', NEW w \in Windows, now' = now, NEW r \in Runs
  PROVE  LET H == Cardinality(Dollars(HeldDollars(resv, w), Ests(resv)))
             HNew == Cardinality(Dollars(HeldDollars(resv, w)', Ests(resv)'))
         IN  /\ resv' = resv \/ resv' = Swept(resv) => HNew <= H
             /\ \A cost : resv' = Finalized(r, cost) =>
                  /\ HNew <= H
                  /\ r \in HeldDollars(resv, w) => HNew + resv[r].est <= H
             /\ \A est, override :
                  resv' = Reserved(r, request[r].auth, est, override) => HNew <= H + est
<1>p. /\ HeldDollars(resv, w) \in SUBSET Runs /\ HeldDollars(resv, w)' \in SUBSET Runs
      /\ Ests(resv) \in [Runs -> Nat] /\ Ests(resv)' \in [Runs -> Nat]
      /\ Ests(resv)[r] = resv[r].est
  BY SpendParts
<1>1. ASSUME resv' = resv \/ resv' = Swept(resv)
      PROVE  Cardinality(Dollars(HeldDollars(resv, w)', Ests(resv)'))
               <= Cardinality(Dollars(HeldDollars(resv, w), Ests(resv)))
  BY <1>1, <1>p, HoldsStep, DollarsShrink
<1>2. ASSUME NEW cost, resv' = Finalized(r, cost)
      PROVE  /\ Cardinality(Dollars(HeldDollars(resv, w)', Ests(resv)'))
                  <= Cardinality(Dollars(HeldDollars(resv, w), Ests(resv)))
             /\ r \in HeldDollars(resv, w) =>
                  Cardinality(Dollars(HeldDollars(resv, w)', Ests(resv)')) + resv[r].est
                    <= Cardinality(Dollars(HeldDollars(resv, w), Ests(resv)))
  <2>1. /\ HeldDollars(resv, w)' \subseteq HeldDollars(resv, w) \ {r}
        /\ \A q \in HeldDollars(resv, w)' : Ests(resv)'[q] = Ests(resv)[q]
    BY <1>2, HoldsStep
  <2> QED
    BY <1>p, <2>1, DollarsShrink, DollarsLeave
<1>3. ASSUME NEW est, NEW override, resv' = Reserved(r, request[r].auth, est, override)
      PROVE  Cardinality(Dollars(HeldDollars(resv, w)', Ests(resv)'))
               <= Cardinality(Dollars(HeldDollars(resv, w), Ests(resv))) + est
  <2>1. /\ HeldDollars(resv, w)' \subseteq HeldDollars(resv, w) \cup {r}
        /\ \A q \in HeldDollars(resv, w)' : q # r => Ests(resv)'[q] = Ests(resv)[q]
        /\ Ests(resv)'[r] = est
    BY <1>3, <1>p, HoldsStep
  <2> QED
    BY <1>p, <2>1, DollarsJoin
<1> QED
  BY <1>1, <1>2, <1>3


\* What a step does to the dollars billed: a stored session adds its cost, that
\* of a free run nothing.
LEMMA BilledStep ==
  ASSUME TypeOK, TypeOK', NEW w \in Windows, now' = now, NEW r \in Runs
  PROVE  LET B == Cardinality(Dollars(BilledSessions(w), Costs))
             BNew == Cardinality(Dollars(BilledSessions(w)', Costs'))
         IN  /\ sess' = sess \/ sess' = [sess EXCEPT ![r] = NoSession] => BNew <= B
             /\ \A auth, cost : sess' = [sess EXCEPT ![r] = SessionRow(auth, cost)] =>
                  BNew <= B + cost /\ (auth # "api_key" => BNew <= B)
<1> USE DEF TypeOK
<1>p. /\ BilledSessions(w) \in SUBSET Runs /\ BilledSessions(w)' \in SUBSET Runs
      /\ Costs \in [Runs -> Nat] /\ Costs' \in [Runs -> Nat]
      /\ \A q \in Runs : Costs[q] = sess[q].cost /\ Costs'[q] = sess'[q].cost
  BY SpendParts
<1>w. WindowStart(w)' = WindowStart(w)
  BY DEF WindowStart
<1>s. sess \in [Runs -> Session]
  BY DEF LedgerTypeOK
<1>1. ASSUME sess' = sess \/ sess' = [sess EXCEPT ![r] = NoSession]
      PROVE  Cardinality(Dollars(BilledSessions(w)', Costs'))
               <= Cardinality(Dollars(BilledSessions(w), Costs))
  <2>1. \A q \in BilledSessions(w)' : q \in BilledSessions(w) /\ sess'[q] = sess[q]
    BY <1>1, <1>w, <1>s DEF BilledSessions, SessionCounts, NoSession
  <2> QED
    BY <1>p, <2>1, DollarsShrink
<1>2. ASSUME NEW auth, NEW cost, sess' = [sess EXCEPT ![r] = SessionRow(auth, cost)]
      PROVE  /\ Cardinality(Dollars(BilledSessions(w)', Costs'))
                  <= Cardinality(Dollars(BilledSessions(w), Costs)) + cost
             /\ auth # "api_key" =>
                  Cardinality(Dollars(BilledSessions(w)', Costs'))
                    <= Cardinality(Dollars(BilledSessions(w), Costs))
  <2>1. /\ \A q \in Runs : q # r => sess'[q] = sess[q]
        /\ sess'[r].cost = cost /\ sess'[r].auth = auth
    BY <1>2, <1>s DEF SessionRow
  <2>2. \A q \in BilledSessions(w)' : q # r => q \in BilledSessions(w)
    BY <2>1, <1>w DEF BilledSessions, SessionCounts
  <2>3. auth # "api_key" => r \notin BilledSessions(w)'
    BY <2>1 DEF BilledSessions
  <2>4. Costs'[r] = cost /\ \A q \in Runs : q # r => Costs'[q] = Costs[q]
    BY <1>p, <2>1
  <2>5. Cardinality(Dollars(BilledSessions(w)', Costs'))
          <= Cardinality(Dollars(BilledSessions(w), Costs)) + cost
    <3>1. BilledSessions(w)' \in SUBSET (BilledSessions(w) \cup {r})
      BY <2>2
    <3>2. \A q \in BilledSessions(w)' : q # r => Costs'[q] = Costs[q]
      BY <1>p, <2>4
    <3> QED
      BY <1>p, <2>4, <3>1, <3>2, DollarsJoin
  <2>6. ASSUME auth # "api_key"
        PROVE  Cardinality(Dollars(BilledSessions(w)', Costs'))
                 <= Cardinality(Dollars(BilledSessions(w), Costs))
    <3>1. BilledSessions(w)' \in SUBSET BilledSessions(w)
      BY <2>2, <2>3, <2>6
    <3>2. \A q \in BilledSessions(w)' : Costs'[q] = Costs[q]
      BY <1>p, <2>3, <2>4, <2>6
    <3> QED
      BY <1>p, <3>1, <3>2, DollarsShrink
  <2> QED
    BY <2>5, <2>6
<1> QED
  BY <1>1, <1>2

\* A window that begins has nothing in it, one that goes on loses what lapses.
LEMMA SpendTick ==
  ASSUME IInv, TypeOK', NEW w \in Windows, Tick
  PROVE  IF WindowStart(w)' = WindowStart(w) THEN Spend(resv, w)' <= Spend(resv, w)
                                             ELSE Spend(resv, w)' = 0
<1> USE DEF IInv, TypeOK
<1>t. /\ now' = now + 1 /\ resv' = resv /\ sess' = sess /\ now < MaxTime
  BY DEF Tick, AdvanceClock
<1>n. now \in Nat /\ WindowStart(w) \in Nat /\ WindowStart(w)' \in Nat
  BY StartAssumption, TimeAssumption DEF LedgerTypeOK, WindowStart
<1>r. \A q \in Runs : /\ resv[q].expires \in Nat /\ resv[q].created \in Nat
                      /\ sess[q].created \in Nat
                      /\ resv[q].created <= now /\ sess[q].created <= now
  BY DEF LedgerTypeOK, Reservation, Session, Bookkeeping
<1>p. /\ BilledSessions(w) \in SUBSET Runs /\ HeldDollars(resv, w) \in SUBSET Runs
      /\ BilledSessions(w)' \in SUBSET Runs /\ HeldDollars(resv, w)' \in SUBSET Runs
      /\ Costs \in [Runs -> Nat] /\ Ests(resv) \in [Runs -> Nat]
      /\ Costs' = Costs /\ Ests(resv)' = Ests(resv)
  BY <1>t, SpendParts DEF Costs, Ests
<1>1. CASE WindowStart(w)' = WindowStart(w)
  <2>1. BilledSessions(w)' \subseteq BilledSessions(w)
    BY <1>1, <1>t DEF BilledSessions, SessionCounts
  <2>2. HeldDollars(resv, w)' \subseteq HeldDollars(resv, w)
    BY <1>1, <1>t, <1>n, <1>r DEF HeldDollars, HoldCounts
  <2>3. /\ Cardinality(Dollars(BilledSessions(w)', Costs'))
             <= Cardinality(Dollars(BilledSessions(w), Costs))
        /\ Cardinality(Dollars(HeldDollars(resv, w)', Ests(resv)'))
             <= Cardinality(Dollars(HeldDollars(resv, w), Ests(resv)))
    BY <1>p, <2>1, <2>2, DollarsShrink
  <2> QED
    BY <1>1, <2>3, SpendType DEF Spend
<1>2. CASE WindowStart(w)' # WindowStart(w)
  <2>1. WindowStart(w)' = now + 1
    BY <1>2, <1>t, StartAssumption, TimeAssumption DEF WindowStart, LedgerTypeOK
  <2>2. BilledSessions(w)' = {} /\ HeldDollars(resv, w)' = {}
    BY <2>1, <1>t, <1>n, <1>r DEF BilledSessions, SessionCounts, HeldDollars, HoldCounts
  <2>3. Dollars({}, Costs') = {} /\ Dollars({}, Ests(resv)') = {}
    BY DEF Dollars
  <2>4. Spend(resv, w)' = Cardinality(Dollars(BilledSessions(w)', Costs'))
                            + Cardinality(Dollars(HeldDollars(resv, w)', Ests(resv)'))
    BY SpendType
  <2>5. Spend(resv, w)' = Cardinality({}) + Cardinality({})
    BY <2>2, <2>3, <2>4
  <2>6. Cardinality({}) = 0
    BY FS_EmptySet
  <2> QED
    BY <1>2, <2>5, <2>6
<1> QED
  BY <1>1, <1>2


\* The ways a step can touch a window's spend.  Only an admission adds to it,
\* and it is checked; a settled run's dollars move from the holds to the bills.
LEMMA SpendStep ==
  ASSUME IInv, RowsMatch, IInv', Next, NEW w \in Windows
  PROVE  \/ /\ config' = config /\ (~waived'[w] => ~waived[w])
            /\ Spend(resv, w)' <= Spend(resv, w)
         \/ /\ config' = config /\ waived' = waived
            /\ \E r \in Runs :
                 /\ Live(r) /\ MayReserve(request[r].auth, request[r].est, FALSE)
                 /\ Spend(resv, w)' <= Spend(resv, w) + request[r].est
         \/ config' = config /\ Spend(resv, w)' = 0
         \/ waived'[w]
<1> USE DEF IInv, TypeOK
<1> DEFINE B == Cardinality(Dollars(BilledSessions(w), Costs))
           H == Cardinality(Dollars(HeldDollars(resv, w), Ests(resv)))
           BNew == Cardinality(Dollars(BilledSessions(w)', Costs'))
           HNew == Cardinality(Dollars(HeldDollars(resv, w)', Ests(resv)'))
<1>b. /\ B \in Nat /\ H \in Nat /\ BNew \in Nat /\ HNew \in Nat
      /\ Spend(resv, w) = B + H /\ Spend(resv, w)' = BNew + HNew
  BY SpendType DEF Spend
<1>h. ASSUME NEW r \in Runs, now' = now
      PROVE  /\ resv' = resv \/ resv' = Swept(resv) => HNew <= H
             /\ \A cost : resv' = Finalized(r, cost) =>
                  /\ HNew <= H
                  /\ r \in HeldDollars(resv, w) => HNew + resv[r].est <= H
             /\ \A est, override :
                  resv' = Reserved(r, request[r].auth, est, override) => HNew <= H + est
  BY <1>h, HeldStep
<1>s. ASSUME NEW r \in Runs, now' = now
      PROVE  /\ sess' = sess \/ sess' = [sess EXCEPT ![r] = NoSession] => BNew <= B
             /\ \A auth, cost : sess' = [sess EXCEPT ![r] = SessionRow(auth, cost)] =>
                  BNew <= B + cost /\ (auth # "api_key" => BNew <= B)
  BY <1>s, BilledStep
<1>w. Runs = {} => BNew = 0 /\ HNew = 0
  <2> SUFFICES ASSUME Runs = {} PROVE BNew = 0 /\ HNew = 0
    OBVIOUS
  <2>1. BilledSessions(w)' = {} /\ HeldDollars(resv, w)' = {}
    BY DEF BilledSessions, HeldDollars
  <2>2. Dollars({}, Costs') = {} /\ Dollars({}, Ests(resv)') = {}
    BY DEF Dollars
  <2> QED
    BY <2>1, <2>2, FS_EmptySet
<1> HIDE DEF B, H, BNew, HNew
<1>q. \A q \in Runs : /\ request[q].est \in Nat /\ spent[q] \in Nat
                      /\ resv[q].status # "none" =>
                           resv[q].auth = request[q].auth /\ resv[q].est = request[q].est
  BY RequestType DEF RowsMatch
<1>k. ASSUME now' = now, sess' = sess, resv' = resv \/ resv' = Swept(resv)
      PROVE  Spend(resv, w)' <= Spend(resv, w)
  <2>1. CASE Runs = {}
    BY <1>b, <1>w, <2>1
  <2>2. CASE Runs # {}
    <3>1. PICK r \in Runs : TRUE
      BY <2>2
    <3> QED
      BY <1>b, <1>h, <1>s, <1>k, <3>1
  <2> QED
    BY <2>1, <2>2
<1>v. ASSUME NEW r \in Runs, NEW override, now' = now, sess' = sess,
             resv' = Reserved(r, request[r].auth, request[r].est, override)
      PROVE  Spend(resv, w)' <= Spend(resv, w) + request[r].est
  <2>1. HNew <= H + request[r].est /\ BNew <= B
    BY <1>v, <1>h, <1>s
  <2> QED
    BY <2>1, <1>b, <1>q
<1>z. ASSUME NEW r \in Runs, NEW written \in BOOLEAN, Finalize(r, written, "ended"), now' = now
      PROVE  /\ HNew <= H
             /\ written /\ HasReservation(r) /\ r \in HeldDollars(resv, w) =>
                  HNew + resv[r].est <= H
  BY <1>z, <1>h DEF Finalize
<1>1. ASSUME NEW r \in Runs, RendererStep(r)
      PROVE  \/ config' = config /\ waived' = waived /\ Spend(resv, w)' <= Spend(resv, w)
             \/ /\ config' = config /\ waived' = waived
                /\ Live(r) /\ MayReserve(request[r].auth, request[r].est, FALSE)
                /\ Spend(resv, w)' <= Spend(resv, w) + request[r].est
             \/ waived'[w]
  <2>1. CASE RendererReserve(r)
    BY <2>1, <1>v DEF RendererReserve
  <2>2. CASE Override(r)
    BY <2>2 DEF Override, WaiveAll
  <2>3. CASE RendererRefused(r)
    BY <2>3, <1>k DEF RendererRefused
  <2>4. CASE Cancel(r) \/ Abandon(r) \/ OpenStream(r)
    BY <2>4, <1>k DEF Cancel, Abandon, OpenStream, ledgerVars
  <2> QED
    BY <1>1, <2>1, <2>2, <2>3, <2>4 DEF RendererStep
<1>2. ASSUME NEW r \in Runs, HandlerStep(r)
      PROVE  /\ config' = config /\ waived' = waived
             /\ \/ Spend(resv, w)' <= Spend(resv, w)
                \/ /\ Live(r) /\ MayReserve(request[r].auth, request[r].est, FALSE)
                   /\ Spend(resv, w)' <= Spend(resv, w) + request[r].est
  <2>0. config' = config /\ waived' = waived /\ now' = now /\ sess' = sess
    BY <1>2 DEF HandlerStep, DropWhileOpening, RejectPro, StartDebate, BlockStream,
       AdapterFails, ProUnavailable, ReleaseUnavailable, DropUnavailable, ledgerVars
  <2>1. CASE DropWhileOpening(r) \/ RejectPro(r) \/ DropUnavailable(r)
    BY <2>0, <2>1, <1>k DEF DropWhileOpening, RejectPro, DropUnavailable, ledgerVars
  <2>2. CASE StartDebate(r) \/ AdapterFails(r) \/ ProUnavailable(r)
    <3>1. resv' = AdmittedLedger(r) /\ MayStart(r)
      BY <2>2 DEF StartDebate, AdapterFails, ProUnavailable
    <3>2. CASE ~Live(r) \/ HasReservation(r)
      BY <2>0, <3>1, <3>2, <1>k DEF AdmittedLedger
    <3>3. CASE Live(r) /\ ~HasReservation(r)
      BY <2>0, <3>1, <3>3, <1>v DEF AdmittedLedger, MayStart
    <3> QED
      BY <3>2, <3>3
  <2>3. CASE BlockStream(r)
    BY <2>0, <2>3, <1>k DEF BlockStream
  <2>4. CASE ReleaseUnavailable(r)
    <3>1. HNew <= H /\ BNew <= B
      BY <2>0, <2>4, <1>h, <1>s DEF ReleaseUnavailable
    <3>2. Spend(resv, w)' <= Spend(resv, w)
      BY <3>1, <1>b
    <3> QED
      BY <2>0, <3>2
  <2> QED
    BY <1>2, <2>1, <2>2, <2>3, <2>4 DEF HandlerStep
<1>3. ASSUME NEW r \in Runs, DebateStep(r)
      PROVE  \/ /\ config' = config /\ (~waived'[w] => ~waived[w])
                /\ Spend(resv, w)' <= Spend(resv, w)
             \/ waived'[w]
  <2>1. CASE AgentTurn(r) \/ Complete(r) \/ Disconnect(r)
    BY <2>1, <1>k DEF AgentTurn, Complete, Disconnect, ledgerVars
  <2>2. CASE AbortRun(r) \/ Unwind(r)
    <3>1. /\ now' = now /\ sess' = sess /\ config' = config /\ waived' = waived
          /\ \E written \in BOOLEAN : Finalize(r, written, "ended")
      BY <2>2 DEF AbortRun, Unwind
    <3>2. HNew <= H /\ BNew <= B
      BY <3>1, <1>z, <1>s
    <3> QED
      BY <3>1, <3>2, <1>b
  <2>3. CASE Settle(r)
    <3>1. PICK written \in BOOLEAN, stored \in BOOLEAN :
            /\ Finalize(r, written, "ended")
            /\ sess' = IF stored
                         THEN [sess EXCEPT ![r] = SessionRow(request[r].auth, spent[r])]
                         ELSE sess
            /\ waived' = [v \in Windows |->
                            waived[v] \/ (stored /\ Live(r) /\ Lapse(r, written, v))]
      BY <2>3 DEF Settle
    <3>2. now' = now /\ config' = config
      BY <2>3 DEF Settle
    <3>3. ~waived'[w] => ~waived[w]
      BY <3>1
    <3>4. HNew <= H
      BY <3>1, <3>2, <1>z
    <3>5. CASE ~stored \/ request[r].auth # "api_key"
      <4>1. BNew <= B
        <5>1. CASE ~stored
          BY <3>1, <3>2, <5>1, <1>s
        <5>2. CASE stored /\ request[r].auth # "api_key"
          <6>1. sess' = [sess EXCEPT ![r] = SessionRow(request[r].auth, spent[r])]
            BY <3>1, <5>2
          <6>2. \A auth, cost : sess' = [sess EXCEPT ![r] = SessionRow(auth, cost)] =>
                  BNew <= B + cost /\ (auth # "api_key" => BNew <= B)
            BY <3>2, <1>s
          <6> QED
            BY <5>2, <6>1, <6>2
        <5> QED
          BY <3>5, <5>1, <5>2
      <4> QED
        BY <3>2, <3>3, <3>4, <4>1, <1>b
    <3>6. CASE stored /\ request[r].auth = "api_key"
      <4>1. Live(r)
        BY <3>6 DEF Live, AuthKinds
      <4>2. CASE Lapse(r, written, w)
        BY <3>1, <3>6, <4>1, <4>2
      <4>3. CASE ~Lapse(r, written, w)
        <5>1. written /\ HoldCounts(resv, r, w) /\ ~(spent[r] > request[r].est)
          BY <4>3 DEF Lapse
        <5>2. resv[r].auth = "api_key" /\ resv[r].est = request[r].est /\ HasReservation(r)
          BY <3>6, <5>1, <1>q DEF HoldCounts, HasReservation
        <5>3. r \in HeldDollars(resv, w)
          BY <5>1, <5>2 DEF HeldDollars
        <5>4. HNew + request[r].est <= H
          BY <3>1, <3>2, <5>1, <5>2, <5>3, <1>z
        <5>5. BNew <= B + spent[r]
          BY <3>1, <3>2, <3>6, <1>s
        <5> QED
          BY <3>2, <3>3, <5>1, <5>4, <5>5, <1>b, <1>q
      <4> QED
        BY <4>2, <4>3
    <3> QED
      BY <3>5, <3>6
  <2> QED
    BY <1>3, <2>1, <2>2, <2>3 DEF DebateStep
<1>4. ASSUME SystemStep
      PROVE  \/ /\ config' = config /\ (~waived'[w] => ~waived[w])
                /\ Spend(resv, w)' <= Spend(resv, w)
             \/ config' = config /\ Spend(resv, w)' = 0
             \/ waived'[w]
  <2>1. CASE Crash
    BY <2>1, <1>k DEF Crash, ledgerVars
  <2>2. CASE Restart \/ Poll
    BY <2>2, <1>k DEF Restart, Poll, PollLedger
  <2>3. ASSUME NEW c \in Configs, UpdateConfig(c)
        PROVE  waived'[w]
    BY <2>3 DEF UpdateConfig, WaiveAll
  <2>4. ASSUME NEW r \in Runs, DeleteSession(r)
        PROVE  config' = config /\ waived' = waived /\ Spend(resv, w)' <= Spend(resv, w)
    <3>1. /\ sess' = [sess EXCEPT ![r] = NoSession] /\ resv' = resv /\ now' = now
          /\ config' = config /\ waived' = waived
      BY <2>4 DEF DeleteSession, DropSession
    <3>2. HNew <= H /\ BNew <= B
      BY <3>1, <1>h, <1>s
    <3> QED
      BY <3>1, <3>2, <1>b
  <2>5. CASE Tick
    <3>1. /\ config' = config
          /\ WindowStart(w)' = WindowStart(w) => waived'[w] = waived[w]
      BY <2>5 DEF Tick, AdvanceClock
    <3> QED
      BY <2>5, <3>1, SpendTick
  <2> QED
    BY <1>4, <2>1, <2>2, <2>3, <2>4, <2>5 DEF SystemStep
<1>5. CASE \E r \in Runs : RendererStep(r)
  BY <1>5, <1>1
<1>6. CASE \E r \in Runs : HandlerStep(r)
  BY <1>6, <1>2
<1>7. CASE \E r \in Runs : DebateStep(r)
  BY <1>7, <1>3
<1> QED
  BY <1>4, <1>5, <1>6, <1>7 DEF Next


\* The property with the rows it rests on.
CapKept == RowsMatch /\ CapRespected

\* The cap invariant is inductive.
LEMMA CapNext == IInv /\ IInv' /\ CapKept /\ [Next]_vars => CapKept'
<1> SUFFICES ASSUME IInv, IInv', CapKept, [Next]_vars PROVE CapKept'
  OBVIOUS
<1>1. RowsMatch'
  BY MatchNext DEF CapKept
<1>2. ASSUME NEW w \in Windows, config'.enabled, config'.cap[w] > 0, ~waived'[w]
      PROVE  Spend(resv, w)' <= config'.cap[w]
  <2>t. /\ Spend(resv, w) \in Nat /\ Spend(resv, w)' \in Nat
        /\ config.cap[w] \in Nat /\ config'.cap[w] \in Nat
    <3>1. /\ config \in [enabled : BOOLEAN, cap : [Windows -> Nat], rate : Nat]
          /\ config' \in [enabled : BOOLEAN, cap : [Windows -> Nat], rate : Nat]
      BY ConfigAssumption DEF IInv, TypeOK, LedgerTypeOK, Config
    <3> QED
      BY <3>1, SpendType DEF IInv
  <2>k. config.enabled /\ config.cap[w] > 0 /\ ~waived[w] => Spend(resv, w) <= config.cap[w]
    BY DEF CapKept, CapRespected
  <2>1. CASE UNCHANGED vars
    <3>1. config' = config /\ waived' = waived /\ Spend(resv, w)' = Spend(resv, w)
      BY <2>1 DEF vars, Spend, BilledSessions, SessionCounts, HeldDollars, HoldCounts, Costs,
         Ests, WindowStart
    <3> QED
      BY <1>2, <2>k, <3>1
  <2>2. CASE Next
    <3>1. CASE /\ config' = config /\ (~waived'[w] => ~waived[w])
               /\ Spend(resv, w)' <= Spend(resv, w)
      BY <1>2, <2>t, <2>k, <3>1
    <3>2. ASSUME config' = config, waived' = waived, NEW r \in Runs, Live(r),
                 MayReserve(request[r].auth, request[r].est, FALSE),
                 Spend(resv, w)' <= Spend(resv, w) + request[r].est
          PROVE  Spend(resv, w)' <= config'.cap[w]
      <4>1. request[r].est \in Nat
        BY RequestType DEF IInv
      <4>2. CASE request[r].auth \in FreeAuth
        <5>1. request[r].est = 0
          BY <4>2, RequestsAssumption DEF FreeAuth, IInv, TypeOK
        <5> QED
          BY <1>2, <2>t, <2>k, <3>2, <5>1
      <4>3. CASE request[r].auth \notin FreeAuth
        <5>1. ~ExceedsAnyCap(Swept(resv), request[r].auth, request[r].est)
          BY <1>2, <3>2 DEF MayReserve
        <5>2. ~(Spend(Swept(resv), w) + request[r].est > config.cap[w])
          BY <1>2, <3>2, <4>3, <5>1 DEF ExceedsAnyCap
        <5>3. Spend(Swept(resv), w) = Spend(resv, w)
          BY SpendSwept DEF IInv, TypeOK
        <5> QED
          BY <2>t, <3>2, <4>1, <5>2, <5>3
      <4> QED
        BY <4>2, <4>3
    <3>3. CASE config' = config /\ Spend(resv, w)' = 0
      BY <1>2, <2>t, <3>3
    <3> QED
      BY <1>2, <2>2, <3>1, <3>2, <3>3, SpendStep DEF CapKept
  <2> QED
    BY <2>1, <2>2
<1>3. CapRespected'
  BY <1>2 DEF CapRespected
<1> QED
  BY <1>1, <1>3 DEF CapKept

\* Nothing is spent at the start.
LEMMA CapInit == Init => CapKept
<1> SUFFICES ASSUME Init PROVE CapKept
  OBVIOUS
<1>1. RowsMatch
  BY DEF Init, LedgerInit, RowsMatch, NoReservation
<1>2. ASSUME NEW w \in Windows, config.cap[w] > 0
      PROVE  Spend(resv, w) <= config.cap[w]
  <2>1. BilledSessions(w) = {} /\ HeldDollars(resv, w) = {}
    BY DEF Init, LedgerInit, BilledSessions, SessionCounts, HeldDollars, HoldCounts,
       NoSession, NoReservation
  <2>2. Dollars({}, Costs) = {} /\ Dollars({}, Ests(resv)) = {}
    BY DEF Dollars
  <2>3. Spend(resv, w) = Cardinality({}) + Cardinality({})
    BY <2>1, <2>2 DEF Spend
  <2>4. Cardinality({}) = 0
    BY FS_EmptySet
  <2>5. config \in [enabled : BOOLEAN, cap : [Windows -> Nat], rate : Nat]
    BY ConfigAssumption DEF Init, LedgerInit, Config
  <2> QED
    BY <1>2, <2>3, <2>4, <2>5
<1> QED
  BY <1>1, <1>2 DEF CapKept, CapRespected

\* However many debates run side by side, what is spent and held in a window
\* stays within the window's cap while the guard is on, unless an override, a
\* change of the caps, a debate that outlived its hold or cost more than its
\* worst case, or a failed finalize went past the check since the window began.
THEOREM DollarCapsHold == Spec => []CapRespected
<1>1. CapKept => CapRespected
  BY DEF CapKept
<1> QED
  BY <1>1, CapInit, CapNext, Inductive, PTL DEF Spec
=============================================================================
