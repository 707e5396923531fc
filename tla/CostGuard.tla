------------------------------ MODULE CostGuard ------------------------------
(***************************************************************************)
(* The budget ledger of engine/cost_guard.py and the `sessions` table of   *)
(* engine/storage.py it reads.  Every function of cost_guard.py is         *)
(* synchronous and runs on the engine's only event-loop thread, so one     *)
(* call is one step: the operators below are the table updates such a call *)
(* makes, and module DebateRuns says who calls them and when.              *)
(*                                                                         *)
(* Money is an integer, time counts ticks.  A reservation is keyed by the  *)
(* run it was made for: a run gets at most one (a refused reserve inserts  *)
(* no row).                                                                *)
(*                                                                         *)
(* A definition under "Mutant" is a wrong variant of the one after it; a   *)
(* property is worth its run when it fails with the wrong variant.         *)
(***************************************************************************)
EXTENDS Integers, FiniteSets

CONSTANTS
  Runs,       \* runs of a debate, each one request of a user
  Start,      \* Start[w][t]: first tick of the day, ISO week or month of t
  TTL,        \* RESERVATION_TTL_SECONDS
  Configs,    \* the cap settings a PUT /cost-guard/config may leave behind
  MaxTime     \* bound: the clock stops here

Windows == {"day", "week", "month"}

\* Kinds of auth that make a run a live one; a stub run has none of them.
AuthKinds == {"api_key", "oauth", "local"}
FreeAuth  == {"oauth", "local"}

Config == [enabled : BOOLEAN, cap : [Windows -> Nat], rate : Nat]

ASSUME RunsAssumption   == IsFiniteSet(Runs)
ASSUME TTLAssumption    == TTL \in Nat
ASSUME ConfigAssumption == Configs \subseteq Config
ASSUME TimeAssumption   == MaxTime \in Nat

\* Windows follow one another without a gap; months need not be equally long.
ASSUME StartAssumption ==
  /\ Start \in [Windows -> [0 .. MaxTime -> Nat]]
  /\ \A w \in Windows, t \in 0 .. MaxTime : Start[w][t] <= t
  /\ \A w \in Windows, t \in 0 .. MaxTime :
       t < MaxTime => Start[w][t + 1] \in {Start[w][t], t + 1}

VARIABLES
  now,      \* the UTC clock
  config,   \* the single row of cost_guard_config
  resv,     \* cost_reservations, by run
  sess      \* sessions, by run

(***************************************************************************)
(* Rows.  "swept" and "billed" are the two ways a reservation gets         *)
(* finalized = 1: by the sweep (finalized_cost_usd stays NULL) and by      *)
(* finalize_reservation (finalized_cost_usd = cost).                       *)
(***************************************************************************)
Reservation ==
  [status  : {"none", "open", "swept", "billed"},
   created : Nat, expires : Nat, est : Nat, auth : AuthKinds,
   override : BOOLEAN, cost : Nat]

Session ==
  [stored : BOOLEAN, live : BOOLEAN, cost : Nat,
   auth : AuthKinds \cup {"none"}, created : Nat]

NoReservation ==
  [status |-> "none", created |-> 0, expires |-> 0, est |-> 0,
   auth |-> "local", override |-> FALSE, cost |-> 0]

NoSession ==
  [stored |-> FALSE, live |-> FALSE, cost |-> 0, auth |-> "none",
   created |-> 0]

LedgerTypeOK ==
  /\ now \in 0 .. MaxTime
  /\ config \in Configs
  /\ resv \in [Runs -> Reservation]
  /\ sess \in [Runs -> Session]

\* _window_start()
WindowStart(w) == Start[w][now]

(***************************************************************************)
(* _sweep_expired_reservations.  initialize() ends with it, and every      *)
(* public function of cost_guard.py begins with initialize().              *)
(***************************************************************************)

Swept(rs) ==
  [r \in Runs |-> IF rs[r].status = "open" /\ rs[r].expires < now
                    THEN [rs[r] EXCEPT !.status = "swept"]
                    ELSE rs[r]]

(***************************************************************************)
(* _compute_spend.  A live session counts from the instant it was stored;  *)
(* a reservation counts while it is open and not expired.  Dollars are     *)
(* summed over api_key rows only, runs are counted whatever their auth.    *)
(***************************************************************************)
SessionCounts(r, w) == sess[r].stored /\ sess[r].live /\ sess[r].created >= WindowStart(w)

\* Mutant: a hold counts until somebody sweeps it.
HoldCountsUntilSwept(rs, r, w) ==
  rs[r].status = "open" /\ rs[r].created >= WindowStart(w)

HoldCounts(rs, r, w) ==
  rs[r].status = "open" /\ rs[r].expires > now /\ rs[r].created >= WindowStart(w)

BilledSessions(w) == {r \in Runs : SessionCounts(r, w) /\ sess[r].auth = "api_key"}

HeldDollars(rs, w) == {r \in Runs : HoldCounts(rs, r, w) /\ rs[r].auth = "api_key"}

\* The dollars an amount per run comes to over the runs of S, told apart by run
\* and number: SQL's SUM is the size of this set, a form that proofs can count.
Dollars(S, amount) == UNION {{r} \X (1 .. amount[r]) : r \in S}

Costs    == [r \in Runs |-> sess[r].cost]
Ests(rs) == [r \in Runs |-> rs[r].est]

Spend(rs, w) ==
  Cardinality(Dollars(BilledSessions(w), Costs))
    + Cardinality(Dollars(HeldDollars(rs, w), Ests(rs)))

SessionsToday(rs) ==
  Cardinality({r \in Runs : SessionCounts(r, "day")})
    + Cardinality({r \in Runs : HoldCounts(rs, r, "day")})

\* Mutants: free runs skip every cap; only the dollars already spent, not those
\* held, are compared.

FreeExceedsNothing(rs, auth, est) ==
  /\ auth \notin FreeAuth
  /\ \/ \E w \in Windows : config.cap[w] > 0 /\ Spend(rs, w) + est > config.cap[w]
     \/ config.rate > 0 /\ SessionsToday(rs) + 1 > config.rate

HeldDollarsIgnored(rs, auth, est) ==
  \/ /\ auth \notin FreeAuth
     /\ \E w \in Windows :
          /\ config.cap[w] > 0
          /\ Cardinality(Dollars(BilledSessions(w), Costs)) + est > config.cap[w]
  \/ config.rate > 0 /\ SessionsToday(rs) + 1 > config.rate

\* _exceeds_any_cap.  A cap of 0 is switched off; subscription and local runs skip the dollar caps.
ExceedsAnyCap(rs, auth, est) ==
  \/ /\ auth \notin FreeAuth
     /\ \E w \in Windows : config.cap[w] > 0 /\ Spend(rs, w) + est > config.cap[w]
  \/ config.rate > 0 /\ SessionsToday(rs) + 1 > config.rate

(***************************************************************************)
(* reserve(): sweep, then check and insert in one transaction.  A refusal  *)
(* rolls the transaction back, but the sweep of initialize() is committed. *)
(***************************************************************************)
MayReserve(auth, est, override) ==
  override \/ ~config.enabled \/ ~ExceedsAnyCap(Swept(resv), auth, est)

Reserved(r, auth, est, override) ==
  [Swept(resv) EXCEPT ![r] =
     [status |-> "open", created |-> now, expires |-> now + TTL, est |-> est,
      auth |-> auth, override |-> override, cost |-> 0]]

(***************************************************************************)
(* finalize_reservation(): a no-op on a row that is finalized already,     *)
(* which the sweep of initialize() may just have done.                     *)
(***************************************************************************)
\* Mutants: the row keeps the difference to its estimate; "AND finalized = 0"
\* is missing.
FinalizedByDelta(r, cost) ==
  [q \in Runs |->
     IF q = r /\ Swept(resv)[r].status = "open"
       THEN [resv[r] EXCEPT !.status = "billed", !.cost = cost - resv[r].est]
       ELSE Swept(resv)[q]]

FinalizedAgain(r, cost) ==
  [Swept(resv) EXCEPT ![r].status = "billed", ![r].cost = cost]

Finalized(r, cost) ==
  [q \in Runs |->
     IF q = r /\ Swept(resv)[r].status = "open"
       THEN [resv[r] EXCEPT !.status = "billed", !.cost = cost]
       ELSE Swept(resv)[q]]

\* The row write_session_from_events() inserts for a complete event stream.
SessionRow(auth, cost) ==
  [stored |-> TRUE, live |-> auth \in AuthKinds, cost |-> cost, auth |-> auth,
   created |-> now]

(***************************************************************************)
(* The steps that involve no run.                                          *)
(***************************************************************************)
LedgerInit ==
  /\ now = 0
  /\ config \in Configs
  /\ resv = [r \in Runs |-> NoReservation]
  /\ sess = [r \in Runs |-> NoSession]

\* get_state() and check(), polled by the status strip: they sweep.
PollLedger ==
  /\ resv' = Swept(resv)
  /\ UNCHANGED <<now, config, sess>>

\* update_config(), through initialize() and get_config().
SetConfig(c) ==
  /\ config' = c
  /\ resv' = Swept(resv)
  /\ UNCHANGED <<now, sess>>

\* storage.delete_session(), the History page's delete button.
DropSession(r) ==
  /\ sess[r].stored
  /\ sess' = [sess EXCEPT ![r] = NoSession]
  /\ UNCHANGED <<now, config, resv>>

AdvanceClock ==
  /\ now < MaxTime
  /\ now' = now + 1
  /\ UNCHANGED <<config, resv, sess>>
=============================================================================
