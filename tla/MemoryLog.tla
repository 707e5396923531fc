----------------------------- MODULE MemoryLog ------------------------------
(***************************************************************************)
(* The decision log of the Pro graph (agents/utils/memory.py): a file of   *)
(* entries in the order they were appended.  An entry is pending until the *)
(* outcome of its decision is known, and a lesson from then on.  The file  *)
(* is the sequence, an operation of the class is a function of it.         *)
(***************************************************************************)
EXTENDS Naturals, Sequences, FiniteSets, SequencesExt

CONSTANTS
  Holding,     \* holding_days: an outcome is known that many days after the date
  MaxLessons,  \* memory_log_max_entries; 0 disables rotation
  NSame,       \* lessons of the same ticker in a context
  NCross       \* lessons of other tickers in a context

ASSUME LessonsAssumption == /\ Holding \in Nat /\ MaxLessons \in Nat
                            /\ NSame \in Nat /\ NCross \in Nat

NoRating == "none"
Ratings == {"Buy", "Overweight", "Hold", "Underweight", "Sell"}

(* What the Portfolio Manager wrote: a labelled rating, a rating word somewhere
   in prose, or neither. *)
Decision(form, rating) == [form |-> form, rating |-> rating]

(* extract_rating; parse_rating falls back to Hold, the signal to REVIEW *)
ExtractRating(d) == IF d.form = "neither" THEN NoRating ELSE d.rating
ParseRating(d) == IF ExtractRating(d) = NoRating THEN "Hold" ELSE ExtractRating(d)
ProcessSignal(d) == IF ExtractRating(d) = NoRating THEN "REVIEW" ELSE ExtractRating(d)

(* _parse_entry gives back what the tags hold *)
Entries ==
  [ticker : STRING, date : Nat, rating : Ratings, pending : BOOLEAN, resolved : Nat]
Pending(job, d) ==
  [ticker |-> job.ticker, date |-> job.date, rating |-> ParseRating(d),
   pending |-> TRUE, resolved |-> 0]
Resolved(e, day) == [e EXCEPT !.pending = FALSE, !.resolved = day]

IsOf(e, job) == e.ticker = job.ticker /\ e.date = job.date
SinglePending(log) ==
  \A i, k \in DOMAIN log :
    log[i].pending /\ log[k].pending /\ IsOf(log[i], log[k]) => i = k
HasPending(log, job) == \E i \in DOMAIN log : log[i].pending /\ IsOf(log[i], job)
PendingOf(log, ticker) ==
  {log[i] : i \in {j \in DOMAIN log : log[j].pending /\ log[j].ticker = ticker}}

(* store_decision *)
\* Mutant: a rerun is not recognised.
StoredAgain(log, job, d) == Append(log, Pending(job, d))
Stored(log, job, d) ==
  IF HasPending(log, job) THEN log ELSE Append(log, Pending(job, d))

(* _fetch_returns: the outcome is known once the whole window has traded, and
   is dated by the window's last bar *)
OutcomeDay(e) == e.date + Holding
Settles(e, today) == OutcomeDay(e) <= today

(* _apply_rotation: the first resolved entries go, as many as there are too
   many; a pending entry stays wherever it stands *)
ResolvedUpTo(log, i) == Cardinality({j \in 1..i : ~log[j].pending})
\* Mutant: the oldest entries go, pending or not.
RotatedAny(log) ==
  IF MaxLessons = 0 \/ Len(log) <= MaxLessons THEN log
  ELSE SubSeq(log, Len(log) - MaxLessons + 1, Len(log))
Kept(log) ==
  {i \in DOMAIN log : \/ log[i].pending
                       \/ ResolvedUpTo(log, i) > ResolvedUpTo(log, Len(log)) - MaxLessons}
KeptUpTo(log, i) == Cardinality({j \in Kept(log) : j <= i})
Rotated(log) ==
  IF MaxLessons = 0 \/ ResolvedUpTo(log, Len(log)) <= MaxLessons THEN log
  ELSE [k \in 1..Cardinality(Kept(log)) |->
          log[CHOOSE i \in Kept(log) : KeptUpTo(log, i) = k]]

(* batch_update_with_outcomes: the first pending entry of each update *)
FirstOf(log, jobs, i) ==
  /\ log[i].pending
  /\ \E job \in jobs : IsOf(log[i], job)
  /\ \A j \in 1..(i - 1) : ~(log[j].pending /\ IsOf(log[j], log[i]))
Reflected(log, jobs) ==
  [i \in DOMAIN log |->
     IF FirstOf(log, jobs, i) THEN Resolved(log[i], OutcomeDay(log[i])) ELSE log[i]]
Updated(log, jobs) == Rotated(Reflected(log, jobs))

(* get_past_context: lessons only, known by as_of when one is given, the newest
   of each kind; asOf holds the cutoff, or nothing *)
Newest(log, Known(_), n) ==
  {log[i] : i \in {j \in DOMAIN log :
                     /\ Known(log[j])
                     /\ Cardinality({k \in DOMAIN log : k > j /\ Known(log[k])}) < n}}
PastContext(log, ticker, asOf) ==
  LET known(e) == ~e.pending /\ \A day \in asOf : e.resolved <= day
      same(e) == known(e) /\ e.ticker = ticker
      cross(e) == known(e) /\ e.ticker # ticker
  IN  Newest(log, same, NSame) \cup Newest(log, cross, NCross)
=============================================================================
