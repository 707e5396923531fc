-------------------------- MODULE MemoryLog_proofs ---------------------------
(***************************************************************************)
(* Lemmas about the operations of the decision log, for any log, rotation  *)
(* limit and set of outcomes: what a rewrite keeps, what it changes, and   *)
(* what a context shows.                                                   *)
(***************************************************************************)
EXTENDS MemoryLog, FiniteSetTheorems, SequenceTheorems, TLAPS

Logs == Seq(Entries)

\* new holds some entries of old, each once.
Picks(new, old, pos) ==
  /\ pos \in [DOMAIN new -> DOMAIN old]
  /\ \A a, b \in DOMAIN new : pos[a] = pos[b] => a = b
  /\ \A a \in DOMAIN new : new[a] = old[pos[a]]

LEMMA KeptFacts ==
  ASSUME NEW log \in Logs
  PROVE  /\ Kept(log) \subseteq 1 .. Len(log) /\ IsFiniteSet(Kept(log))
         /\ Cardinality(Kept(log)) \in Nat
         /\ \A i \in Kept(log) : KeptUpTo(log, i) \in 1 .. Cardinality(Kept(log))
         /\ \A i, j \in Kept(log) : KeptUpTo(log, i) = KeptUpTo(log, j) => i = j
<1> DEFINE S == Kept(log)
           UpTo(i) == {j \in S : j <= i}
<1>1. S \subseteq 1 .. Len(log) /\ Len(log) \in Nat
  BY LenProperties DEF Kept, Logs
<1>2. IsFiniteSet(S) /\ Cardinality(S) \in Nat
  <2>1. IsFiniteSet(1 .. Len(log))
    BY <1>1, FS_Interval
  <2> QED
    BY <1>1, <2>1, FS_Subset, FS_CardinalityType
<1> HIDE DEF S
<1>3. ASSUME NEW i \in S
      PROVE  IsFiniteSet(UpTo(i)) /\ Cardinality(UpTo(i)) \in 1 .. Cardinality(S)
  <2>1. UpTo(i) \in SUBSET S /\ i \in UpTo(i)
    BY <1>1
  <2>2. IsFiniteSet(UpTo(i)) /\ Cardinality(UpTo(i)) <= Cardinality(S) /\ Cardinality(UpTo(i)) \in Nat
    BY <1>2, <2>1, FS_Subset, FS_CardinalityType
  <2>3. Cardinality(UpTo(i)) # 0
    BY <2>1, <2>2, FS_EmptySet
  <2> QED
    BY <1>2, <2>2, <2>3
<1>4. ASSUME NEW i \in S, NEW j \in S, i < j
      PROVE  Cardinality(UpTo(i)) # Cardinality(UpTo(j))
  <2>1. i \in Int /\ j \in Int /\ \A k \in S : k \in Int
    BY <1>1
  <2>2. UpTo(i) \in SUBSET UpTo(j)
    <3>1. \A k \in S : k <= i => k <= j
      BY <1>4, <2>1
    <3> QED
      BY <3>1
  <2>3. j \in UpTo(j) /\ j \notin UpTo(i)
    BY <1>4, <2>1
  <2>4. IsFiniteSet(UpTo(j))
    BY <1>3
  <2>5. UpTo(i) # UpTo(j)
    BY <2>3
  <2>6. \A A, B : IsFiniteSet(B) /\ A \in SUBSET B /\ Cardinality(B) = Cardinality(A) => B = A
    BY FS_Subset
  <2> QED
    BY <2>2, <2>4, <2>5, <2>6
<1>5. ASSUME NEW i \in S, NEW j \in S, Cardinality(UpTo(i)) = Cardinality(UpTo(j))
      PROVE  i = j
  <2>1. i \in Int /\ j \in Int
    BY <1>1
  <2> QED
    BY <1>4, <1>5, <2>1
<1> QED
  BY <1>1, <1>2, <1>3, <1>5 DEF KeptUpTo, S

\* The rank of a kept entry runs through all numbers: the n-th is there.
LEMMA NthKept ==
  ASSUME NEW log \in Logs, NEW n \in 1 .. Cardinality(Kept(log))
  PROVE  \E i \in Kept(log) : KeptUpTo(log, i) = n
<1> DEFINE S == Kept(log)
           T == 1 .. Cardinality(S)
           rank == [i \in S |-> KeptUpTo(log, i)]
<1>1. IsFiniteSet(T) /\ Cardinality(T) = Cardinality(S)
  BY KeptFacts, FS_Interval
<1>2. rank \in Injection(S, T)
  BY KeptFacts DEF Injection, IsInjective
<1>3. rank \in Surjection(S, T)
  BY <1>1, <1>2, FS_Injection
<1> QED
  BY <1>3 DEF Surjection

\* Rotation keeps every pending entry, and makes no entry up.
LEMMA RotatedPicks ==
  ASSUME NEW log \in Logs
  PROVE  /\ Rotated(log) \in Logs
         /\ \E pos : /\ Picks(Rotated(log), log, pos)
                     /\ \A i \in DOMAIN log : log[i].pending => \E k \in DOMAIN Rotated(log) : pos[k] = i
<1>0. DOMAIN log = 1 .. Len(log) /\ Len(log) \in Nat
  BY LenProperties DEF Logs
<1>1. CASE MaxLessons = 0 \/ ResolvedUpTo(log, Len(log)) <= MaxLessons
  <2>1. Rotated(log) = log
    BY <1>1 DEF Rotated
  <2> DEFINE pos == [i \in DOMAIN log |-> i]
  <2>2. Picks(log, log, pos) /\ \A i \in DOMAIN log : pos[i] = i
    BY DEF Picks
  <2> HIDE DEF pos
  <2> QED
    BY <2>1, <2>2
<1>2. CASE ~(MaxLessons = 0 \/ ResolvedUpTo(log, Len(log)) <= MaxLessons)
  <2> DEFINE n == Cardinality(Kept(log))
             pos == [k \in 1 .. n |-> CHOOSE i \in Kept(log) : KeptUpTo(log, i) = k]
             r == Rotated(log)
  <2>1. n \in Nat
    BY KeptFacts
  <2>2. r = [k \in 1 .. n |-> log[CHOOSE i \in Kept(log) : KeptUpTo(log, i) = k]]
    BY <1>2 DEF Rotated
  <2>3. DOMAIN r = 1 .. n
    BY <2>2
  <2>4. ASSUME NEW k \in 1 .. n
        PROVE  pos[k] \in Kept(log) /\ KeptUpTo(log, pos[k]) = k /\ r[k] = log[pos[k]]
    <3>1. \E i \in Kept(log) : KeptUpTo(log, i) = k
      BY NthKept
    <3> QED
      BY <2>2, <3>1
  <2>5. Picks(r, log, pos)
    <3>1. pos \in [DOMAIN r -> DOMAIN log]
      BY <1>0, <2>3, <2>4, KeptFacts
    <3> QED
      BY <2>3, <2>4, <3>1 DEF Picks
  <2>6. r \in Logs
    <3>1. \A k \in 1 .. n : r[k] \in Entries
      BY <1>0, <2>4, KeptFacts, ElementOfSeq DEF Logs
    <3>2. r \in [1 .. n -> Entries]
      BY <2>2, <3>1
    <3> QED
      BY <2>1, <3>2 DEF Logs
  <2>7. ASSUME NEW i \in DOMAIN log, log[i].pending
        PROVE  \E k \in DOMAIN r : pos[k] = i
    <3>1. i \in Kept(log)
      BY <2>7 DEF Kept
    <3>2. KeptUpTo(log, i) \in 1 .. n
      BY <3>1, KeptFacts
    <3>3. pos[KeptUpTo(log, i)] = i
      BY <2>4, <3>1, <3>2, KeptFacts
    <3> QED
      BY <2>3, <3>2, <3>3
  <2> QED
    BY <2>5, <2>6, <2>7
<1> QED
  BY <1>1, <1>2

-------------------------------------------------------------------------------
(* A rewrite with the outcomes of some jobs. *)

\* An entry is left as it was, or it was pending for one of the jobs and has its
\* outcome now.
Amends(new, old, jobs) ==
  \/ new = old
  \/ /\ old.pending /\ \E job \in jobs : IsOf(old, job)
     /\ new = Resolved(old, OutcomeDay(old))

LEMMA OutcomeFacts ==
  ASSUME NEW e \in Entries
  PROVE  LET r == Resolved(e, OutcomeDay(e))
         IN  r \in Entries /\ r.ticker = e.ticker /\ r.date = e.date
               /\ ~r.pending /\ r.resolved = OutcomeDay(e)
<1>1. OutcomeDay(e) \in Nat
  <2>1. e.date \in Nat
    BY DEF Entries
  <2> QED
    BY <2>1, LessonsAssumption DEF OutcomeDay
<1>2. \A day \in Nat :
        LET r == Resolved(e, day)
        IN  r \in Entries /\ r.ticker = e.ticker /\ r.date = e.date /\ ~r.pending /\ r.resolved = day
  BY DEF Entries, Resolved
<1> QED
  BY <1>1, <1>2

LEMMA ReflectedFacts ==
  ASSUME NEW log \in Logs, NEW jobs
  PROVE  LET r == Reflected(log, jobs)
         IN  /\ r \in Logs /\ DOMAIN r = DOMAIN log
             /\ \A i \in DOMAIN log : Amends(r[i], log[i], jobs)
<1> DEFINE r == Reflected(log, jobs)
<1>1. DOMAIN log = 1 .. Len(log) /\ Len(log) \in Nat /\ \A i \in DOMAIN log : log[i] \in Entries
  BY LenProperties, ElementOfSeq DEF Logs
<1>2. DOMAIN r = DOMAIN log
  BY DEF Reflected
<1>3. ASSUME NEW i \in DOMAIN log
      PROVE  Amends(r[i], log[i], jobs) /\ r[i] \in Entries
  <2>1. r[i] = IF FirstOf(log, jobs, i) THEN Resolved(log[i], OutcomeDay(log[i])) ELSE log[i]
    BY <1>3 DEF Reflected
  <2>2. FirstOf(log, jobs, i) => log[i].pending /\ \E job \in jobs : IsOf(log[i], job)
    BY DEF FirstOf
  <2>3. log[i] \in Entries /\ Resolved(log[i], OutcomeDay(log[i])) \in Entries
    BY <1>1, <1>3, OutcomeFacts
  <2> QED
    BY <2>1, <2>2, <2>3 DEF Amends
<1>4. r = [i \in 1 .. Len(log) |-> r[i]]
  BY <1>1 DEF Reflected
<1>5. r \in [1 .. Len(log) -> Entries]
  BY <1>1, <1>3, <1>4
<1>6. r \in Logs
  BY <1>1, <1>5 DEF Logs
<1> QED
  BY <1>2, <1>3, <1>6

\* What a rewrite leaves: entries of the log, each at most once, as they were or
\* with their outcome; and every pending entry without an outcome.
LEMMA UpdatedPicks ==
  ASSUME NEW log \in Logs, NEW jobs
  PROVE  LET new == Updated(log, jobs)
         IN  /\ new \in Logs
             /\ \E pos : /\ pos \in [DOMAIN new -> DOMAIN log]
                         /\ \A a, b \in DOMAIN new : pos[a] = pos[b] => a = b
                         /\ \A a \in DOMAIN new : Amends(new[a], log[pos[a]], jobs)
             /\ \A i \in DOMAIN log :
                  log[i].pending /\ (\A job \in jobs : ~IsOf(log[i], job))
                    => \E k \in DOMAIN new : new[k] = log[i]
<1> DEFINE r == Reflected(log, jobs)
           new == Updated(log, jobs)
<1>1. /\ r \in Logs /\ DOMAIN r = DOMAIN log
      /\ \A i \in DOMAIN log : Amends(r[i], log[i], jobs)
  BY ReflectedFacts
<1>2. new = Rotated(r)
  BY DEF Updated
<1> HIDE DEF r, new
<1>3. new \in Logs
  BY <1>1, <1>2, RotatedPicks
<1>4. PICK pos : /\ Picks(new, r, pos)
                 /\ \A i \in DOMAIN r : r[i].pending => \E k \in DOMAIN new : pos[k] = i
  BY <1>1, <1>2, RotatedPicks
<1>5. /\ pos \in [DOMAIN new -> DOMAIN log]
      /\ \A a, b \in DOMAIN new : pos[a] = pos[b] => a = b
      /\ \A a \in DOMAIN new : new[a] = r[pos[a]]
  BY <1>1, <1>4 DEF Picks
<1>6. \A a \in DOMAIN new : Amends(new[a], log[pos[a]], jobs)
  BY <1>1, <1>5
<1>7. ASSUME NEW i \in DOMAIN log, log[i].pending, \A job \in jobs : ~IsOf(log[i], job)
      PROVE  \E k \in DOMAIN new : new[k] = log[i]
  <2>1. r[i] = log[i]
    BY <1>1, <1>7 DEF Amends
  <2>2. PICK k \in DOMAIN new : pos[k] = i
    BY <1>1, <1>4, <1>7, <2>1
  <2> QED
    BY <1>5, <2>1, <2>2
<1> QED
  BY <1>3, <1>5, <1>6, <1>7 DEF new

\* A rewrite makes no second pending entry of a job.
LEMMA UpdatedSingle ==
  ASSUME NEW log \in Logs, NEW jobs, SinglePending(log)
  PROVE  SinglePending(Updated(log, jobs))
<1> DEFINE new == Updated(log, jobs)
<1>1. PICK pos : /\ pos \in [DOMAIN new -> DOMAIN log]
                 /\ \A a, b \in DOMAIN new : pos[a] = pos[b] => a = b
                 /\ \A a \in DOMAIN new : Amends(new[a], log[pos[a]], jobs)
  BY UpdatedPicks
<1>2. \A i \in DOMAIN log : log[i] \in Entries
  BY LenProperties, ElementOfSeq DEF Logs
<1> HIDE DEF new
<1>3. ASSUME NEW a \in DOMAIN new, new[a].pending PROVE new[a] = log[pos[a]]
  BY <1>1, <1>2, <1>3, OutcomeFacts DEF Amends
<1>4. ASSUME NEW a \in DOMAIN new, NEW b \in DOMAIN new,
             new[a].pending, new[b].pending, IsOf(new[a], new[b])
      PROVE  a = b
  BY <1>1, <1>3, <1>4 DEF SinglePending
<1> QED
  BY <1>4 DEF SinglePending, new

\* No outcome in the log is from a day to come.
KnownBy(log, day) == \A i \in DOMAIN log : ~log[i].pending => log[i].resolved <= day

LEMMA UpdatedKnown ==
  ASSUME NEW log \in Logs, NEW jobs, NEW day, KnownBy(log, day),
         \A job \in jobs : OutcomeDay(job) <= day
  PROVE  KnownBy(Updated(log, jobs), day)
<1> DEFINE new == Updated(log, jobs)
<1>1. PICK pos : /\ pos \in [DOMAIN new -> DOMAIN log]
                 /\ \A a \in DOMAIN new : Amends(new[a], log[pos[a]], jobs)
  BY UpdatedPicks
<1>2. \A i \in DOMAIN log : log[i] \in Entries
  BY LenProperties, ElementOfSeq DEF Logs
<1> HIDE DEF new
<1>3. ASSUME NEW a \in DOMAIN new, ~new[a].pending PROVE new[a].resolved <= day
  <2>1. CASE new[a] = log[pos[a]]
    BY <1>1, <1>3, <2>1 DEF KnownBy
  <2>2. CASE new[a] # log[pos[a]]
    <3>1. PICK job \in jobs : IsOf(log[pos[a]], job)
      BY <1>1, <2>2 DEF Amends
    <3>2. new[a].resolved = OutcomeDay(log[pos[a]])
      BY <1>1, <1>2, <2>2, OutcomeFacts DEF Amends
    <3>3. OutcomeDay(log[pos[a]]) = OutcomeDay(job)
      BY <3>1 DEF IsOf, OutcomeDay
    <3> QED
      BY <3>2, <3>3
  <2> QED
    BY <2>1, <2>2
<1> QED
  BY <1>3 DEF KnownBy, new

-------------------------------------------------------------------------------
(* A stored decision and a context. *)

LEMMA StoredFacts ==
  ASSUME NEW log \in Logs, NEW job, job.ticker \in STRING, job.date \in Nat,
         NEW d, ParseRating(d) \in Ratings
  PROVE  LET new == Stored(log, job, d)
         IN  /\ new \in Logs
             /\ DOMAIN log \subseteq DOMAIN new
             /\ \A i \in DOMAIN log : new[i] = log[i]
             /\ \A i \in DOMAIN new \ DOMAIN log : new[i].pending
             /\ \E i \in DOMAIN new : IsOf(new[i], job)
             /\ SinglePending(log) => SinglePending(new)
<1> DEFINE new == Stored(log, job, d)
           e == Pending(job, d)
<1>1. e \in Entries /\ e.pending /\ IsOf(e, job)
  BY DEF Pending, Entries, IsOf
<1> HIDE DEF e
<1>2. CASE HasPending(log, job)
  <2>1. new = log
    BY <1>2 DEF Stored
  <2>2. \E i \in DOMAIN log : IsOf(log[i], job)
    BY <1>2 DEF HasPending
  <2> HIDE DEF new
  <2>3. DOMAIN new \ DOMAIN log = {}
    BY <2>1
  <2> QED
    BY <2>1, <2>2, <2>3 DEF new
<1>3. CASE ~HasPending(log, job)
  <2>1. new = Append(log, e)
    BY <1>3 DEF Stored, e
  <2> HIDE DEF new
  <2>2. /\ new \in Logs /\ Len(new) = Len(log) + 1
        /\ \A i \in 1 .. Len(log) : new[i] = log[i]
        /\ new[Len(log) + 1] = e
    BY <1>1, <2>1, AppendProperties DEF Logs
  <2>3. /\ DOMAIN log = 1 .. Len(log) /\ Len(log) \in Nat
        /\ DOMAIN new = 1 .. Len(log) + 1
    BY <2>2, LenProperties DEF Logs
  <2>4. \A i \in DOMAIN log : ~(log[i].pending /\ IsOf(log[i], job))
    BY <1>3 DEF HasPending
  <2>5. \A i \in DOMAIN new : i \in DOMAIN log \/ i = Len(log) + 1
    BY <2>3
  <2>6. ASSUME SinglePending(log) PROVE SinglePending(new)
    <3>1. \A i \in DOMAIN log : ~(log[i].pending /\ (IsOf(log[i], e) \/ IsOf(e, log[i])))
      BY <1>1, <2>4 DEF IsOf
    <3>2. ASSUME NEW i \in DOMAIN new, NEW k \in DOMAIN new,
                 new[i].pending, new[k].pending, IsOf(new[i], new[k])
          PROVE  i = k
      BY <2>2, <2>3, <2>5, <2>6, <3>1, <3>2 DEF SinglePending
    <3> QED
      BY <3>2 DEF SinglePending
  <2>7. DOMAIN log \subseteq DOMAIN new /\ Len(log) + 1 \in DOMAIN new
    BY <2>3
  <2> QED
    BY <1>1, <2>2, <2>3, <2>5, <2>6, <2>7 DEF new
<1> QED
  BY <1>2, <1>3

\* A context shows entries of the log whose outcome was known by its cutoff.
LEMMA ContextFacts ==
  ASSUME NEW log \in Logs, NEW ticker, NEW asOf, NEW e \in PastContext(log, ticker, asOf)
  PROVE  /\ e \in Entries
         /\ \E i \in DOMAIN log : e = log[i] /\ ~log[i].pending
         /\ \A day \in asOf : e.resolved <= day
<1> DEFINE known(x) == ~x.pending /\ \A day \in asOf : x.resolved <= day
           same(x) == known(x) /\ x.ticker = ticker
           cross(x) == known(x) /\ x.ticker # ticker
<1>a. e \in Newest(log, same, NSame) \/ e \in Newest(log, cross, NCross)
  BY DEF PastContext
<1>b. e \in Newest(log, same, NSame) => \E i \in DOMAIN log : e = log[i] /\ known(e)
  BY DEF Newest
<1>c. e \in Newest(log, cross, NCross) => \E i \in DOMAIN log : e = log[i] /\ known(e)
  BY DEF Newest
<1>1. PICK i \in DOMAIN log : e = log[i] /\ known(e)
  BY <1>a, <1>b, <1>c
<1>2. log[i] \in Entries
  BY LenProperties, ElementOfSeq DEF Logs
<1> QED
  BY <1>1, <1>2
=============================================================================
