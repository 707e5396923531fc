-------------------------- MODULE TelegramBot_proofs --------------------------
(***************************************************************************)
(* Proofs about TelegramBot, for any chats, cap, faults and bounds: type   *)
(* correctness; that whatever is restarted, killed and delivered twice,    *)
(* the tally a cap is checked against misses only what debates cost that   *)
(* still run, failed or were killed; that a chat's day passes its cap by   *)
(* less than one debate and those; that an update is answered at most once *)
(* per start; and which polling tasks stop() may fail to reach.            *)
(***************************************************************************)
EXTENDS TelegramBot, FiniteSetTheorems, TLAPS

\* telegram_spend.json covers the day, but for what no tally holds.
FileCovers ==
  ~unsaved => \A ch \in Chats : paid[ch] <= Loaded[ch] + escaped[ch] + Unrecorded(ch)

\* So does the tally in memory, while the bot is up or a debate will add to it:
\* stop() leaves the debates in flight their tally.
InUse == up \/ \E h \in Handlers : handler[h] \in Debating

MemoryCovers ==
  InUse /\ ~unsaved =>
    \A ch \in Chats : paid[ch] <= spend[ch] + escaped[ch] + Unrecorded(ch)

\* What Record() adds is no less than what the debate cost today.
Billed == \A h \in Handlers : today[h] <= bill[h]

IInv == TypeOK /\ Billed /\ FileCovers /\ MemoryCovers

-------------------------------------------------------------------------------
(***************************************************************************)
(* The dollars of debates.                                                 *)
(***************************************************************************)
Dollars(S, f) == UNION {{h} \X (1 .. f[h]) : h \in S}

\* The calls and the handler tasks are finitely many.
LEMMA Finite == IsFiniteSet(Calls) /\ NoCall \notin Calls /\ IsFiniteSet(Handlers)
<1>1. IsFiniteSet(Updates) /\ IsFiniteSet(1 .. MaxCopies)
  BY FS_Interval, BoundAssumption DEF Updates
<1>2. IsFiniteSet(Handlers)
  BY <1>1, FS_Product DEF Handlers
<1>3. IsFiniteSet(Calls) /\ NoCall \notin Calls
  BY FS_Interval, BoundAssumption DEF Calls, NoCall
<1> QED
  BY <1>2, <1>3

\* A debate's dollars are as many as its cost.
LEMMA Worth ==
  ASSUME NEW h, NEW n \in Nat
  PROVE  IsFiniteSet({h} \X (1 .. n)) /\ Cardinality({h} \X (1 .. n)) = n
<1>1. IsFiniteSet({h}) /\ Cardinality({h}) = 1
  BY FS_Singleton
<1>2. IsFiniteSet(1 .. n) /\ Cardinality(1 .. n) = n
  BY FS_Interval
<1>3. /\ IsFiniteSet({h} \X (1 .. n))
      /\ Cardinality({h} \X (1 .. n)) = Cardinality({h}) * Cardinality(1 .. n)
  BY <1>1, <1>2, FS_Product
<1> QED
  BY <1>1, <1>2, <1>3

\* What some debates cost is a finite number of dollars.
LEMMA DollarsFinite ==
  ASSUME NEW S \in SUBSET Handlers, NEW f \in [Handlers -> Nat]
  PROVE  IsFiniteSet(Dollars(S, f)) /\ Cardinality(Dollars(S, f)) \in Nat
<1> DEFINE P == [h \in S |-> {h} \X (1 .. f[h])]
           T == {{h} \X (1 .. f[h]) : h \in S}
<1>1. P \in Surjection(S, T)
  BY DEF Surjection
<1>2. IsFiniteSet(S)
  BY Finite, FS_Subset
<1>3. IsFiniteSet(T)
  BY <1>1, <1>2, FS_Surjection
<1>4. \A X \in T : IsFiniteSet(X)
  <2> SUFFICES ASSUME NEW h \in S PROVE IsFiniteSet({h} \X (1 .. f[h]))
    OBVIOUS
  <2>1. f[h] \in Nat
    OBVIOUS
  <2> QED
    BY <2>1, Worth
<1>5. IsFiniteSet(UNION T)
  BY <1>3, <1>4, FS_UNION
<1>6. IsFiniteSet(Dollars(S, f))
  BY <1>5 DEF Dollars
<1> QED
  BY <1>6, FS_CardinalityType

\* Fewer debates at the same costs come to no more.
LEMMA DollarsShrink ==
  ASSUME NEW A \in SUBSET Handlers, NEW B \in SUBSET A, NEW f \in [Handlers -> Nat]
  PROVE  Cardinality(Dollars(B, f)) <= Cardinality(Dollars(A, f))
<1>1. Dollars(B, f) \subseteq Dollars(A, f)
  BY DEF Dollars
<1> QED
  BY <1>1, DollarsFinite, FS_Subset

\* A debate that joins adds at most its cost.
LEMMA DollarsJoin ==
  ASSUME NEW A \in SUBSET Handlers, NEW h \in Handlers, NEW B \in SUBSET (A \cup {h}),
         NEW f \in [Handlers -> Nat], NEW g \in [Handlers -> Nat],
         \A k \in B : k # h => g[k] = f[k]
  PROVE  Cardinality(Dollars(B, g)) <= Cardinality(Dollars(A, f)) + g[h]
<1> DEFINE D == {h} \X (1 .. g[h])
           U == Dollars(A, f) \cup D
<1>1. Dollars(B, g) \subseteq U
  BY DEF Dollars
<1>2. IsFiniteSet(D) /\ Cardinality(D) = g[h]
  BY Worth
<1>3. IsFiniteSet(Dollars(A, f)) /\ Cardinality(Dollars(A, f)) \in Nat
  BY DollarsFinite
<1>4. Dollars(A, f) \cap D \subseteq D
  OBVIOUS
<1>5. Cardinality(Dollars(A, f) \cap D) \in Nat
  BY <1>2, <1>4, FS_Subset, FS_CardinalityType
<1> HIDE DEF D
<1>6. /\ IsFiniteSet(U)
      /\ Cardinality(U) = Cardinality(Dollars(A, f)) + Cardinality(D)
                            - Cardinality(Dollars(A, f) \cap D)
  BY <1>2, <1>3, FS_Union
<1>7. Cardinality(Dollars(B, g)) <= Cardinality(U) /\ Cardinality(Dollars(B, g)) \in Nat
  BY <1>1, <1>6, FS_Subset, FS_CardinalityType
<1> QED
  BY <1>2, <1>3, <1>5, <1>6, <1>7

\* A debate that leaves takes its cost away.
LEMMA DollarsLeave ==
  ASSUME NEW A \in SUBSET Handlers, NEW h \in A, NEW f \in [Handlers -> Nat],
         NEW g \in [Handlers -> Nat], \A k \in A \ {h} : g[k] = f[k]
  PROVE  Cardinality(Dollars(A \ {h}, g)) + f[h] <= Cardinality(Dollars(A, f))
<1> DEFINE D == {h} \X (1 .. f[h])
           X == Dollars(A, f)
           Y == Dollars(A \ {h}, g)
<1>1. Y \subseteq X \ D
  BY DEF Dollars
<1>2. D \subseteq X
  BY DEF Dollars
<1>3. IsFiniteSet(D) /\ Cardinality(D) = f[h] /\ f[h] \in Nat
  BY Worth
<1>4. IsFiniteSet(X) /\ Cardinality(X) \in Nat
  BY DollarsFinite
<1> HIDE DEF D, X, Y
<1>5. X \cap D = D
  BY <1>2
<1>6. /\ IsFiniteSet(X \ D)
      /\ Cardinality(X \ D) = Cardinality(X) - Cardinality(X \cap D)
  BY <1>4, FS_Difference
<1>7. Cardinality(Y) <= Cardinality(X \ D) /\ Cardinality(Y) \in Nat
  BY <1>1, <1>6, FS_Subset, FS_CardinalityType
<1>8. Cardinality(X \cap D) = f[h]
  BY <1>3, <1>5
<1>9. Cardinality(Y) + f[h] <= Cardinality(X)
  BY <1>3, <1>4, <1>6, <1>7, <1>8
<1> QED
  BY <1>9 DEF X, Y

\* The costs of today are amounts.
LEMMA Amounts == TypeOK => today \in [Handlers -> Nat] /\ bill \in [Handlers -> Nat]
  BY MoneyAssumption DEF TypeOK

\* What the debates of a chat that run have cost today is an amount.
LEMMA UnrecordedType ==
  ASSUME TypeOK, NEW ch \in Chats
  PROVE  Unrecorded(ch) \in Nat /\ Unrecorded(ch) = Cardinality(Dollars(Running(ch), today))
<1>1. Unrecorded(ch) = Cardinality(Dollars(Running(ch), today))
  BY DEF Unrecorded, Dollars
<1>2. Running(ch) \in SUBSET Handlers
  BY DEF Running
<1> QED
  BY <1>1, <1>2, Amounts, DollarsFinite

\* The same after a step.
LEMMA UnrecordedTypeNext ==
  ASSUME TypeOK', NEW ch \in Chats
  PROVE  Unrecorded(ch)' \in Nat /\ Unrecorded(ch)' = Cardinality(Dollars(Running(ch)', today'))
<1>1. Unrecorded(ch)' = Cardinality(Dollars(Running(ch)', today'))
  BY DEF Unrecorded, Dollars
<1>2. Running(ch)' \in SUBSET Handlers
  BY DEF Running
<1>3. today' \in [Handlers -> Nat]
  BY MoneyAssumption DEF TypeOK
<1> QED
  BY <1>1, <1>2, <1>3, DollarsFinite

-------------------------------------------------------------------------------
\* What start() loads is a tally.
LEMMA LoadedTally == ASSUME TypeOK PROVE Loaded \in Tally
  BY DEF TypeOK, Loaded, Tally, Zero

\* The message a handler task answers was posted: handlers are created for
\* updates Telegram has, and none is taken back.
Answering == \A h \in Handlers : handler[h] # "none" => h[1] \in 1 .. Len(posted)

LEMMA PostedChat ==
  ASSUME TypeOK, Answering, NEW h \in Handlers, handler[h] # "none"
  PROVE  ChatOf(h) \in Chats
  BY BoundAssumption DEF TypeOK, Answering, ChatOf

\* A step that ends no debate and moves no money of today keeps the file's
\* tally covering, and the memory's if it is no more in use than before.
LEMMA KeepsCovered ==
  ASSUME IInv, TypeOK', UNCHANGED <<disk, day, unsaved, costVars>>,
         \A ch \in Chats : Running(ch) \subseteq Running(ch)'
  PROVE  FileCovers' /\ Billed' /\ ((InUse' => InUse) /\ spend' = spend => MemoryCovers')
<1> USE DEF IInv
<1>1. ASSUME NEW ch \in Chats
      PROVE  Unrecorded(ch) \in Nat /\ Unrecorded(ch)' \in Nat /\ Unrecorded(ch) <= Unrecorded(ch)'
  <2>1. today' = today /\ today \in [Handlers -> Nat]
    BY Amounts DEF costVars
  <2>2. Running(ch)' \in SUBSET Handlers /\ Running(ch) \in SUBSET Running(ch)'
    BY DEF Running
  <2> QED
    BY <2>1, <2>2, DollarsShrink, UnrecordedType, UnrecordedTypeNext
<1>2. Loaded' = Loaded /\ Loaded \in Tally /\ paid \in Tally /\ escaped \in Tally /\ spend \in Tally
  BY LoadedTally DEF Loaded, Zero, TypeOK
<1>3. UNCHANGED <<paid, escaped, today, bill, unsaved>>
  BY DEF costVars
<1>4. FileCovers'
  BY <1>1, <1>2, <1>3 DEF FileCovers, Tally
<1>5. (InUse' => InUse) /\ spend' = spend => MemoryCovers'
  BY <1>1, <1>2, <1>3 DEF MemoryCovers, Tally
<1>6. Billed'
  BY <1>3 DEF Billed
<1> QED
  BY <1>4, <1>5, <1>6

\* The initial states satisfy the invariant.
LEMMA InitIInv == Init => IInv /\ Answering
<1> SUFFICES ASSUME Init PROVE IInv /\ Answering
  OBVIOUS
<1>1. TypeOK
  <2>1. posted \in Seq(Chats) /\ Len(posted) <= MaxPosted
    BY BoundAssumption DEF Init
  <2>2. disk \in [date : 0 .. MaxDay, spend : Tally]
    BY BoundAssumption DEF Init, Tally, Zero
  <2>3. spend \in Tally /\ paid \in Tally /\ escaped \in Tally
    BY DEF Init, Tally, Zero
  <2>4. /\ handler \in [Handlers -> {"none", "queued", "done"} \cup Debating]
        /\ bill \in [Handlers -> 0 .. MaxCost] /\ today \in [Handlers -> 0 .. MaxCost]
    BY MoneyAssumption DEF Init
  <2>5. offset \in 0 .. MaxPosted /\ confirmed \in 0 .. MaxPosted /\ day \in 0 .. MaxDay
    BY BoundAssumption DEF Init
  <2>6. /\ kind \in [Calls -> {"none", "start", "stop"}]
        /\ call \in [Calls -> {"todo", "joining", "closing", "done"}]
        /\ joins \in [Calls -> Calls \cup {NoCall}]
        /\ task \in Calls \cup {NoCall}
        /\ loop \in [Calls -> {"none", "new", "polling", "cancelled", "dead"}]
        /\ raced \subseteq Calls
    BY DEF Init
  <2>7. up \in BOOLEAN /\ busy \in [Chats -> BOOLEAN] /\ unsaved \in BOOLEAN /\ cutOff \in BOOLEAN
    BY DEF Init
  <2> QED
    BY <2>1, <2>2, <2>3, <2>4, <2>5, <2>6, <2>7 DEF TypeOK
<1>2. FileCovers /\ MemoryCovers
  <2>1. \A ch \in Chats : Unrecorded(ch) \in Nat
    BY <1>1, UnrecordedType
  <2>2. \A ch \in Chats : paid[ch] = 0 /\ Loaded[ch] \in Nat /\ spend[ch] \in Nat /\ escaped[ch] \in Nat
    BY DEF Init, Loaded, Zero
  <2> QED
    BY <2>1, <2>2 DEF FileCovers, MemoryCovers
<1>3. Answering /\ Billed
  BY DEF Init, Answering, Billed
<1> QED
  BY <1>1, <1>2, <1>3 DEF IInv

-------------------------------------------------------------------------------
\* The end of a stop() or start() keeps the invariant, whichever call it ends.
LEMMA FinishStep ==
  ASSUME IInv, NEW c \in Calls, NEW asked, NEW left \in Calls \cup {NoCall},
         Finish(c, asked, left), Rest,
         kind' \in [Calls -> {"none", "start", "stop"}],
         joins' \in [Calls -> Calls \cup {NoCall}]
  PROVE  IInv'
<1> USE DEF IInv
<1>1. TypeOK'
  <2>1. /\ call' \in [Calls -> {"todo", "joining", "closing", "done"}]
        /\ task' \in Calls \cup {NoCall}
        /\ loop' \in [Calls -> {"none", "new", "polling", "cancelled", "dead"}]
        /\ raced' \subseteq Calls
        /\ up' \in BOOLEAN
    BY DEF TypeOK, Finish
  <2>2. spend' \in Tally
    BY LoadedTally DEF TypeOK, Finish
  <2>3. offset' \in 0 .. MaxPosted /\ busy' \in [Chats -> BOOLEAN]
    BY BoundAssumption DEF Finish
  <2>4. cutOff' \in BOOLEAN
    BY DEF TypeOK, Finish
  <2> QED
    BY <2>1, <2>2, <2>3, <2>4 DEF TypeOK, Rest, costVars
<1>2. /\ UNCHANGED <<handler, posted, disk, day, unsaved, costVars>>
      /\ \A ch \in Chats : Running(ch)' = Running(ch)
  BY DEF Rest, Running, ChatOf
<1>3. FileCovers' /\ Billed' /\ ((InUse' => InUse) /\ spend' = spend => MemoryCovers')
  BY <1>1, <1>2, KeepsCovered
<1>4. MemoryCovers'
  <2>1. CASE asked = "start"
    <3>1. spend' = Loaded'
      BY <2>1, <1>2 DEF Finish, Loaded, Zero
    <3> QED
      BY <3>1, <1>3 DEF MemoryCovers, FileCovers
  <2>2. CASE asked = "stop"
    BY <2>2, <1>2, <1>3 DEF Finish, InUse
  <2> QED
    BY <2>1, <2>2 DEF Finish
<1> QED
  BY <1>1, <1>3, <1>4

\* The calls, up to their last await, leave the tally alone.
LEMMA ServiceIInv ==
  ASSUME IInv, NEW c \in Calls, ServiceStep(c)
  PROVE  IInv'
<1> USE DEF IInv
<1>1. \/ \E asked \in {"none", "start", "stop"}, left \in Calls \cup {NoCall} :
           Finish(c, asked, left) /\ Rest
      \/ UNCHANGED <<up, offset, busy, spend, cutOff, raced>> /\ Rest
  BY DEF ServiceStep, Begin, Joined, Closed, TypeOK
<1>2. /\ kind' \in [Calls -> {"none", "start", "stop"}]
      /\ joins' \in [Calls -> Calls \cup {NoCall}]
  <2>1. ASSUME NEW asked \in {"start", "stop"}, Begin(c, asked)
        PROVE  /\ kind' \in [Calls -> {"none", "start", "stop"}]
               /\ joins' \in [Calls -> Calls \cup {NoCall}]
    <3>1. kind' \in [Calls -> {"none", "start", "stop"}]
      BY <2>1 DEF Begin, Arrives, TypeOK
    <3>2. joins' = [joins EXCEPT ![c] = task] \/ joins' = joins
      BY <2>1 DEF Begin
    <3> QED
      BY <3>1, <3>2 DEF TypeOK
  <2>2. CASE Joined(c) \/ Closed(c)
    BY <2>2 DEF Joined, Closed, TypeOK
  <2> QED
    BY <2>1, <2>2 DEF ServiceStep
<1>3. CASE \E asked \in {"none", "start", "stop"}, left \in Calls \cup {NoCall} :
             Finish(c, asked, left) /\ Rest
  BY <1>2, <1>3, FinishStep
<1>4. CASE UNCHANGED <<up, offset, busy, spend, cutOff, raced>> /\ Rest
  <2>1. /\ call' \in [Calls -> {"todo", "joining", "closing", "done"}]
        /\ task' \in Calls \cup {NoCall}
        /\ loop' \in [Calls -> {"none", "new", "polling", "cancelled", "dead"}]
    BY DEF ServiceStep, Begin, Joined, Closed, Finish, TypeOK
  <2>2. TypeOK'
    BY <1>2, <1>4, <2>1 DEF Rest, costVars, TypeOK
  <2>3. \A ch \in Chats : Running(ch)' = Running(ch)
    BY <1>4 DEF Rest, Running, ChatOf
  <2>4. InUse' => InUse
    BY <1>4 DEF Rest, InUse
  <2> QED
    BY <1>4, <2>2, <2>3, <2>4, KeepsCovered DEF Rest
<1> QED
  BY <1>1, <1>3, <1>4

\* A getUpdates, and what else a polling task does, touches no money and no
\* handler that was there before.
LEMMA LoopIInv ==
  ASSUME IInv, NEW c \in Calls, LoopStep(c)
  PROVE  IInv'
<1> USE DEF IInv
<1>1. UNCHANGED <<up, posted, moneyVars>>
  BY DEF LoopStep, LoopBegins, LoopEnds, PollOnce, serviceVars, queueVars
<1>2. \A h \in Handlers : handler'[h] = handler[h] \/ (handler[h] = "none" /\ handler'[h] = "queued")
  BY DEF LoopStep, LoopBegins, LoopEnds, PollOnce, NextTask
<1>3. TypeOK'
  <2>1. CASE LoopBegins(c)
    BY <2>1 DEF LoopBegins, TypeOK, queueVars, moneyVars, tallyVars, costVars
  <2>2. CASE LoopEnds(c)
    BY <2>2 DEF LoopEnds, TypeOK, queueVars, moneyVars, tallyVars, costVars
  <2>3. CASE PollOnce(c)
    <3>1. Len(posted) \in 0 .. MaxPosted
      BY BoundAssumption DEF TypeOK
    <3>2. offset' \in 0 .. MaxPosted /\ confirmed' \in 0 .. MaxPosted
      BY <2>3, <3>1 DEF PollOnce, TypeOK
    <3>3. handler' \in [Handlers -> {"none", "queued", "done"} \cup Debating]
      BY <2>3 DEF PollOnce, TypeOK
    <3> QED
      BY <2>3, <3>2, <3>3 DEF PollOnce, TypeOK, serviceVars, moneyVars, tallyVars, costVars
  <2> QED
    BY <2>1, <2>2, <2>3 DEF LoopStep
<1>4. \A ch \in Chats : Running(ch)' = Running(ch)
  BY <1>1, <1>2 DEF Running, ChatOf
<1>5. InUse' => InUse
  BY <1>1, <1>2 DEF InUse, Debating
<1> QED
  BY <1>1, <1>3, <1>4, <1>5, KeepsCovered DEF moneyVars, tallyVars

\* A handler that spends and records nothing keeps the tally covered: it enters a
\* debate only while the bot is up.
LEMMA QuietHandlerIInv ==
  ASSUME IInv, NEW h \in Handlers,
         \/ HandlerFails(h) \/ RefusedAsBusy(h) \/ RefusedByCap(h) \/ Admit(h)
         \/ StartDebate(h) \/ NoDebate(h) \/ FetchFails(h) \/ Answered(h)
  PROVE  IInv'
<1> USE DEF IInv
<1>1. UNCHANGED <<serviceVars, queueVars, moneyVars, cutOff>>
  BY DEF HandlerFails, RefusedAsBusy, RefusedByCap, Admit, StartDebate, NoDebate,
         FetchFails, Answered
<1>2. busy' \in [Chats -> BOOLEAN]
  BY DEF HandlerFails, RefusedAsBusy, RefusedByCap, Admit, StartDebate, NoDebate,
         FetchFails, Answered, TypeOK
<1>3. handler' \in [Handlers -> {"none", "queued", "done"} \cup Debating]
  BY DEF HandlerFails, RefusedAsBusy, RefusedByCap, Admit, StartDebate, NoDebate,
         FetchFails, Answered, HandlerGoes, TypeOK, Debating
<1>4. InUse' => InUse
  BY <1>1 DEF HandlerFails, RefusedAsBusy, RefusedByCap, Admit, StartDebate, NoDebate,
         FetchFails, Answered, HandlerGoes, InUse, Debating, TypeOK, serviceVars
<1>5. TypeOK'
  BY <1>1, <1>2, <1>3 DEF TypeOK, serviceVars, queueVars, moneyVars, tallyVars, costVars
<1>6. \A g \in Handlers : handler[g] = "debating" => handler'[g] = "debating"
  BY DEF HandlerFails, RefusedAsBusy, RefusedByCap, Admit, StartDebate, NoDebate,
         FetchFails, Answered, HandlerGoes, TypeOK
<1>7. \A ch \in Chats : Running(ch) \subseteq Running(ch)'
  BY <1>1, <1>6 DEF Running, ChatOf, queueVars
<1> QED
  BY <1>1, <1>4, <1>5, <1>7, KeepsCovered DEF moneyVars, tallyVars

\* A provider call adds a dollar to what runs unrecorded.
LEMMA CallIInv ==
  ASSUME IInv, Answering, NEW h \in Handlers, CallCosts(h)
  PROVE  IInv'
<1> USE DEF IInv
<1>1. /\ UNCHANGED <<serviceVars, queueVars, handler, tallyVars, escaped>>
      /\ handler[h] = "debating" /\ bill[h] < MaxCost
      /\ today' = [today EXCEPT ![h] = @ + 1] /\ bill' = [bill EXCEPT ![h] = @ + 1]
      /\ paid' = [paid EXCEPT ![ChatOf(h)] = @ + 1]
  BY DEF CallCosts
<1>2. ChatOf(h) \in Chats
  BY <1>1, PostedChat
<1>3. TypeOK'
  <2>1. bill' \in [Handlers -> 0 .. MaxCost] /\ today' \in [Handlers -> 0 .. MaxCost]
    BY <1>1, MoneyAssumption DEF TypeOK, Billed
  <2>2. paid' \in Tally
    BY <1>1, <1>2 DEF TypeOK, Tally
  <2> QED
    BY <1>1, <2>1, <2>2 DEF CallCosts, TypeOK, serviceVars, queueVars, tallyVars
<1>4. Billed'
  BY <1>1, MoneyAssumption DEF Billed, TypeOK
<1>5. ASSUME NEW ch \in Chats
      PROVE  /\ Unrecorded(ch) \in Nat /\ Unrecorded(ch)' \in Nat
             /\ Unrecorded(ch)' >= Unrecorded(ch) + (IF ch = ChatOf(h) THEN 1 ELSE 0)
  <2> DEFINE R == Running(ch)
  <2>1. /\ Running(ch)' = R /\ R \in SUBSET Handlers
        /\ today \in [Handlers -> Nat] /\ today' \in [Handlers -> Nat]
        /\ \A k \in R \ {h} : today'[k] = today[k]
    BY <1>1, <1>3, MoneyAssumption DEF Running, ChatOf, queueVars, TypeOK
  <2>2. /\ Unrecorded(ch) = Cardinality(Dollars(R, today)) /\ Unrecorded(ch) \in Nat
        /\ Unrecorded(ch)' = Cardinality(Dollars(R, today')) /\ Unrecorded(ch)' \in Nat
    BY <1>3, <2>1, UnrecordedType, UnrecordedTypeNext
  <2>3. CASE h \in R
    <3> DEFINE O == R \ {h}
    <3>1. O \in SUBSET Handlers /\ R \in SUBSET (O \cup {h})
      BY <2>1, <2>3
    <3> HIDE DEF R, O
    <3>2. Cardinality(Dollars(R, today)) <= Cardinality(Dollars(O, today)) + today[h]
      BY <2>1, <3>1, DollarsJoin
    <3>3. Cardinality(Dollars(O, today)) + today'[h] <= Cardinality(Dollars(R, today'))
      BY <2>1, <2>3, DollarsLeave DEF O
    <3>4. today'[h] = today[h] + 1 /\ today[h] \in Nat
      BY <1>1, <2>1
    <3>5. Cardinality(Dollars(O, today)) \in Nat
      BY <2>1, <3>1, DollarsFinite
    <3> QED
      BY <2>2, <3>2, <3>3, <3>4, <3>5
  <2>4. CASE h \notin R
    <3>1. ch # ChatOf(h)
      BY <1>1, <2>4 DEF Running
    <3>2. Dollars(R, today') = Dollars(R, today)
      BY <2>1, <2>4 DEF Dollars
    <3> QED
      BY <2>2, <3>1, <3>2
  <2> QED
    BY <2>3, <2>4
<1>6. \A ch \in Chats : paid'[ch] = paid[ch] + (IF ch = ChatOf(h) THEN 1 ELSE 0)
  BY <1>1 DEF TypeOK, Tally
<1>7. /\ UNCHANGED <<spend, disk, day, unsaved, escaped, Loaded>> /\ (InUse' => InUse)
      /\ Loaded \in Tally /\ spend \in Tally /\ escaped \in Tally /\ paid \in Tally
  BY <1>1, LoadedTally DEF tallyVars, serviceVars, InUse, Loaded, Zero, TypeOK
<1>8. FileCovers'
  BY <1>5, <1>6, <1>7 DEF FileCovers, Tally
<1>9. MemoryCovers'
  BY <1>5, <1>6, <1>7 DEF MemoryCovers, Tally
<1> QED
  BY <1>3, <1>4, <1>8, <1>9

\* A debate that ends takes its dollars of today from what runs unrecorded.
LEMMA EndsDebate ==
  ASSUME TypeOK, TypeOK', NEW h \in Handlers, NEW ch \in Chats,
         HandlerGoes(h, "debating", "answering"), Settles(h), posted' = posted
  PROVE  /\ Unrecorded(ch) \in Nat /\ Unrecorded(ch)' \in Nat
         /\ Unrecorded(ch) <= Unrecorded(ch)' + (IF ch = ChatOf(h) THEN today[h] ELSE 0)
<1> DEFINE R == Running(ch)
           O == Running(ch)'
<1>1. /\ O = R \ {h} /\ R \in SUBSET Handlers /\ O \in SUBSET Handlers
      /\ R \in SUBSET (O \cup {h}) /\ (h \in R <=> ch = ChatOf(h))
  BY DEF Running, ChatOf, HandlerGoes, TypeOK
<1>2. /\ today \in [Handlers -> Nat] /\ today' \in [Handlers -> Nat]
      /\ \A k \in Handlers : k # h => today'[k] = today[k]
  BY MoneyAssumption DEF Settles, TypeOK
<1>3. /\ Unrecorded(ch) = Cardinality(Dollars(R, today)) /\ Unrecorded(ch) \in Nat
      /\ Unrecorded(ch)' = Cardinality(Dollars(O, today')) /\ Unrecorded(ch)' \in Nat
  BY UnrecordedType, UnrecordedTypeNext
<1> HIDE DEF R, O
<1>4. CASE ch = ChatOf(h)
  <2>1. Cardinality(Dollars(R, today)) <= Cardinality(Dollars(O, today')) + today[h]
    BY <1>1, <1>2, DollarsJoin
  <2> QED
    BY <1>3, <1>4, <2>1
<1>5. CASE ch # ChatOf(h)
  <2>1. Dollars(R, today) = Dollars(O, today')
    BY <1>1, <1>2, <1>5 DEF Dollars
  <2> QED
    BY <1>3, <1>5, <2>1
<1> QED
  BY <1>4, <1>5

\* What a debate that fails had cost escapes.
LEMMA FailIInv ==
  ASSUME IInv, Answering, NEW h \in Handlers, DebateFails(h)
  PROVE  IInv'
<1> USE DEF IInv
<1>1. /\ UNCHANGED <<serviceVars, queueVars, tallyVars, paid>>
      /\ HandlerGoes(h, "debating", "answering") /\ Settles(h)
      /\ escaped' = [escaped EXCEPT ![ChatOf(h)] = @ + today[h]]
  BY DEF DebateFails
<1>2. ChatOf(h) \in Chats /\ today[h] \in Nat
  BY <1>1, PostedChat, Amounts DEF HandlerGoes
<1>3. TypeOK'
  <2>1. bill' \in [Handlers -> 0 .. MaxCost] /\ today' \in [Handlers -> 0 .. MaxCost]
    BY <1>1, MoneyAssumption DEF TypeOK, Settles
  <2>2. escaped' \in Tally
    BY <1>1, <1>2 DEF TypeOK, Tally
  <2>3. handler' \in [Handlers -> {"none", "queued", "done"} \cup Debating]
    BY <1>1 DEF HandlerGoes, TypeOK, Debating
  <2> QED
    BY <1>1, <2>1, <2>2, <2>3 DEF DebateFails, TypeOK, serviceVars, queueVars, tallyVars
<1>4. Billed'
  BY <1>1, MoneyAssumption DEF Billed, TypeOK, Settles
<1>5. \A ch \in Chats :
        /\ Unrecorded(ch) \in Nat /\ Unrecorded(ch)' \in Nat
        /\ Unrecorded(ch) <= Unrecorded(ch)' + (IF ch = ChatOf(h) THEN today[h] ELSE 0)
  BY <1>1, <1>3, EndsDebate DEF queueVars
<1>6. \A ch \in Chats : escaped'[ch] = escaped[ch] + (IF ch = ChatOf(h) THEN today[h] ELSE 0)
  BY <1>1, <1>2 DEF TypeOK, Tally
<1>7. /\ UNCHANGED <<spend, disk, day, unsaved, paid, Loaded>> /\ InUse
      /\ Loaded \in Tally /\ spend \in Tally /\ escaped \in Tally /\ paid \in Tally
  BY <1>1, LoadedTally DEF tallyVars, InUse, Debating, HandlerGoes, Loaded, Zero, TypeOK
<1>8. FileCovers'
  BY <1>2, <1>5, <1>6, <1>7 DEF FileCovers, Tally
<1>9. MemoryCovers'
  BY <1>2, <1>5, <1>6, <1>7 DEF MemoryCovers, Tally
<1> QED
  BY <1>3, <1>4, <1>8, <1>9

\* A debate that completes adds its cost to the memory and, written or given up
\* for the day, to the file.
LEMMA RecordIInv ==
  ASSUME IInv, Answering, NEW h \in Handlers, Record(h)
  PROVE  IInv'
<1> USE DEF IInv
<1>1. /\ UNCHANGED <<serviceVars, queueVars, busy, cutOff, day, paid, escaped>>
      /\ HandlerGoes(h, "debating", "answering") /\ Settles(h)
      /\ spend' = [spend EXCEPT ![ChatOf(h)] = @ + bill[h]]
  BY DEF Record
<1>2. ChatOf(h) \in Chats /\ today[h] \in Nat /\ bill[h] \in Nat /\ today[h] <= bill[h]
  BY <1>1, PostedChat, Amounts DEF HandlerGoes, Billed
<1>3. Saved(ChatOf(h), bill[h]) \in [date : 0 .. MaxDay, spend : Tally]
  BY <1>2 DEF Saved, TypeOK, Tally
<1>4. disk' \in [date : 0 .. MaxDay, spend : Tally] /\ unsaved' \in BOOLEAN
  BY <1>3 DEF Record, TypeOK
<1>5. TypeOK'
  <2>1. bill' \in [Handlers -> 0 .. MaxCost] /\ today' \in [Handlers -> 0 .. MaxCost]
    BY <1>1, MoneyAssumption DEF TypeOK, Settles
  <2>2. spend' \in Tally
    BY <1>1, <1>2 DEF TypeOK, Tally
  <2>3. handler' \in [Handlers -> {"none", "queued", "done"} \cup Debating]
    BY <1>1 DEF HandlerGoes, TypeOK, Debating
  <2> QED
    BY <1>1, <1>4, <2>1, <2>2, <2>3 DEF TypeOK, serviceVars, queueVars
<1>6. Billed'
  BY <1>1, MoneyAssumption DEF Billed, TypeOK, Settles
<1>7. \A ch \in Chats :
        /\ Unrecorded(ch) \in Nat /\ Unrecorded(ch)' \in Nat
        /\ Unrecorded(ch) <= Unrecorded(ch)' + (IF ch = ChatOf(h) THEN today[h] ELSE 0)
  BY <1>1, <1>5, EndsDebate DEF queueVars
<1>8. /\ InUse /\ Loaded \in Tally /\ spend \in Tally /\ escaped \in Tally /\ paid \in Tally
      /\ \A ch \in Chats : spend'[ch] = spend[ch] + (IF ch = ChatOf(h) THEN bill[h] ELSE 0)
  <2>1. InUse
    BY <1>1 DEF InUse, Debating, HandlerGoes
  <2>2. Loaded \in Tally /\ spend \in Tally /\ escaped \in Tally /\ paid \in Tally
    BY LoadedTally DEF TypeOK
  <2>3. \A ch \in Chats : spend'[ch] = spend[ch] + (IF ch = ChatOf(h) THEN bill[h] ELSE 0)
    BY <1>1, <1>2, <2>2 DEF Tally
  <2> QED
    BY <2>1, <2>2, <2>3
<1>9. ~unsaved => \A ch \in Chats : paid'[ch] <= spend'[ch] + escaped'[ch] + Unrecorded(ch)'
  BY <1>1, <1>2, <1>7, <1>8 DEF MemoryCovers, Tally
<1>10. ~unsaved' => ~unsaved
  BY DEF Record, TypeOK
<1>11. MemoryCovers'
  BY <1>9, <1>10 DEF MemoryCovers
<1>12. FileCovers'
  <2>1. CASE disk' = Saved(ChatOf(h), bill[h])
    <3>1. Loaded' = spend'
      BY <1>1, <2>1 DEF Loaded, Saved
    <3> QED
      BY <1>9, <1>10, <3>1 DEF FileCovers
  <2>2. CASE unsaved' = TRUE
    BY <2>2 DEF FileCovers
  <2>3. CASE bill[h] = 0 /\ UNCHANGED <<disk, unsaved>>
    <3>1. UNCHANGED <<Loaded, paid, escaped, unsaved>> /\ today[h] = 0
      BY <1>1, <1>2, <2>3 DEF Loaded, Zero
    <3>2. \A ch \in Chats : Unrecorded(ch) <= Unrecorded(ch)'
      BY <1>7, <3>1
    <3> QED
      BY <1>7, <1>8, <3>1, <3>2 DEF FileCovers, Tally
  <2> QED
    BY <2>1, <2>2, <2>3 DEF Record
<1> QED
  BY <1>5, <1>6, <1>11, <1>12

\* A crash ends every use of the memory, and what ran unrecorded escapes.
LEMMA CrashIInv ==
  ASSUME IInv, Crash
  PROVE  IInv'
<1> USE DEF IInv
<1>1. \A ch \in Chats : Unrecorded(ch) \in Nat
  BY UnrecordedType
<1>2. TypeOK'
  <2>1. /\ call' \in [Calls -> {"todo", "joining", "closing", "done"}]
        /\ loop' \in [Calls -> {"none", "new", "polling", "cancelled", "dead"}]
        /\ joins' \in [Calls -> Calls \cup {NoCall}]
    BY DEF Crash, TypeOK
  <2>2. handler' \in [Handlers -> {"none", "queued", "done"} \cup Debating]
    BY DEF Crash, TypeOK
  <2>3. spend' \in Tally /\ offset' \in 0 .. MaxPosted
    BY BoundAssumption DEF Crash, Tally, Zero
  <2>4. escaped' \in Tally
    BY <1>1 DEF Crash, Tally, TypeOK
  <2>5. bill' \in [Handlers -> 0 .. MaxCost] /\ today' \in [Handlers -> 0 .. MaxCost]
    BY MoneyAssumption DEF Crash
  <2> QED
    BY <2>1, <2>2, <2>3, <2>4, <2>5 DEF Crash, TypeOK
<1>3. /\ UNCHANGED <<paid, unsaved, Loaded>> /\ Loaded \in Tally /\ paid \in Tally
      /\ escaped \in Tally
      /\ \A ch \in Chats : escaped'[ch] = escaped[ch] + Unrecorded(ch)
  BY LoadedTally DEF Crash, Loaded, Zero, TypeOK
<1>4. \A ch \in Chats : Unrecorded(ch)' \in Nat
  BY <1>2, UnrecordedTypeNext
<1>5. FileCovers'
  BY <1>1, <1>3, <1>4 DEF FileCovers, Tally
<1>6. ~InUse' /\ Billed'
  BY DEF Crash, InUse, Debating, Billed
<1> QED
  BY <1>2, <1>5, <1>6 DEF MemoryCovers

\* Midnight starts an empty day; a message changes no debate.
LEMMA OtherIInv ==
  ASSUME IInv, Answering, Midnight \/ (\E ch \in Chats : Post(ch))
  PROVE  IInv'
<1> USE DEF IInv
<1>1. CASE Midnight
  <2>1. TypeOK'
    <3>1. day' \in 0 .. MaxDay
      BY <1>1, BoundAssumption DEF Midnight, TypeOK
    <3>2. paid' \in Tally /\ escaped' \in Tally /\ unsaved' \in BOOLEAN
      BY <1>1 DEF Midnight, Tally, Zero
    <3>3. today' \in [Handlers -> 0 .. MaxCost]
      BY <1>1, MoneyAssumption DEF Midnight
    <3> QED
      BY <1>1, <3>1, <3>2, <3>3 DEF Midnight, TypeOK, serviceVars, queueVars
  <2>2. Loaded' \in Tally /\ spend' \in Tally /\ escaped' \in Tally
    BY <1>1, <2>1 DEF Loaded, Zero, Tally, TypeOK
  <2>3. \A ch \in Chats : paid'[ch] = 0 /\ Unrecorded(ch)' \in Nat
    BY <1>1, <2>1, UnrecordedTypeNext DEF Midnight, Zero
  <2>4. Billed'
    BY <1>1 DEF Midnight, Billed, TypeOK
  <2> QED
    BY <2>1, <2>2, <2>3, <2>4 DEF FileCovers, MemoryCovers, Tally
<1>2. ASSUME NEW ch \in Chats, Post(ch) PROVE IInv'
  <2>1. posted' = Append(posted, ch) /\ posted' \in Seq(Chats) /\ Len(posted') <= MaxPosted
    BY <1>2, BoundAssumption DEF Post, TypeOK
  <2>2. TypeOK'
    BY <1>2, <2>1 DEF Post, TypeOK, serviceVars, moneyVars, tallyVars, costVars
  <2>3. \A h \in Handlers : handler[h] # "none" => ChatOf(h)' = ChatOf(h)
    BY <2>1 DEF Answering, ChatOf, TypeOK
  <2>4. \A c \in Chats : Running(c) \subseteq Running(c)'
    BY <1>2, <2>3 DEF Post, Running
  <2>5. UNCHANGED <<disk, day, unsaved, spend, costVars>> /\ (InUse' => InUse)
    BY <1>2 DEF Post, moneyVars, tallyVars, InUse, serviceVars
  <2> QED
    BY <2>2, <2>4, <2>5, KeepsCovered
<1> QED
  BY <1>1, <1>2

-------------------------------------------------------------------------------
\* Every step keeps each handler with a message that was posted.
LEMMA AnsweringStep == TypeOK /\ Answering /\ [Next]_vars => Answering'
<1> SUFFICES ASSUME TypeOK, Answering, [Next]_vars PROVE Answering'
  OBVIOUS
<1>1. ASSUME NEW c \in Calls, ServiceStep(c) PROVE Answering'
  BY <1>1 DEF ServiceStep, Begin, Joined, Closed, Rest, Answering
<1>2. ASSUME NEW c \in Calls, LoopStep(c) PROVE Answering'
  <2>1. CASE LoopBegins(c) \/ LoopEnds(c)
    BY <2>1 DEF LoopBegins, LoopEnds, queueVars, Answering
  <2>2. CASE PollOnce(c)
    <3>1. \A u \in Fresh : u \in 1 .. Len(posted)
      BY BoundAssumption DEF Fresh, Updates, TypeOK
    <3>2. \A h \in Handlers : handler'[h] # "none" => handler[h] # "none" \/ h[1] \in Fresh
      BY <2>2 DEF PollOnce
    <3> QED
      BY <2>2, <3>1, <3>2 DEF PollOnce, Answering
  <2> QED
    BY <1>2, <2>1, <2>2 DEF LoopStep
<1>3. ASSUME NEW h \in Handlers, HandlerStep(h) PROVE Answering'
  <2>1. posted' = posted
    BY <1>3 DEF HandlerStep, HandlerFails, RefusedAsBusy, RefusedByCap, Admit,
       StartDebate, NoDebate, FetchFails, CallCosts, DebateFails, Record, Answered, queueVars
  <2>2. \A g \in Handlers : handler'[g] # "none" => handler[g] # "none"
    BY <1>3 DEF HandlerStep, HandlerFails, RefusedAsBusy, RefusedByCap, Admit,
       StartDebate, NoDebate, FetchFails, CallCosts, DebateFails, Record, Answered, HandlerGoes,
       TypeOK
  <2> QED
    BY <2>1, <2>2 DEF Answering
<1>4. ASSUME NEW ch \in Chats, Post(ch) PROVE Answering'
  <2>1. Len(posted') = Len(posted) + 1 /\ Len(posted) \in Nat
    BY <1>4 DEF Post, TypeOK
  <2> QED
    BY <1>4, <2>1, BoundAssumption DEF Post, Answering, Handlers, Updates
<1>5. CASE Crash
  BY <1>5 DEF Crash, Answering
<1>6. CASE Midnight
  BY <1>6 DEF Midnight, Answering, queueVars
<1>7. CASE UNCHANGED vars
  BY <1>7 DEF vars, Answering
<1> QED
  BY <1>1, <1>2, <1>3, <1>4, <1>5, <1>6, <1>7 DEF Next

\* The invariant is inductive.
LEMMA IInvStep == IInv /\ Answering /\ [Next]_vars => IInv'
<1> SUFFICES ASSUME IInv, Answering, [Next]_vars PROVE IInv'
  OBVIOUS
<1>1. ASSUME NEW c \in Calls, ServiceStep(c) \/ LoopStep(c) PROVE IInv'
  BY <1>1, ServiceIInv, LoopIInv
<1>2. ASSUME NEW h \in Handlers, HandlerStep(h) PROVE IInv'
  <2>1. CASE CallCosts(h) \/ DebateFails(h) \/ Record(h)
    BY <2>1, CallIInv, FailIInv, RecordIInv
  <2>2. CASE ~(CallCosts(h) \/ DebateFails(h) \/ Record(h))
    BY <1>2, <2>2, QuietHandlerIInv DEF HandlerStep
  <2> QED
    BY <2>1, <2>2
<1>3. CASE Crash \/ Midnight \/ (\E ch \in Chats : Post(ch))
  BY <1>3, CrashIInv, OtherIInv
<1>4. CASE UNCHANGED vars
  BY <1>4 DEF vars, IInv, TypeOK, Billed, FileCovers, MemoryCovers, InUse, Loaded, Zero,
     Unrecorded, Running, ChatOf
<1> QED
  BY <1>1, <1>2, <1>3, <1>4 DEF Next

\* Every reachable state satisfies it.
LEMMA Inductive == Spec => [](IInv /\ Answering)
<1>1. IInv /\ Answering /\ [Next]_vars => (IInv /\ Answering)'
  BY IInvStep, AnsweringStep DEF IInv
<1> QED
  BY InitIInv, <1>1, PTL DEF Spec

-------------------------------------------------------------------------------
\* The bot's state keeps its types, for any calls, chats and bounds.
THEOREM TypeCorrect == Spec => []TypeOK
  BY Inductive, PTL DEF IInv

\* Whatever starts, stops, crashes and midnights there are, however they overlap
\* with one another and with debates, a running bot checks a chat's cap against
\* at least what the chat's debates of the day cost, less what debates cost that
\* still run, failed or were killed; unless a write failed.
THEOREM TallyHolds == Spec => []TallyCovers
<1>1. IInv => TallyCovers
  BY DEF IInv, MemoryCovers, InUse, TallyCovers
<1> QED
  BY Inductive, <1>1, PTL

-------------------------------------------------------------------------------
(***************************************************************************)
(* A chat's day costs less than its cap and one debate, and what escaped.  *)
(***************************************************************************)
\* While no stop() has ended under a debate, a chat has at most one debate, the
\* chat is busy with it, and until it is recorded the chat is below its cap.
Alone ==
  ~cutOff =>
    \A h \in Handlers : handler[h] \in Debating =>
      /\ busy[ChatOf(h)]
      /\ handler[h] # "answering" => spend[ChatOf(h)] < Cap
      /\ \A g \in Handlers : handler[g] \in Debating /\ ChatOf(g) = ChatOf(h) => g = h

DayInv == Alone /\ DayWithinBudget

\* start(), stop() and the polling tasks: what ends a call under a debate is
\* marked, and nothing else touches a debate.
LEMMA TasksDay ==
  ASSUME IInv, DayInv, NEW c \in Calls, ServiceStep(c) \/ LoopStep(c)
  PROVE  DayInv'
<1> USE DEF DayInv
<1>1. UNCHANGED <<posted, paid, escaped, unsaved>>
  BY DEF ServiceStep, LoopStep, Begin, Joined, Closed, Rest, LoopBegins, LoopEnds, PollOnce,
     queueVars, moneyVars, tallyVars, costVars
<1>2. CASE \E asked \in {"none", "start", "stop"}, left \in Calls \cup {NoCall} :
             Finish(c, asked, left) /\ Rest
  <2>1. handler' = handler /\ (~cutOff' => ~cutOff /\ \A h \in Handlers : handler[h] \notin Debating)
    BY <1>2 DEF Finish, Rest, IInv, TypeOK
  <2> QED
    BY <1>1, <2>1 DEF Alone, DayWithinBudget
<1>3. CASE ~ \E asked \in {"none", "start", "stop"}, left \in Calls \cup {NoCall} :
               Finish(c, asked, left) /\ Rest
  <2>1. UNCHANGED <<busy, spend, cutOff>>
    <3>1. CASE ServiceStep(c)
      BY <1>3, <3>1 DEF ServiceStep, Begin, Joined, Closed, IInv, TypeOK
    <3>2. CASE LoopStep(c)
      BY <3>2 DEF LoopStep, LoopBegins, LoopEnds, PollOnce, moneyVars, tallyVars
    <3> QED
      BY <3>1, <3>2
  <2>2. \A h \in Handlers : handler'[h] \in {handler[h], "queued"}
    BY <1>3 DEF ServiceStep, LoopStep, Begin, Joined, Closed, Rest, LoopBegins, LoopEnds, PollOnce
  <2>3. \A h \in Handlers : handler'[h] \in Debating => handler'[h] = handler[h]
    BY <2>2 DEF Debating
  <2>4. \A h \in Handlers : ChatOf(h)' = ChatOf(h)
    BY <1>1 DEF ChatOf
  <2>5. Alone'
    BY <2>1, <2>3, <2>4 DEF Alone
  <2> QED
    BY <1>1, <2>1, <2>5 DEF DayWithinBudget
<1> QED
  BY <1>2, <1>3

\* A handler that enters no debate, and is not at its end.
LEMMA PassingDay ==
  ASSUME IInv, DayInv, NEW h \in Handlers,
         \/ HandlerFails(h) \/ RefusedAsBusy(h) \/ RefusedByCap(h)
         \/ StartDebate(h) \/ NoDebate(h)
  PROVE  DayInv'
<1> USE DEF DayInv
<1>1. UNCHANGED <<posted, paid, escaped, unsaved, busy, spend, cutOff>>
  BY DEF HandlerFails, RefusedAsBusy, RefusedByCap, StartDebate, NoDebate,
     queueVars, moneyVars, tallyVars, costVars
<1>2. \A g \in Handlers : handler'[g] \in Debating => handler[g] \in Debating
  BY DEF HandlerFails, RefusedAsBusy, RefusedByCap, StartDebate, NoDebate,
     HandlerGoes, Debating, IInv, TypeOK
<1>3. \A g \in Handlers : handler'[g] \in Debating /\ handler'[g] # "answering" =>
        handler[g] \in Debating /\ handler[g] # "answering"
  BY DEF HandlerFails, RefusedAsBusy, RefusedByCap, StartDebate, NoDebate,
     HandlerGoes, Debating, IInv, TypeOK
<1>4. \A g \in Handlers : ChatOf(g)' = ChatOf(g)
  BY <1>1 DEF ChatOf
<1>5. Alone'
  BY <1>1, <1>2, <1>3, <1>4 DEF Alone
<1> QED
  BY <1>1, <1>5 DEF DayWithinBudget

\* A debate is admitted for a chat that is not busy and below its cap.
LEMMA AdmitDay ==
  ASSUME IInv, Answering, DayInv, NEW h \in Handlers, Admit(h)
  PROVE  DayInv'
<1> USE DEF DayInv
<1>1. /\ UNCHANGED <<posted, paid, escaped, unsaved, spend, cutOff>>
      /\ ~busy[ChatOf(h)] /\ spend[ChatOf(h)] < Cap
      /\ busy' = [busy EXCEPT ![ChatOf(h)] = TRUE]
  BY DEF Admit, queueVars, moneyVars, tallyVars, costVars
<1>2. /\ handler[h] = "queued" /\ handler'[h] = "fetching"
      /\ \A g \in Handlers : g # h => handler'[g] = handler[g]
  BY DEF Admit, HandlerGoes, IInv, TypeOK
<1>3. \A g \in Handlers : ChatOf(g)' = ChatOf(g)
  BY <1>1 DEF ChatOf
<1>4. ChatOf(h) \in Chats /\ busy'[ChatOf(h)] /\ \A ch \in Chats : busy[ch] => busy'[ch]
  BY <1>1, <1>2, PostedChat DEF IInv, TypeOK
<1>5. \A g \in Handlers : handler[g] \in Debating => ChatOf(g) \in Chats
  BY PostedChat DEF IInv, Debating
<1>6. Alone'
  <2> SUFFICES ASSUME ~cutOff, NEW g \in Handlers, handler'[g] \in Debating
               PROVE  /\ busy'[ChatOf(g)]
                      /\ handler'[g] # "answering" => spend[ChatOf(g)] < Cap
                      /\ \A k \in Handlers : handler'[k] \in Debating /\ ChatOf(k) = ChatOf(g) => k = g
    BY <1>1, <1>3 DEF Alone
  <2>1. \A k \in Handlers : k # h /\ handler'[k] \in Debating =>
          handler[k] \in Debating /\ busy[ChatOf(k)] /\ ChatOf(k) # ChatOf(h)
    BY <1>1, <1>2 DEF Alone
  <2>2. CASE g = h
    BY <1>1, <1>4, <2>1, <2>2
  <2>3. CASE g # h
    BY <1>1, <1>2, <1>4, <1>5, <2>1, <2>3 DEF Alone
  <2> QED
    BY <2>2, <2>3
<1> QED
  BY <1>1, <1>6 DEF DayWithinBudget

\* A handler at its end is the only one its chat is busy with.
LEMMA LeavingDay ==
  ASSUME IInv, Answering, DayInv, NEW h \in Handlers, FetchFails(h) \/ Answered(h)
  PROVE  DayInv'
<1> USE DEF DayInv
<1>1. /\ UNCHANGED <<posted, paid, escaped, unsaved, spend, cutOff>>
      /\ busy' = [busy EXCEPT ![ChatOf(h)] = FALSE]
      /\ handler[h] \in Debating /\ handler' = [handler EXCEPT ![h] = "done"]
  BY DEF FetchFails, Answered, HandlerGoes, Debating, queueVars, moneyVars, tallyVars, costVars
<1>2. \A g \in Handlers : ChatOf(g)' = ChatOf(g)
  BY <1>1 DEF ChatOf
<1>3. \A g \in Handlers : handler'[g] \in Debating => g # h /\ handler'[g] = handler[g]
  BY <1>1 DEF IInv, TypeOK, Debating
<1>4. \A g \in Handlers : handler[g] \in Debating => ChatOf(g) \in Chats
  BY PostedChat DEF IInv, Debating
<1>5. Alone'
  <2> SUFFICES ASSUME ~cutOff, NEW g \in Handlers, handler'[g] \in Debating
               PROVE  /\ busy'[ChatOf(g)]
                      /\ handler'[g] # "answering" => spend[ChatOf(g)] < Cap
                      /\ \A k \in Handlers : handler'[k] \in Debating /\ ChatOf(k) = ChatOf(g) => k = g
    BY <1>1, <1>2 DEF Alone
  <2>1. handler'[g] = handler[g] /\ handler[g] \in Debating /\ ChatOf(g) # ChatOf(h)
    BY <1>1, <1>3 DEF Alone
  <2>2. busy'[ChatOf(g)] = busy[ChatOf(g)]
    BY <1>1, <1>4, <2>1 DEF IInv, TypeOK
  <2> QED
    BY <1>3, <2>1, <2>2 DEF Alone
<1> QED
  BY <1>1, <1>5 DEF DayWithinBudget

\* A provider call is made by a debate that began below the cap, alone for its chat.
LEMMA CallDay ==
  ASSUME IInv, Answering, DayInv, NEW h \in Handlers, CallCosts(h)
  PROVE  DayInv'
<1> USE DEF DayInv
<1>1. /\ UNCHANGED <<posted, handler, busy, cutOff, unsaved, escaped, spend>>
      /\ handler[h] = "debating" /\ bill[h] < MaxCost
      /\ paid' = [paid EXCEPT ![ChatOf(h)] = @ + 1]
  BY DEF CallCosts, queueVars, tallyVars
<1>2. /\ ChatOf(h) \in Chats /\ \A g \in Handlers : ChatOf(g)' = ChatOf(g)
  BY <1>1, PostedChat DEF IInv, ChatOf
<1>3. Alone'
  BY <1>1, <1>2 DEF Alone
<1>4. DayWithinBudget'
  <2> SUFFICES ASSUME ~unsaved, ~cutOff, NEW ch \in Chats, paid'[ch] > 0
               PROVE  paid'[ch] < Cap + MaxCost + escaped[ch]
    BY <1>1 DEF DayWithinBudget
  <2>1. CASE ch # ChatOf(h)
    BY <1>1, <1>2, <2>1 DEF DayWithinBudget, IInv, TypeOK, Tally
  <2>2. CASE ch = ChatOf(h)
    <3>1. Unrecorded(ch) \in Nat /\ Unrecorded(ch) <= today[h]
      <4>1. Running(ch) \in SUBSET ({} \cup {h})
        BY <1>1, <2>2 DEF Running, Alone, Debating
      <4>2. today \in [Handlers -> Nat] /\ {} \in SUBSET Handlers
        BY Amounts DEF IInv
      <4>3. Cardinality(Dollars(Running(ch), today)) <= Cardinality(Dollars({}, today)) + today[h]
        BY <4>1, <4>2, DollarsJoin
      <4>4. Dollars({}, today) = {} /\ Cardinality({}) = 0
        BY FS_EmptySet DEF Dollars
      <4>5. today[h] \in Nat
        BY <4>2
      <4> QED
        BY <4>3, <4>4, <4>5, UnrecordedType DEF IInv
    <3>2. today[h] <= bill[h] /\ today[h] \in Nat /\ bill[h] \in Nat
      BY Amounts DEF IInv, Billed
    <3>3. paid[ch] <= spend[ch] + escaped[ch] + Unrecorded(ch)
      BY <1>1, <2>2 DEF IInv, MemoryCovers, InUse, Debating
    <3>4. spend[ch] < Cap
      BY <1>1, <2>2 DEF Alone, Debating
    <3>5. /\ paid'[ch] = paid[ch] + 1 /\ paid[ch] \in Nat /\ spend[ch] \in Nat
          /\ escaped[ch] \in Nat /\ Cap \in Nat /\ MaxCost \in Nat
      BY <1>1, <1>2, <2>2, MoneyAssumption DEF IInv, TypeOK, Tally
    <3> QED
      BY <1>1, <3>1, <3>2, <3>3, <3>4, <3>5
  <2> QED
    BY <2>1, <2>2
<1> QED
  BY <1>3, <1>4

\* A debate's end is not the end of its handler, and spends nothing.
LEMMA EndDay ==
  ASSUME IInv, Answering, DayInv, NEW h \in Handlers, DebateFails(h) \/ Record(h)
  PROVE  DayInv'
<1> USE DEF DayInv
<1>1. /\ UNCHANGED <<posted, busy, cutOff, paid>>
      /\ handler[h] = "debating" /\ handler' = [handler EXCEPT ![h] = "answering"]
      /\ ~unsaved' => ~unsaved
  BY DEF DebateFails, Record, HandlerGoes, queueVars, tallyVars, IInv, TypeOK
<1>2. /\ ChatOf(h) \in Chats /\ today[h] \in Nat /\ bill[h] \in Nat
      /\ \A g \in Handlers : ChatOf(g)' = ChatOf(g)
  BY <1>1, PostedChat, Amounts DEF IInv, ChatOf
<1>3. /\ handler'[h] = "answering"
      /\ \A g \in Handlers : g # h => handler'[g] = handler[g]
  BY <1>1 DEF IInv, TypeOK
<1>4. \A g \in Handlers : handler[g] \in Debating => ChatOf(g) \in Chats
  BY PostedChat DEF IInv, Debating
<1>5. \A ch \in Chats : ch # ChatOf(h) => spend'[ch] = spend[ch]
  BY <1>2 DEF DebateFails, Record, tallyVars, IInv, TypeOK, Tally
<1>6. \A ch \in Chats : escaped'[ch] >= escaped[ch] /\ escaped[ch] \in Nat /\ escaped'[ch] \in Nat
  <2>1. CASE DebateFails(h)
    BY <2>1, <1>2 DEF DebateFails, IInv, TypeOK, Tally
  <2>2. CASE Record(h)
    BY <2>2 DEF Record, IInv, TypeOK, Tally
  <2> QED
    BY <2>1, <2>2
<1>7. Alone'
  <2> SUFFICES ASSUME ~cutOff, NEW g \in Handlers, handler'[g] \in Debating
               PROVE  /\ busy[ChatOf(g)]
                      /\ handler'[g] # "answering" => spend'[ChatOf(g)] < Cap
                      /\ \A k \in Handlers : handler'[k] \in Debating /\ ChatOf(k) = ChatOf(g) => k = g
    BY <1>1, <1>2 DEF Alone
  <2>1. \A k \in Handlers : handler'[k] \in Debating => handler[k] \in Debating
    BY <1>1, <1>3 DEF Debating
  <2>2. handler[h] \in Debating
    BY <1>1 DEF Debating
  <2>3. g # h => handler'[g] = handler[g] /\ ChatOf(g) # ChatOf(h) /\ ChatOf(g) \in Chats
    BY <1>3, <1>4, <2>1, <2>2 DEF Alone
  <2>4. g # h => spend'[ChatOf(g)] = spend[ChatOf(g)]
    BY <1>5, <2>3
  <2> QED
    BY <1>3, <2>1, <2>3, <2>4 DEF Alone
<1>8. DayWithinBudget'
  BY <1>1, <1>6, MoneyAssumption DEF DayWithinBudget, IInv, TypeOK, Tally
<1> QED
  BY <1>7, <1>8

\* Messages, crashes and midnights.
LEMMA OtherDay ==
  ASSUME IInv, Answering, DayInv, Crash \/ Midnight \/ (\E ch \in Chats : Post(ch))
  PROVE  DayInv'
<1> USE DEF DayInv
<1>1. CASE Crash
  <2>1. \A h \in Handlers : handler'[h] \notin Debating
    BY <1>1 DEF Crash, Debating
  <2>2. \A ch \in Chats : escaped'[ch] >= escaped[ch] /\ escaped[ch] \in Nat /\ escaped'[ch] \in Nat
    BY <1>1, UnrecordedType DEF Crash, IInv, TypeOK, Tally
  <2>3. UNCHANGED <<paid, unsaved, cutOff>> /\ paid \in Tally
    BY <1>1 DEF Crash, IInv, TypeOK
  <2>4. DayWithinBudget'
    BY <2>2, <2>3, MoneyAssumption DEF DayWithinBudget, Tally
  <2> QED
    BY <2>1, <2>4 DEF Alone
<1>2. CASE Midnight
  <2>1. Alone'
    BY <1>2 DEF Midnight, queueVars, Alone, ChatOf
  <2> QED
    BY <1>2, <2>1 DEF Midnight, DayWithinBudget, Zero
<1>3. ASSUME NEW ch \in Chats, Post(ch) PROVE DayInv'
  <2>1. /\ posted' = Append(posted, ch)
        /\ UNCHANGED <<handler, busy, spend, cutOff, paid, escaped, unsaved>>
    BY <1>3 DEF Post, moneyVars, tallyVars, costVars
  <2>2. \A h \in Handlers : handler[h] \in Debating => ChatOf(h)' = ChatOf(h)
    BY <2>1 DEF Answering, ChatOf, Debating, IInv, TypeOK
  <2> QED
    BY <2>1, <2>2 DEF Alone, DayWithinBudget
<1> QED
  BY <1>1, <1>2, <1>3

\* Unless the bot was stopped under a debate or a write failed, what a chat's
\* debates of one day cost stays below its cap and one debate more, and what its
\* failed and killed debates of that day cost on top, for any cap, any price of a
\* debate, and any number of messages, restarts and crashes.
THEOREM DayStaysInBudget == Spec => []DayWithinBudget
<1>1. Init => DayInv
  BY DEF Init, DayInv, Alone, DayWithinBudget, Debating, Zero
<1>2. IInv /\ Answering /\ DayInv /\ [Next]_vars => DayInv'
  <2> SUFFICES ASSUME IInv, Answering, DayInv, [Next]_vars PROVE DayInv'
    OBVIOUS
  <2>1. ASSUME NEW c \in Calls, ServiceStep(c) \/ LoopStep(c) PROVE DayInv'
    BY <2>1, TasksDay
  <2>2. ASSUME NEW h \in Handlers, HandlerStep(h) PROVE DayInv'
    BY <2>2, PassingDay, AdmitDay, LeavingDay, CallDay, EndDay DEF HandlerStep
  <2>3. CASE Crash \/ Midnight \/ (\E ch \in Chats : Post(ch))
    BY <2>3, OtherDay
  <2>4. CASE UNCHANGED vars
    BY <2>4 DEF vars, DayInv, Alone, DayWithinBudget, ChatOf
  <2> QED
    BY <2>1, <2>2, <2>3, <2>4 DEF Next
<1>3. DayInv => DayWithinBudget
  BY DEF DayInv
<1> QED
  BY <1>1, <1>2, <1>3, Inductive, PTL DEF Spec

-------------------------------------------------------------------------------
(***************************************************************************)
(* A message is answered once per start of the bot.                        *)
(***************************************************************************)
\* self._task was created by a call that has ended; a call on its way has created none.
Owned ==
  /\ task # NoCall => call[task] = "done"
  /\ \A c \in Calls : call[c] # "done" => loop[c] = "none"

\* A running bot asks for no update it handled since its last start, and what it
\* may still ask for was handled in earlier starts only.
Delivered ==
  /\ Owned
  /\ RedeliveredByRestart
  /\ up => \A u \in Updates : u > offset => Copies(u) < Cardinality(Starts)

\* The deliveries of an update are finitely many.
LEMMA CopiesType ==
  ASSUME NEW u \in Updates
  PROVE  /\ IsFiniteSet({n \in 1 .. MaxCopies : handler[<<u, n>>] # "none"})
         /\ Copies(u) \in Nat
<1>1. IsFiniteSet(1 .. MaxCopies)
  BY FS_Interval, BoundAssumption
<1>2. {n \in 1 .. MaxCopies : handler[<<u, n>>] # "none"} \in SUBSET (1 .. MaxCopies)
  OBVIOUS
<1>3. IsFiniteSet({n \in 1 .. MaxCopies : handler[<<u, n>>] # "none"})
  BY <1>1, <1>2, FS_Subset
<1> QED
  BY <1>3, FS_CardinalityType DEF Copies

\* So are the starts.
LEMMA StartsType == IsFiniteSet(Starts) /\ Cardinality(Starts) \in Nat
<1>1. Starts \in SUBSET Calls
  BY DEF Starts
<1> QED
  BY <1>1, Finite, FS_Subset, FS_CardinalityType

\* The same after a step.
LEMMA StartsTypeNext == IsFiniteSet(Starts') /\ Cardinality(Starts)' \in Nat
<1>1. Starts' \in SUBSET Calls
  BY DEF Starts
<1> QED
  BY <1>1, Finite, FS_Subset, FS_CardinalityType

\* A step that starts no debate of an update, and forgets no start, keeps what
\* was delivered, if a running bot still asks for no more than it did.
LEMMA KeepsDelivered ==
  ASSUME TypeOK, Delivered, Owned',
         \A h \in Handlers : handler'[h] # "none" <=> handler[h] # "none",
         Starts \subseteq Starts',
         up' => \/ up /\ offset' = offset
                \/ Starts' # Starts
  PROVE  Delivered'
<1>1. \A u \in Updates : Copies(u)' = Copies(u)
  <2> SUFFICES ASSUME NEW u \in Updates
               PROVE  Copies(u)' = Copies(u)
    OBVIOUS
  <2>1. \A n \in 1 .. MaxCopies : <<u, n>> \in Handlers
    BY DEF Handlers
  <2>2. {n \in 1 .. MaxCopies : handler'[<<u, n>>] # "none"}
          = {n \in 1 .. MaxCopies : handler[<<u, n>>] # "none"}
    BY <2>1
  <2> QED
    BY <2>2 DEF Copies
<1>2. /\ Cardinality(Starts) <= Cardinality(Starts')
      /\ Starts' # Starts => Cardinality(Starts) < Cardinality(Starts')
      /\ Cardinality(Starts) \in Nat /\ Cardinality(Starts') \in Nat
  BY StartsType, StartsTypeNext, FS_Subset
<1>3. \A u \in Updates : Copies(u) \in Nat /\ Copies(u) <= Cardinality(Starts)
  BY CopiesType DEF Delivered, RedeliveredByRestart
<1>4. RedeliveredByRestart'
  BY <1>1, <1>2, <1>3 DEF RedeliveredByRestart
<1>5. up' => \A u \in Updates : u > offset' => Copies(u)' < Cardinality(Starts')
  BY <1>1, <1>2, <1>3 DEF Delivered
<1> QED
  BY <1>4, <1>5 DEF Delivered

\* What a call of start() creates is new, and stop() leaves the bot down.
LEMMA FinishDelivered ==
  ASSUME TypeOK, Delivered, NEW c \in Calls, call[c] # "done",
         NEW asked, NEW left \in {task, NoCall}, Finish(c, asked, left), handler' = handler
  PROVE  Delivered'
<1>1. loop[c] = "none" /\ call' = [call EXCEPT ![c] = "done"]
  BY DEF Delivered, Owned, Finish
<1>2. \/ loop' = [loop EXCEPT ![c] = "new"] /\ task' = c
      \/ loop' = loop /\ task' \in {task, NoCall} /\ ~up'
  BY DEF Finish
<1>3. Owned'
  BY <1>1, <1>2 DEF Delivered, Owned, TypeOK
<1>4. Starts \subseteq Starts'
  BY <1>1, <1>2 DEF Starts, TypeOK
<1>5. up' => Starts' # Starts
  BY <1>1, <1>2 DEF Starts, TypeOK
<1> QED
  BY <1>3, <1>4, <1>5, KeepsDelivered

\* A step of start() or stop() that is not its last creates no polling task.
LEMMA ServiceDelivered ==
  ASSUME TypeOK, Delivered, NEW c \in Calls, ServiceStep(c)
  PROVE  Delivered'
<1>1. call[c] # "done" /\ UNCHANGED handler
  BY DEF ServiceStep, Begin, Arrives, Joined, Closed, Rest
<1>2. CASE \E asked \in {"none", "start", "stop"}, left \in {task, NoCall} : Finish(c, asked, left)
  BY <1>1, <1>2, FinishDelivered
<1>3. CASE ~ \E asked \in {"none", "start", "stop"}, left \in {task, NoCall} : Finish(c, asked, left)
  <2>1. UNCHANGED <<up, offset>>
    BY <1>3 DEF ServiceStep, Begin, Joined, Closed, TypeOK
  <2>2. /\ task' \in {task, NoCall}
        /\ \A d \in Calls : /\ loop[d] # "none" => loop'[d] # "none"
                            /\ call'[d] # "done" <=> call[d] # "done"
                            /\ loop'[d] # "none" => loop[d] # "none" \/ d = task
    BY <1>3 DEF ServiceStep, Begin, Arrives, Joined, Closed, TypeOK
  <2>3. Owned'
    BY <2>2, Finite DEF Delivered, Owned, TypeOK
  <2>4. Starts \subseteq Starts'
    BY <1>1, <2>2 DEF Starts
  <2> QED
    BY <1>1, <2>1, <2>3, <2>4, KeepsDelivered
<1> QED
  BY <1>2, <1>3

\* getUpdates gives each update it returns one handler, and the next one asks
\* for later updates.
LEMMA PollDelivered ==
  ASSUME TypeOK, Delivered, NEW c \in Calls, PollOnce(c)
  PROVE  Delivered'
<1>1. /\ up /\ UNCHANGED <<call, task, loop, up, posted>>
      /\ offset' = IF Fresh = {} THEN offset ELSE Len(posted)
      /\ handler' = [h \in Handlers |->
           IF h[1] \in Fresh /\ NextTask(h) THEN "queued" ELSE handler[h]]
  BY DEF PollOnce, serviceVars
<1>2. Starts' = Starts /\ Owned'
  BY <1>1 DEF Starts, Delivered, Owned
<1>3. ASSUME NEW u \in Updates, u \notin Fresh PROVE Copies(u)' = Copies(u)
  <2>1. \A n \in 1 .. MaxCopies : handler'[<<u, n>>] = handler[<<u, n>>]
    BY <1>1, <1>3 DEF Handlers
  <2> QED
    BY <2>1 DEF Copies
<1>4. ASSUME NEW u \in Fresh
      PROVE  Copies(u) < Cardinality(Starts) /\ Copies(u)' <= Copies(u) + 1
  <2> DEFINE S == {n \in 1 .. MaxCopies : handler[<<u, n>>] # "none"}
             T == {n \in 1 .. MaxCopies : handler'[<<u, n>>] # "none"}
  <2>1. u \in Updates /\ u > offset
    BY DEF Fresh, Updates, TypeOK
  <2>2. T \in SUBSET (S \cup {Copies(u) + 1})
    BY <1>1, <2>1 DEF Handlers, NextTask
  <2>3. IsFiniteSet(S) /\ Copies(u) = Cardinality(S) /\ Copies(u) \in Nat
    BY <2>1, CopiesType DEF Copies
  <2>4. /\ IsFiniteSet(S \cup {Copies(u) + 1})
        /\ Cardinality(S \cup {Copies(u) + 1}) <= Cardinality(S) + 1
    <3> HIDE DEF S
    <3> DEFINE x == Copies(u) + 1
    <3> HIDE DEF x
    <3>1. /\ IsFiniteSet(S \cup {x})
          /\ Cardinality(S \cup {x}) = IF x \in S THEN Cardinality(S) ELSE Cardinality(S) + 1
      BY <2>3, FS_AddElement
    <3>2. Cardinality(S \cup {x}) <= Cardinality(S) + 1
      BY <2>3, <3>1
    <3> QED
      BY <3>1, <3>2 DEF x
  <2>5. Cardinality(T) <= Cardinality(S \cup {Copies(u) + 1}) /\ IsFiniteSet(T)
    BY <2>2, <2>4, FS_Subset
  <2>6. Cardinality(T) \in Nat /\ Cardinality(S \cup {Copies(u) + 1}) \in Nat
    BY <2>4, <2>5, FS_CardinalityType
  <2>7. Copies(u)' = Cardinality(T)
    BY DEF Copies
  <2> QED
    BY <1>1, <2>1, <2>3, <2>4, <2>5, <2>6, <2>7 DEF Delivered
<1>5. \A u \in Updates : Copies(u) \in Nat /\ Copies(u)' \in Nat
  <2> SUFFICES ASSUME NEW u \in Updates PROVE Copies(u)' \in Nat
    BY CopiesType
  <2>1. {n \in 1 .. MaxCopies : handler'[<<u, n>>] # "none"} \in SUBSET (1 .. MaxCopies)
    OBVIOUS
  <2>2. IsFiniteSet(1 .. MaxCopies)
    BY FS_Interval, BoundAssumption
  <2>3. IsFiniteSet({n \in 1 .. MaxCopies : handler'[<<u, n>>] # "none"})
    BY <2>1, <2>2, FS_Subset
  <2> QED
    BY <2>3, FS_CardinalityType DEF Copies
<1>6. RedeliveredByRestart'
  BY <1>2, <1>3, <1>4, <1>5, StartsType DEF Delivered, RedeliveredByRestart
<1>7. \A u \in Updates : u > offset' => u \notin Fresh /\ u > offset
  <2>1. /\ Fresh = {} => offset' = offset
        /\ Fresh # {} => offset' = Len(posted)
        /\ Len(posted) \in Nat /\ offset \in Nat
    BY <1>1, BoundAssumption DEF TypeOK
  <2>2. \A u \in Fresh : u \in Nat /\ offset < u /\ u <= Len(posted)
    BY DEF Fresh, Updates
  <2>3. Updates \subseteq Nat
    BY DEF Updates
  <2>4. CASE Fresh = {}
    BY <2>1, <2>4
  <2>5. CASE Fresh # {}
    BY <2>1, <2>2, <2>3, <2>5
  <2> QED
    BY <2>4, <2>5
<1> QED
  BY <1>1, <1>2, <1>3, <1>6, <1>7 DEF Delivered

\* No other step delivers a message.
LEMMA OtherDelivered ==
  ASSUME TypeOK, Delivered,
         \/ \E c \in Calls : LoopBegins(c) \/ LoopEnds(c)
         \/ \E h \in Handlers : HandlerStep(h)
         \/ \E ch \in Chats : Post(ch)
         \/ Crash \/ Midnight
  PROVE  Delivered'
<1>1. ASSUME NEW c \in Calls, LoopBegins(c) \/ LoopEnds(c) PROVE Delivered'
  <2>1. /\ UNCHANGED <<call, task, up, offset, handler>>
        /\ \A d \in Calls : loop'[d] = "none" <=> loop[d] = "none"
    BY <1>1 DEF LoopBegins, LoopEnds, queueVars, TypeOK
  <2> QED
    BY <2>1, KeepsDelivered DEF Delivered, Owned, Starts
<1>2. ASSUME NEW h \in Handlers, HandlerStep(h) PROVE Delivered'
  <2>1. UNCHANGED <<call, task, loop, up, offset>>
    BY <1>2 DEF HandlerStep, HandlerFails, RefusedAsBusy, RefusedByCap, Admit,
       StartDebate, NoDebate, FetchFails, CallCosts, DebateFails, Record, Answered, serviceVars, queueVars
  <2>2. \A g \in Handlers : handler'[g] # "none" <=> handler[g] # "none"
    BY <1>2 DEF HandlerStep, HandlerFails, RefusedAsBusy, RefusedByCap, Admit,
       StartDebate, NoDebate, FetchFails, CallCosts, DebateFails, Record, Answered, HandlerGoes, TypeOK
  <2> QED
    BY <2>1, <2>2, KeepsDelivered DEF Delivered, Owned, Starts
<1>3. CASE Midnight \/ \E ch \in Chats : Post(ch)
  <2>1. UNCHANGED <<call, task, loop, up, offset, handler>>
    BY <1>3 DEF Midnight, Post, serviceVars, queueVars
  <2> QED
    BY <2>1, KeepsDelivered DEF Delivered, Owned, Starts
<1>4. CASE Crash
  <2>1. /\ ~up' /\ task' = NoCall
        /\ \A d \in Calls : /\ loop'[d] = "none" <=> loop[d] = "none"
                            /\ call'[d] # "done" => call[d] # "done"
    BY <1>4 DEF Crash, TypeOK
  <2>2. \A g \in Handlers : handler'[g] # "none" <=> handler[g] # "none"
    BY <1>4 DEF Crash
  <2> QED
    BY <2>1, <2>2, KeepsDelivered DEF Delivered, Owned, Starts
<1> QED
  BY <1>1, <1>2, <1>3, <1>4

\* Whatever is started, stopped, crashed and delivered again, overlapping calls
\* included: a message gets at most one handler for each start of the bot.
THEOREM OneAnswerPerStart == Spec => []RedeliveredByRestart
<1>1. Init => Delivered
  <2> SUFFICES ASSUME Init PROVE Delivered
    OBVIOUS
  <2>1. ~up /\ Owned
    BY DEF Init, Owned
  <2>2. \A u \in Updates : Copies(u) = 0
    <3> SUFFICES ASSUME NEW u \in Updates PROVE Copies(u) = 0
      OBVIOUS
    <3>1. {n \in 1 .. MaxCopies : handler[<<u, n>>] # "none"} = {}
      BY DEF Init, Handlers
    <3> QED
      BY <3>1, FS_EmptySet DEF Copies
  <2> QED
    BY <2>1, <2>2, StartsType DEF Delivered, RedeliveredByRestart
<1>2. TypeOK /\ Delivered /\ [Next]_vars => Delivered'
  <2> SUFFICES ASSUME TypeOK, Delivered, [Next]_vars PROVE Delivered'
    OBVIOUS
  <2>1. ASSUME NEW c \in Calls, ServiceStep(c) \/ LoopStep(c) PROVE Delivered'
    BY <2>1, ServiceDelivered, PollDelivered, OtherDelivered DEF LoopStep
  <2>2. CASE (\E h \in Handlers : HandlerStep(h)) \/ (\E ch \in Chats : Post(ch)) \/ Crash \/ Midnight
    BY <2>2, OtherDelivered
  <2>3. CASE UNCHANGED vars
    BY <2>3, KeepsDelivered DEF vars, Delivered, Owned, Starts
  <2> QED
    BY <2>1, <2>2, <2>3 DEF Next
<1>3. Delivered => RedeliveredByRestart
  BY DEF Delivered
<1> QED
  BY <1>1, <1>2, <1>3, TypeCorrect, PTL DEF Spec

-------------------------------------------------------------------------------
(***************************************************************************)
(* Which polling tasks stop() reaches.                                     *)
(***************************************************************************)
\* A task that polls or is about to, and whose start() did not end beside another
\* call, is the one self._task holds, and no call is being served: the next one
\* cancels it.
Held ==
  \A c \in Polling \ raced : task = c /\ \A d \in Calls : ~InService(d)

\* The end of a call leaves at most the task it creates, if no call is served
\* beside it, and no task that polls was held before.
LEMMA FinishHeld ==
  ASSUME TypeOK, NEW c \in Calls, NEW asked, NEW left, Finish(c, asked, left),
         Polling \subseteq raced
  PROVE  Held'
<1>1. CASE asked = "start"
  <2>1. /\ call' = [call EXCEPT ![c] = "done"] /\ task' = c
        /\ loop' = [loop EXCEPT ![c] = "new"]
        /\ raced' = IF \E d \in Calls \ {c} : InService(d) THEN raced \cup {c} ELSE raced
    BY <1>1 DEF Finish
  <2>2. Polling' \subseteq Polling \cup {c}
    BY <2>1 DEF Polling, TypeOK
  <2>3. CASE \E d \in Calls \ {c} : InService(d)
    BY <2>1, <2>2, <2>3 DEF Held
  <2>4. CASE ~ \E d \in Calls \ {c} : InService(d)
    <3>1. \A d \in Calls : ~InService(d)'
      BY <2>1, <2>4 DEF InService, TypeOK
    <3> QED
      BY <2>1, <2>2, <3>1 DEF Held
  <2> QED
    BY <2>3, <2>4
<1>2. CASE asked # "start"
  BY <1>2 DEF Finish, Held, Polling
<1> QED
  BY <1>1, <1>2

\* Calls keep it, however they overlap.
LEMMA ServiceHeld ==
  ASSUME TypeOK, Held, NEW c \in Calls, ServiceStep(c)
  PROVE  Held'
<1>1. ASSUME NEW asked \in {"start", "stop"}, Begin(c, asked) PROVE Held'
  <2>1. CASE task # NoCall
    <3>1. task \in Calls
      BY <2>1 DEF TypeOK
    <3>2. loop' = [loop EXCEPT ![task] = IF @ = "dead" THEN @ ELSE "cancelled"] /\ raced' = raced
      BY <1>1, <2>1 DEF Begin
    <3>3. Polling' \subseteq Polling \ {task}
      BY <3>1, <3>2 DEF Polling, TypeOK
    <3> QED
      BY <3>2, <3>3 DEF Held
  <2>2. CASE task = NoCall
    <3>1. Polling \subseteq raced
      BY <2>2, Finite DEF Held, Polling
    <3>2. CASE up
      BY <1>1, <2>2, <3>1, <3>2 DEF Begin, Held, Polling
    <3>3. CASE ~up
      BY <1>1, <2>2, <3>1, <3>3, FinishHeld DEF Begin
    <3> QED
      BY <3>2, <3>3
  <2> QED
    BY <2>1, <2>2
<1>2. CASE Joined(c) \/ Closed(c)
  <2>1. Polling \subseteq raced
    BY <1>2 DEF Joined, Closed, InService, Held
  <2>2. CASE \E left \in Calls \cup {NoCall} : Finish(c, kind[c], left)
    BY <2>1, <2>2, FinishHeld
  <2>3. CASE ~ \E left \in Calls \cup {NoCall} : Finish(c, kind[c], left)
    BY <1>2, <2>1, <2>3 DEF Joined, Closed, Held, Polling, TypeOK
  <2> QED
    BY <2>2, <2>3
<1> QED
  BY <1>1, <1>2 DEF ServiceStep

\* Every step does.
LEMMA HeldStep ==
  ASSUME TypeOK, Held, [Next]_vars
  PROVE  Held'
<1>1. ASSUME NEW c \in Calls, ServiceStep(c) PROVE Held'
  BY <1>1, ServiceHeld
<1>2. ASSUME NEW c \in Calls, LoopStep(c) PROVE Held'
  <2>1. UNCHANGED <<call, task, raced>>
    BY <1>2 DEF LoopStep, LoopBegins, LoopEnds, PollOnce, serviceVars
  <2>2. Polling' \subseteq Polling
    BY <1>2 DEF LoopStep, LoopBegins, LoopEnds, PollOnce, serviceVars, TypeOK, Polling
  <2> QED
    BY <2>1, <2>2 DEF Held, InService
<1>3. CASE UNCHANGED serviceVars
  BY <1>3 DEF serviceVars, Held, InService, Polling
<1>4. ASSUME NEW h \in Handlers, HandlerStep(h) PROVE UNCHANGED serviceVars
  BY <1>4 DEF HandlerStep, HandlerFails, RefusedAsBusy, RefusedByCap, Admit,
     StartDebate, NoDebate, FetchFails, CallCosts, DebateFails, Record, Answered
<1>5. CASE Midnight \/ (\E ch \in Chats : Post(ch))
  BY <1>3, <1>5 DEF Midnight, Post
<1>6. CASE Crash
  BY <1>6 DEF Crash, Held, Polling
<1>7. CASE UNCHANGED vars
  BY <1>3, <1>7 DEF vars, serviceVars
<1> QED
  BY <1>1, <1>2, <1>3, <1>4, <1>5, <1>6, <1>7 DEF Next

\* However starts and stops overlap, and whatever debates, polls and crashes they
\* meet, a polling task that self._task does not hold, and that no stop() will
\* cancel, was made by a start() that ended while another call was being served.
THEOREM PollersHeld == Spec => []PollersReachable
<1>1. Init => Held
  BY DEF Init, Held, Polling
<1>2. TypeOK /\ Held /\ [Next]_vars => Held'
  BY HeldStep
<1>3. Held => PollersReachable
  BY DEF Held, PollersReachable
<1> QED
  BY <1>1, <1>2, <1>3, TypeCorrect, PTL DEF Spec
=============================================================================
