-------------------------- MODULE EngineRunner_proofs --------------------------
(***************************************************************************)
(* Proofs about EngineRunner, for any number of engines and calls: type    *)
(* correctness; that startEngine() shares no dead handshake; that the pid  *)
(* file names what the next launch must reap; and that, but for macOS,     *)
(* engines are spawned one at a time and a dead engine's port, where the   *)
(* renderer holds it, is about to be dropped.                              *)
(***************************************************************************)
EXTENDS EngineRunner, TLAPS

States   == {"none", "unborn", "dead"} \cup Alive
Promises == {"none", "pending", "resolved", "rejected", "lost"}

\* What a signal leaves of the processes are processes, and none is served.
LEMMA TerminatedType ==
  ASSUME proc \in [Engines -> States], NEW e \in Engines
  PROVE  /\ Terminated(e) \in [Engines -> States]
         /\ \A x \in Engines : x # e => Terminated(e)[x] = proc[x]
         /\ \A x \in Engines : Terminated(e)[x] = "serving" => proc[x] = "serving" /\ x # e
         /\ \A x \in Engines : (Terminated(e)[x] = "none") <=> (proc[x] = "none")
  BY DEF Terminated, States, Alive

\* A queue is one after an addition and after a removal.
LEMMA QueueType ==
  ASSUME NEW M, NEW q \in Seq(M)
  PROVE  /\ \A m \in M : Append(q, m) \in Seq(M)
         /\ q # <<>> => Head(q) \in M /\ Tail(q) \in Seq(M)
  OBVIOUS

\* The engines' part of the types.
EnginesOK ==
  /\ child \in Engines \cup {None} /\ promise \in Engines \cup {None}
  /\ spawned \in 0 .. MaxSpawns
  /\ proc \in [Engines -> States]
  /\ line \in [Engines -> {"none", "good", "bad"}]
  /\ hs \in [Engines -> Promises]
  /\ mourned \in [Engines -> BOOLEAN]
  /\ told \in [Engines -> BOOLEAN]
  /\ file \in Engines \cup {None}
  /\ unrecorded \in [Engines -> BOOLEAN]

\* The renderer's part.
RendererOK ==
  /\ call \in [Calls -> {"idle", "sent", "waiting", "replied"}]
  /\ awaits \in [Calls -> Engines \cup {None}]
  /\ \A c \in Calls : call[c] = "waiting" => awaits[c] # None /\ hs[awaits[c]] = "pending"
  /\ inbox \in Seq([calls : SUBSET Calls, engine : Engines \cup {None}])
  /\ cached \in Engines \cup {None}

\* The application's.
AppOK == darwin \in BOOLEAN /\ main \in BOOLEAN /\ quitting \in BOOLEAN /\ window \in BOOLEAN

-------------------------------------------------------------------------------
(***************************************************************************)
(* The inductive invariant.                                                *)
(***************************************************************************)
\* Nothing has happened to an engine not yet spawned.
FreshOK ==
  \A e \in Engines : e > spawned =>
    proc[e] = "none" /\ line[e] = "none" /\ hs[e] = "none" /\ ~mourned[e]

\* A spawn that failed prints no handshake.
UnbornOK == \A e \in Engines : proc[e] = "unborn" => line[e] = "none" /\ hs[e] # "resolved"

\* From its pid on, an engine nobody signalled is the one in the file.
RecordOK ==
  \A e \in Engines :
    proc[e] \in {"recorded", "serving"} /\ ~told[e] /\ ~unrecorded[e] => file = e

\* There is no window without main, and no call without a window.
WindowOK == (window => main) /\ (~window => \A c \in Calls : call[c] = "idle")

\* A main that is gone has no engine and listens to none.
GoneOK ==
  ~main => child = None /\ promise = None /\ \A e \in Engines : hs[e] \in {"none", "lost"}

\* Where no engine is stopped but to quit, the one pending handshake is the
\* shared one, and with none shared the child has failed its own.
TurnOK ==
  main /\ ~darwin /\ ~quitting =>
    /\ \A e \in Engines : hs[e] = "pending" => promise = e
    /\ promise = None => child = None \/ hs[child] = "rejected"

IInv ==
  /\ AppOK /\ EnginesOK /\ RendererOK
  /\ PromiseIsLive /\ FreshOK /\ UnbornOK /\ RecordOK /\ WindowOK /\ GoneOK /\ TurnOK

-------------------------------------------------------------------------------
(***************************************************************************)
(* What the shared parts of the actions do.                                *)
(***************************************************************************)
\* A spawn keeps the types, and the engine it makes is a new one.
LEMMA SpawnType ==
  ASSUME EnginesOK, Spawn
  PROVE  /\ spawned + 1 \in Engines
         /\ child' \in Engines \cup {None} /\ promise' \in Engines \cup {None}
         /\ spawned' \in 0 .. MaxSpawns
         /\ proc' \in [Engines -> States]
         /\ hs' \in [Engines -> Promises]
         /\ told' \in [Engines -> BOOLEAN]
         /\ file' \in Engines \cup {None}
<1>1. spawned + 1 \in Engines /\ spawned' \in 0 .. MaxSpawns
  BY SpawnsAssumption DEF Spawn, EnginesOK, Engines
<1>2. Reaped \in [Engines -> States]
  BY TerminatedType DEF Reaped, EnginesOK
<1>3. proc' \in [Engines -> States]
  BY <1>1, <1>2 DEF Spawn, States, Alive
<1>4. hs' \in [Engines -> Promises]
  BY <1>1 DEF Spawn, EnginesOK, Promises
<1>5. told' \in [Engines -> BOOLEAN]
  BY DEF Spawn, EnginesOK
<1> QED
  BY <1>1, <1>3, <1>4, <1>5 DEF Spawn

\* What a spawn does to each engine.
LEMMA SpawnStep ==
  ASSUME EnginesOK, Spawn
  PROVE  /\ child' = spawned + 1 /\ promise' = spawned + 1 /\ spawned' = spawned + 1
         /\ file' = None
         /\ proc'[spawned + 1] \in {"starting", "unborn"}
         /\ hs'[spawned + 1] = "pending"
         /\ \A x \in Engines : x # spawned + 1 =>
              /\ hs'[x] = hs[x]
              /\ proc'[x] \in {"recorded", "serving", "unborn"} => proc'[x] = proc[x]
              /\ proc[x] = "none" => proc'[x] = "none"
         /\ \A x \in Engines : told'[x] = (told[x] \/ x = file)
<1>1. spawned + 1 \in Engines
  BY SpawnType
<1>2. Reaped \in [Engines -> States]
  BY TerminatedType DEF Reaped, EnginesOK
<1>3. \A x \in Engines : /\ Reaped[x] \in {"recorded", "serving", "unborn"} => Reaped[x] = proc[x]
                         /\ proc[x] = "none" => Reaped[x] = "none"
  BY DEF Reaped, Terminated, EnginesOK, States, Alive
<1>4. PICK born \in {"starting", "unborn"} : proc' = [Reaped EXCEPT ![spawned + 1] = born]
  BY DEF Spawn
<1>5. proc'[spawned + 1] \in {"starting", "unborn"}
  BY <1>1, <1>2, <1>4
<1>6. \A x \in Engines : x # spawned + 1 => proc'[x] = Reaped[x]
  BY <1>1, <1>2, <1>4
<1>7. hs'[spawned + 1] = "pending" /\ \A x \in Engines : x # spawned + 1 => hs'[x] = hs[x]
  BY <1>1 DEF Spawn, EnginesOK
<1> QED
  BY <1>3, <1>5, <1>6, <1>7 DEF Spawn

\* A stop keeps the types, ...
LEMMA StopType ==
  ASSUME EnginesOK, StopEngine
  PROVE  /\ child' \in Engines \cup {None} /\ promise' \in Engines \cup {None}
         /\ proc' \in [Engines -> States]
         /\ told' \in [Engines -> BOOLEAN]
  BY TerminatedType DEF StopEngine, EnginesOK

\* ... leaves no engine shared, and signals the child.
LEMMA StopStep ==
  ASSUME EnginesOK, PromiseIsLive, StopEngine
  PROVE  /\ child' = None /\ promise' = None
         /\ \A x \in Engines :
              /\ proc'[x] \in {"recorded", "serving", "unborn"} => proc'[x] = proc[x]
              /\ proc[x] = "none" => proc'[x] = "none"
              /\ told[x] => told'[x]
<1>1. child' = None /\ promise' = None
  BY DEF StopEngine, PromiseIsLive
<1>2. \A x \in Engines : /\ proc'[x] \in {"recorded", "serving", "unborn"} => proc'[x] = proc[x]
                         /\ proc[x] = "none" => proc'[x] = "none"
  BY DEF StopEngine, Terminated, EnginesOK, States, Alive
<1> QED
  BY <1>1, <1>2 DEF StopEngine

\* A renderer that is gone has no calls.
LEMMA GoneType ==
  ASSUME RendererGone
  PROVE  RendererOK' /\ \A c \in Calls : call'[c] = "idle"
  BY DEF RendererGone, RendererOK

\* A main that is gone listens to none.
LEMMA MainGoneType ==
  ASSUME EnginesOK, MainGone
  PROVE  /\ hs' \in [Engines -> Promises]
         /\ \A e \in Engines : hs'[e] \in {"none", "lost"} /\ (hs[e] = "none" => hs'[e] = "none")
  BY DEF MainGone, EnginesOK, Promises

\* A settled promise keeps the types: no call awaits it any more.
LEMMA SettleType ==
  ASSUME EnginesOK, RendererOK, NEW e \in Engines, NEW outcome \in {"resolved", "rejected"},
         Settle(e, outcome), UNCHANGED <<awaits, cached>>
  PROVE  /\ RendererOK'
         /\ hs' \in [Engines -> Promises]
         /\ hs'[e] = outcome
         /\ \A x \in Engines : x # e => hs'[x] = hs[x]
         /\ \A c \in Calls : call[c] = "idle" => call'[c] = "idle"
<1> DEFINE cs == {c \in Calls : call[c] = "waiting" /\ awaits[c] = e}
           m  == Answer(cs, IF outcome = "resolved" THEN e ELSE None)
<1>1. /\ hs' \in [Engines -> Promises]
      /\ hs'[e] = outcome
      /\ \A x \in Engines : x # e => hs'[x] = hs[x]
  BY DEF Settle, EnginesOK, Promises
<1>2. call' \in [Calls -> {"idle", "sent", "waiting", "replied"}]
  BY DEF Settle, RendererOK
<1>3. \A c \in Calls : call'[c] = "waiting" => awaits'[c] # None /\ hs'[awaits'[c]] = "pending"
  BY DEF Settle, RendererOK, EnginesOK
<1>4. inbox' \in Seq([calls : SUBSET Calls, engine : Engines \cup {None}])
  <2> DEFINE M == [calls : SUBSET Calls, engine : Engines \cup {None}]
  <2>1. m \in M
    BY DEF Answer
  <2>2. inbox' = inbox \/ inbox' = Append(inbox, m)
    BY DEF Settle
  <2>3. inbox \in Seq(M)
    BY DEF RendererOK
  <2> HIDE DEF m, M
  <2>4. inbox' \in Seq(M)
    BY <2>1, <2>2, <2>3, QueueType
  <2> QED
    BY <2>4 DEF M
<1>5. \A c \in Calls : call[c] = "idle" => call'[c] = "idle"
  BY DEF Settle
<1> QED
  BY <1>1, <1>2, <1>3, <1>4, <1>5 DEF RendererOK
-------------------------------------------------------------------------------
(***************************************************************************)
(* Every step keeps the invariant.                                         *)
(***************************************************************************)
\* A launch.
LEMMA LaunchKeeps ==
  ASSUME IInv, Launch
  PROVE  IInv'
<1> USE DEF IInv, Launch, rendererVars
<1>1. AppOK'
  BY SpawnType, SpawnStep DEF AppOK
<1>2. EnginesOK'
  BY SpawnType, SpawnStep DEF EnginesOK, States, Alive, Promises
<1>3. RendererOK'
  BY SpawnType, SpawnStep DEF RendererOK, EnginesOK
<1>4. PromiseIsLive'
  BY SpawnType, SpawnStep DEF Launch, PromiseIsLive, FreshOK, EnginesOK, Engines
<1>5. FreshOK'
  BY SpawnType, SpawnStep DEF FreshOK, EnginesOK, Engines
<1>6. UnbornOK'
  BY SpawnType, SpawnStep DEF UnbornOK, FreshOK, EnginesOK
<1>7. RecordOK'
  BY SpawnType, SpawnStep DEF RecordOK, EnginesOK
<1>8. WindowOK'
  BY SpawnType, SpawnStep DEF WindowOK
<1>9. GoneOK'
  BY SpawnType, SpawnStep DEF GoneOK, EnginesOK
<1>10. TurnOK'
  BY SpawnType, SpawnStep DEF TurnOK, GoneOK, PromiseIsLive, EnginesOK
<1> QED
  BY <1>1, <1>2, <1>3, <1>4, <1>5, <1>6, <1>7, <1>8, <1>9, <1>10

\* Closing the window.
LEMMA CloseKeeps ==
  ASSUME IInv, CloseWindow
  PROVE  IInv'
<1> USE DEF IInv, CloseWindow, listenVars
<1>1. AppOK'
  BY StopType, StopStep, GoneType DEF AppOK
<1>2. EnginesOK'
  BY StopType, StopStep, GoneType DEF EnginesOK, States, Alive, Promises
<1>3. RendererOK'
  BY StopType, StopStep, GoneType DEF RendererOK, EnginesOK
<1>4. PromiseIsLive'
  BY StopType, StopStep, GoneType DEF PromiseIsLive, EnginesOK
<1>5. FreshOK'
  BY StopType, StopStep, GoneType DEF FreshOK, EnginesOK, Engines
<1>6. UnbornOK'
  BY StopType, StopStep, GoneType DEF UnbornOK, FreshOK, EnginesOK
<1>7. RecordOK'
  BY StopType, StopStep, GoneType DEF RecordOK, EnginesOK
<1>8. WindowOK'
  BY StopType, StopStep, GoneType DEF WindowOK
<1>9. GoneOK'
  BY StopType, StopStep, GoneType DEF GoneOK, EnginesOK
<1>10. TurnOK'
  BY StopType, StopStep, GoneType DEF TurnOK, GoneOK, PromiseIsLive, EnginesOK
<1> QED
  BY <1>1, <1>2, <1>3, <1>4, <1>5, <1>6, <1>7, <1>8, <1>9, <1>10

\* Opening one.
LEMMA OpenKeeps ==
  ASSUME IInv, OpenWindow
  PROVE  IInv'
<1> USE DEF IInv, OpenWindow, appVars, runnerVars, engineVars, listenVars, rendererVars
<1>1. AppOK'
  BY DEF AppOK
<1>2. EnginesOK'
  BY DEF EnginesOK, States, Alive, Promises
<1>3. RendererOK'
  BY DEF RendererOK, EnginesOK
<1>4. PromiseIsLive'
  BY DEF PromiseIsLive, EnginesOK
<1>5. FreshOK'
  BY DEF FreshOK, EnginesOK, Engines
<1>6. UnbornOK'
  BY DEF UnbornOK, FreshOK, EnginesOK
<1>7. RecordOK'
  BY DEF RecordOK, EnginesOK
<1>8. WindowOK'
  BY DEF WindowOK
<1>9. GoneOK'
  BY DEF GoneOK, EnginesOK
<1>10. TurnOK'
  BY DEF TurnOK, GoneOK, PromiseIsLive, EnginesOK
<1> QED
  BY <1>1, <1>2, <1>3, <1>4, <1>5, <1>6, <1>7, <1>8, <1>9, <1>10

\* Reloading it.
LEMMA ReloadKeeps ==
  ASSUME IInv, Reload
  PROVE  IInv'
<1> USE DEF IInv, Reload, appVars, runnerVars, engineVars, listenVars
<1>1. AppOK'
  BY GoneType DEF AppOK
<1>2. EnginesOK'
  BY GoneType DEF EnginesOK, States, Alive, Promises
<1>3. RendererOK'
  BY GoneType DEF RendererOK, EnginesOK
<1>4. PromiseIsLive'
  BY GoneType DEF PromiseIsLive, EnginesOK
<1>5. FreshOK'
  BY GoneType DEF FreshOK, EnginesOK, Engines
<1>6. UnbornOK'
  BY GoneType DEF UnbornOK, FreshOK, EnginesOK
<1>7. RecordOK'
  BY GoneType DEF RecordOK, EnginesOK
<1>8. WindowOK'
  BY GoneType DEF WindowOK
<1>9. GoneOK'
  BY GoneType DEF GoneOK, EnginesOK
<1>10. TurnOK'
  BY GoneType DEF TurnOK, GoneOK, PromiseIsLive, EnginesOK
<1> QED
  BY <1>1, <1>2, <1>3, <1>4, <1>5, <1>6, <1>7, <1>8, <1>9, <1>10

\* Quitting.
LEMMA QuitKeeps ==
  ASSUME IInv, Quit
  PROVE  IInv'
<1> USE DEF IInv, Quit, listenVars, rendererVars
<1>1. AppOK'
  BY StopType, StopStep DEF AppOK
<1>2. EnginesOK'
  BY StopType, StopStep DEF EnginesOK, States, Alive, Promises
<1>3. RendererOK'
  BY StopType, StopStep DEF RendererOK, EnginesOK
<1>4. PromiseIsLive'
  BY StopType, StopStep DEF PromiseIsLive, EnginesOK
<1>5. FreshOK'
  BY StopType, StopStep DEF FreshOK, EnginesOK, Engines
<1>6. UnbornOK'
  BY StopType, StopStep DEF UnbornOK, FreshOK, EnginesOK
<1>7. RecordOK'
  BY StopType, StopStep DEF RecordOK, EnginesOK
<1>8. WindowOK'
  BY StopType, StopStep DEF WindowOK
<1>9. GoneOK'
  BY StopType, StopStep DEF GoneOK, EnginesOK
<1>10. TurnOK'
  BY StopType, StopStep DEF TurnOK, GoneOK, PromiseIsLive, EnginesOK
<1> QED
  BY <1>1, <1>2, <1>3, <1>4, <1>5, <1>6, <1>7, <1>8, <1>9, <1>10

\* The end of main.
LEMMA EndsMainKeeps ==
  ASSUME IInv, MainEnds
  PROVE  IInv'
<1> USE DEF IInv, MainEnds, engineVars
<1>1. AppOK'
  BY GoneType, MainGoneType DEF AppOK
<1>2. EnginesOK'
  BY GoneType, MainGoneType DEF EnginesOK, States, Alive, Promises
<1>3. RendererOK'
  BY GoneType, MainGoneType DEF RendererOK, EnginesOK
<1>4. PromiseIsLive'
  BY GoneType, MainGoneType DEF PromiseIsLive, EnginesOK
<1>5. FreshOK'
  BY GoneType, MainGoneType DEF FreshOK, EnginesOK, Engines
<1>6. UnbornOK'
  BY GoneType, MainGoneType DEF UnbornOK, FreshOK, EnginesOK
<1>7. RecordOK'
  BY GoneType, MainGoneType DEF RecordOK, EnginesOK
<1>8. WindowOK'
  BY GoneType, MainGoneType DEF WindowOK
<1>9. GoneOK'
  BY GoneType, MainGoneType DEF GoneOK, EnginesOK
<1>10. TurnOK'
  BY GoneType, MainGoneType DEF TurnOK, GoneOK, PromiseIsLive, EnginesOK
<1> QED
  BY <1>1, <1>2, <1>3, <1>4, <1>5, <1>6, <1>7, <1>8, <1>9, <1>10

\* A call sent.
LEMMA AskKeeps ==
  ASSUME IInv, NEW c \in Calls, Ask(c)
  PROVE  IInv'
<1> USE DEF IInv, Ask, appVars, runnerVars, engineVars, listenVars, rendererVars
<1>1. AppOK'
  BY DEF AppOK
<1>2. EnginesOK'
  BY DEF EnginesOK, States, Alive, Promises
<1>3. RendererOK'
  BY DEF RendererOK, EnginesOK
<1>4. PromiseIsLive'
  BY DEF PromiseIsLive, EnginesOK
<1>5. FreshOK'
  BY DEF FreshOK, EnginesOK, Engines
<1>6. UnbornOK'
  BY DEF UnbornOK, FreshOK, EnginesOK
<1>7. RecordOK'
  BY DEF RecordOK, EnginesOK
<1>8. WindowOK'
  BY DEF WindowOK
<1>9. GoneOK'
  BY DEF GoneOK, EnginesOK
<1>10. TurnOK'
  BY DEF TurnOK, GoneOK, PromiseIsLive, EnginesOK
<1> QED
  BY <1>1, <1>2, <1>3, <1>4, <1>5, <1>6, <1>7, <1>8, <1>9, <1>10

\* A message delivered.
LEMMA DeliverKeeps ==
  ASSUME IInv, Deliver
  PROVE  IInv'
<1> USE DEF IInv, Deliver, appVars, runnerVars, engineVars, listenVars, rendererVars
<1>1. AppOK'
  BY QueueType DEF AppOK
<1>2. EnginesOK'
  BY QueueType DEF EnginesOK, States, Alive, Promises
<1>3. RendererOK'
  <2> DEFINE M == [calls : SUBSET Calls, engine : Engines \cup {None}]
  <2>1. inbox \in Seq(M) /\ inbox # <<>>
    BY DEF RendererOK, Deliver
  <2>2. Head(inbox) \in M /\ inbox' \in Seq(M)
    <3> HIDE DEF M
    <3> QED
      BY <2>1, QueueType DEF Deliver
  <2>3. Head(inbox).engine \in Engines \cup {None}
    BY <2>2
  <2>4. cached' \in Engines \cup {None}
    BY <2>3 DEF Deliver, RendererOK
  <2>5. /\ call' \in [Calls -> {"idle", "sent", "waiting", "replied"}]
        /\ awaits' \in [Calls -> Engines \cup {None}]
        /\ \A c \in Calls : call'[c] = "waiting" => awaits'[c] # None /\ hs'[awaits'[c]] = "pending"
    BY DEF Deliver, RendererOK, listenVars
  <2> QED
    BY <2>2, <2>4, <2>5 DEF RendererOK
<1>4. PromiseIsLive'
  BY QueueType DEF PromiseIsLive, EnginesOK
<1>5. FreshOK'
  BY QueueType DEF FreshOK, EnginesOK, Engines
<1>6. UnbornOK'
  BY QueueType DEF UnbornOK, FreshOK, EnginesOK
<1>7. RecordOK'
  BY QueueType DEF RecordOK, EnginesOK
<1>8. WindowOK'
  BY QueueType DEF WindowOK
<1>9. GoneOK'
  BY QueueType DEF GoneOK, EnginesOK
<1>10. TurnOK'
  BY QueueType DEF TurnOK, GoneOK, PromiseIsLive, EnginesOK
<1> QED
  BY <1>1, <1>2, <1>3, <1>4, <1>5, <1>6, <1>7, <1>8, <1>9, <1>10

\* A call at startEngine() with a promise to share.
LEMMA ShareKeeps ==
  ASSUME IInv, NEW c \in Calls, StartEngine(c), promise # None
  PROVE  IInv'
<1> USE DEF IInv
<1>1. /\ promise \in Engines /\ hs[promise] \in {"pending", "resolved"}
      /\ UNCHANGED <<appVars, runnerVars, engineVars, listenVars, cached>>
  BY DEF StartEngine, PromiseIsLive, EnginesOK, engineVars, listenVars
<1>2. RendererOK' /\ \A x \in Calls : call[x] = "idle" => call'[x] = "idle"
  <2>1. CASE hs[promise] = "resolved"
    <3> DEFINE M == [calls : SUBSET Calls, engine : Engines \cup {None}]
    <3>1. inbox' = Append(inbox, Answer({c}, promise)) /\ inbox \in Seq(M)
      BY <2>1 DEF StartEngine, Replied, RendererOK
    <3>2. Answer({c}, promise) \in M
      BY <1>1 DEF Answer
    <3>3. inbox' \in Seq(M)
      <4> HIDE DEF M
      <4> QED
        BY <3>1, <3>2, QueueType
    <3>4. /\ call' \in [Calls -> {"idle", "sent", "waiting", "replied"}] /\ awaits' = awaits
          /\ \A x \in Calls : /\ call'[x] = "waiting" => call[x] = "waiting"
                              /\ call[x] = "idle" => call'[x] = "idle"
      BY <2>1 DEF StartEngine, Replied, RendererOK
    <3> QED
      BY <1>1, <3>3, <3>4 DEF RendererOK, listenVars
  <2>2. CASE hs[promise] = "pending"
    <3>1. Waits(c, promise)
      BY <2>2 DEF StartEngine
    <3>2. /\ call' \in [Calls -> {"idle", "sent", "waiting", "replied"}]
          /\ awaits' \in [Calls -> Engines \cup {None}]
      BY <1>1, <3>1 DEF Waits, RendererOK
    <3>3. \A x \in Calls :
            /\ call'[x] = "waiting" => awaits'[x] # None /\ hs[awaits'[x]] = "pending"
            /\ call[x] = "idle" => call'[x] = "idle"
      BY <1>1, <2>2, <3>1 DEF Waits, RendererOK, StartEngine
    <3> QED
      BY <1>1, <3>1, <3>2, <3>3 DEF RendererOK, Waits, listenVars
  <2> QED
    BY <1>1, <2>1, <2>2
<1>3. AppOK' /\ EnginesOK' /\ PromiseIsLive' /\ FreshOK' /\ UnbornOK' /\ RecordOK'
  BY <1>1 DEF AppOK, EnginesOK, PromiseIsLive, FreshOK, UnbornOK, RecordOK, appVars, runnerVars,
     engineVars, listenVars
<1>4. WindowOK' /\ GoneOK' /\ TurnOK'
  BY <1>1, <1>2 DEF WindowOK, GoneOK, TurnOK, appVars, runnerVars, engineVars, listenVars
<1> QED
  BY <1>2, <1>3, <1>4

\* A call at startEngine() that spawns an engine.
LEMMA SpawnKeeps ==
  ASSUME IInv, NEW c \in Calls, StartEngine(c), promise = None
  PROVE  IInv'
<1> USE DEF IInv
<1> DEFINE e == spawned + 1
<1>1. /\ Spawn /\ Waits(c, e) /\ call[c] = "sent"
      /\ UNCHANGED <<appVars, line, unrecorded, mourned, cached>>
  BY DEF StartEngine
<1>2. e \in Engines /\ e > spawned
  BY <1>1, SpawnType DEF EnginesOK
<1>3. main
  BY <1>1 DEF WindowOK
<1>4. AppOK' /\ EnginesOK'
  BY <1>1, SpawnType DEF AppOK, EnginesOK, appVars
<1>5. RendererOK' /\ \A x \in Calls : call[x] = "idle" => call'[x] = "idle"
  <2>1. /\ call' \in [Calls -> {"idle", "sent", "waiting", "replied"}]
        /\ awaits' \in [Calls -> Engines \cup {None}]
    BY <1>1, <1>2 DEF Waits, RendererOK
  <2>2. \A x \in Engines : hs[x] = "pending" => hs'[x] = "pending"
    BY <1>1, SpawnStep
  <2>3. \A x \in Calls : call'[x] = "waiting" => awaits'[x] # None /\ hs'[awaits'[x]] = "pending"
    <3>1. hs'[e] = "pending" /\ e # None
      BY <1>1, <1>2, SpawnStep DEF Engines, None
    <3> QED
      BY <1>1, <2>2, <3>1 DEF Waits, RendererOK
  <2> QED
    BY <1>1, <2>1, <2>3 DEF RendererOK, Waits
<1>6. PromiseIsLive'
  BY <1>1, <1>2, SpawnStep DEF PromiseIsLive, FreshOK
<1>7. FreshOK' /\ UnbornOK'
  BY <1>1, <1>2, SpawnStep DEF FreshOK, UnbornOK, EnginesOK, Engines
<1>8. RecordOK'
  BY <1>1, <1>2, SpawnStep DEF RecordOK, EnginesOK
<1>9. WindowOK' /\ GoneOK'
  BY <1>1, <1>3, <1>5 DEF WindowOK, GoneOK, appVars
<1>10. TurnOK'
  BY <1>1, <1>2, SpawnStep DEF TurnOK, appVars, Engines, None
<1> QED
  BY <1>4, <1>5, <1>6, <1>7, <1>8, <1>9, <1>10

\* The handshake line read.
LEMMA ReadLineKeeps ==
  ASSUME IInv, NEW e \in Engines, ReadLine(e)
  PROVE  IInv'
<1> USE DEF IInv, ReadLine, appVars
<1>1. AppOK'
  BY SettleType DEF AppOK
<1>2. EnginesOK'
  BY SettleType DEF EnginesOK, States, Alive, Promises
<1>3. RendererOK'
  BY SettleType DEF RendererOK, EnginesOK
<1>4. PromiseIsLive'
  BY SettleType DEF PromiseIsLive, EnginesOK
<1>5. FreshOK'
  BY SettleType DEF FreshOK, EnginesOK, Engines
<1>6. UnbornOK'
  BY SettleType DEF UnbornOK, FreshOK, EnginesOK
<1>7. RecordOK'
  BY SettleType DEF RecordOK, EnginesOK
<1>8. WindowOK'
  BY SettleType DEF WindowOK
<1>9. GoneOK'
  BY SettleType DEF GoneOK, EnginesOK
<1>10. TurnOK'
  BY SettleType DEF TurnOK, GoneOK, PromiseIsLive, EnginesOK
<1> QED
  BY <1>1, <1>2, <1>3, <1>4, <1>5, <1>6, <1>7, <1>8, <1>9, <1>10

\* A failed spawn reported.
LEMMA SpawnErrorKeeps ==
  ASSUME IInv, NEW e \in Engines, SpawnError(e)
  PROVE  IInv'
<1> USE DEF IInv, SpawnError, appVars
<1>1. AppOK'
  BY SettleType DEF AppOK
<1>2. EnginesOK'
  BY SettleType DEF EnginesOK, States, Alive, Promises
<1>3. RendererOK'
  BY SettleType DEF RendererOK, EnginesOK
<1>4. PromiseIsLive'
  BY SettleType DEF SpawnError, Heard, PromiseIsLive, UnbornOK, EnginesOK
<1>5. FreshOK'
  BY SettleType DEF FreshOK, EnginesOK, Engines
<1>6. UnbornOK'
  BY SettleType DEF UnbornOK, FreshOK, EnginesOK
<1>7. RecordOK'
  BY SettleType DEF RecordOK, EnginesOK
<1>8. WindowOK'
  BY SettleType DEF WindowOK
<1>9. GoneOK'
  BY SettleType DEF GoneOK, EnginesOK
<1>10. TurnOK'
  BY SettleType DEF TurnOK, GoneOK, PromiseIsLive, EnginesOK
<1> QED
  BY <1>1, <1>2, <1>3, <1>4, <1>5, <1>6, <1>7, <1>8, <1>9, <1>10

\* A handshake timed out.
LEMMA TimeoutKeeps ==
  ASSUME IInv, NEW e \in Engines, Timeout(e)
  PROVE  IInv'
<1> USE DEF IInv, Timeout, appVars
<1>1. AppOK'
  BY SettleType DEF AppOK
<1>2. EnginesOK'
  BY SettleType DEF EnginesOK, States, Alive, Promises
<1>3. RendererOK'
  BY SettleType DEF RendererOK, EnginesOK
<1>4. PromiseIsLive'
  BY SettleType DEF PromiseIsLive, EnginesOK
<1>5. FreshOK'
  BY SettleType DEF FreshOK, EnginesOK, Engines
<1>6. UnbornOK'
  BY SettleType DEF UnbornOK, FreshOK, EnginesOK
<1>7. RecordOK'
  BY SettleType DEF RecordOK, EnginesOK
<1>8. WindowOK'
  BY SettleType DEF WindowOK
<1>9. GoneOK'
  BY SettleType DEF GoneOK, EnginesOK
<1>10. TurnOK'
  BY SettleType DEF TurnOK, GoneOK, PromiseIsLive, EnginesOK
<1> QED
  BY <1>1, <1>2, <1>3, <1>4, <1>5, <1>6, <1>7, <1>8, <1>9, <1>10

\* An exit reported.
LEMMA ExitKeeps ==
  ASSUME IInv, NEW e \in Engines, ExitEvent(e)
  PROVE  IInv'
<1> USE DEF IInv, ExitEvent, appVars, engineVars
<1>1. AppOK'
  BY SettleType DEF AppOK
<1>2. EnginesOK'
  BY SettleType DEF EnginesOK, States, Alive, Promises
<1>3. RendererOK'
  <2>1. CASE hs[e] = "pending"
    BY <2>1, SettleType DEF ExitEvent
  <2>2. CASE hs[e] # "pending"
    <3> DEFINE M == [calls : SUBSET Calls, engine : Engines \cup {None}]
    <3>1. Exited \in M /\ inbox \in Seq(M)
      BY DEF Exited, RendererOK
    <3>2. inbox' \in Seq(M)
      <4>1. inbox' = inbox \/ inbox' = Append(inbox, Exited)
        BY <2>2 DEF ExitEvent
      <4> HIDE DEF M
      <4> QED
        BY <3>1, <4>1, QueueType
    <3> QED
      BY <2>2, <3>2 DEF ExitEvent, RendererOK
  <2> QED
    BY <2>1, <2>2
<1>4. PromiseIsLive'
  BY SettleType DEF PromiseIsLive, EnginesOK
<1>5. FreshOK'
  BY SettleType DEF FreshOK, EnginesOK, Engines
<1>6. UnbornOK'
  BY SettleType DEF UnbornOK, FreshOK, EnginesOK
<1>7. RecordOK'
  BY SettleType DEF RecordOK, EnginesOK
<1>8. WindowOK'
  BY SettleType DEF WindowOK
<1>9. GoneOK'
  BY SettleType DEF GoneOK, EnginesOK
<1>10. TurnOK'
  BY SettleType DEF TurnOK, GoneOK, PromiseIsLive, EnginesOK
<1> QED
  BY <1>1, <1>2, <1>3, <1>4, <1>5, <1>6, <1>7, <1>8, <1>9, <1>10

\* A pid recorded.
LEMMA WritePidKeeps ==
  ASSUME IInv, NEW e \in Engines, WritePid(e)
  PROVE  IInv'
<1> USE DEF IInv, WritePid, Untouched,
   appVars, runnerVars, engineVars, listenVars, rendererVars
<1>1. AppOK'
  BY DEF AppOK
<1>2. EnginesOK'
  BY DEF EnginesOK, States, Alive, Promises
<1>3. RendererOK'
  BY DEF RendererOK, EnginesOK
<1>4. PromiseIsLive'
  BY DEF PromiseIsLive, EnginesOK
<1>5. FreshOK'
  BY DEF FreshOK, EnginesOK, Engines
<1>6. UnbornOK'
  BY DEF UnbornOK, FreshOK, EnginesOK
<1>7. RecordOK'
  <2>1. proc'[e] = "recorded" /\ \A x \in Engines : x # e => proc'[x] = proc[x]
    BY DEF WritePid, EnginesOK
  <2>2. CASE file' = e /\ unrecorded' = [x \in Engines |-> unrecorded[x] \/ x = file]
    BY <2>1, <2>2 DEF WritePid, RecordOK, EnginesOK
  <2>3. CASE unrecorded' = [unrecorded EXCEPT ![e] = TRUE] /\ UNCHANGED file
    BY <2>1, <2>3 DEF WritePid, RecordOK, EnginesOK
  <2> QED
    BY <2>2, <2>3 DEF WritePid
<1>8. WindowOK'
  BY DEF WindowOK
<1>9. GoneOK'
  BY DEF GoneOK, EnginesOK
<1>10. TurnOK'
  BY DEF TurnOK, GoneOK, PromiseIsLive, EnginesOK
<1> QED
  BY <1>1, <1>2, <1>3, <1>4, <1>5, <1>6, <1>7, <1>8, <1>9, <1>10

\* A handshake line printed.
LEMMA AnnounceKeeps ==
  ASSUME IInv, NEW e \in Engines, Announce(e)
  PROVE  IInv'
<1> USE DEF IInv, Announce, Untouched, OwnRemoved, Heard,
   appVars, runnerVars, engineVars, listenVars, rendererVars
<1>1. AppOK'
  BY DEF AppOK
<1>2. EnginesOK'
  BY DEF EnginesOK, States, Alive, Promises
<1>3. RendererOK'
  BY DEF RendererOK, EnginesOK
<1>4. PromiseIsLive'
  BY DEF PromiseIsLive, EnginesOK
<1>5. FreshOK'
  BY DEF FreshOK, EnginesOK, Engines
<1>6. UnbornOK'
  BY DEF UnbornOK, FreshOK, EnginesOK
<1>7. RecordOK'
  BY DEF RecordOK, EnginesOK
<1>8. WindowOK'
  BY DEF WindowOK
<1>9. GoneOK'
  BY DEF GoneOK, EnginesOK
<1>10. TurnOK'
  BY DEF TurnOK, GoneOK, PromiseIsLive, EnginesOK
<1> QED
  BY <1>1, <1>2, <1>3, <1>4, <1>5, <1>6, <1>7, <1>8, <1>9, <1>10

\* A signalled engine down.
LEMMA EndsKeeps ==
  ASSUME IInv, NEW e \in Engines, Ends(e)
  PROVE  IInv'
<1> USE DEF IInv, Ends, Untouched, OwnRemoved,
   appVars, runnerVars, engineVars, listenVars, rendererVars
<1>1. AppOK'
  BY DEF AppOK
<1>2. EnginesOK'
  BY DEF EnginesOK, States, Alive, Promises
<1>3. RendererOK'
  BY DEF RendererOK, EnginesOK
<1>4. PromiseIsLive'
  BY DEF PromiseIsLive, EnginesOK
<1>5. FreshOK'
  BY DEF FreshOK, EnginesOK, Engines
<1>6. UnbornOK'
  BY DEF UnbornOK, FreshOK, EnginesOK
<1>7. RecordOK'
  BY DEF RecordOK, EnginesOK
<1>8. WindowOK'
  BY DEF WindowOK
<1>9. GoneOK'
  BY DEF GoneOK, EnginesOK
<1>10. TurnOK'
  BY DEF TurnOK, GoneOK, PromiseIsLive, EnginesOK
<1> QED
  BY <1>1, <1>2, <1>3, <1>4, <1>5, <1>6, <1>7, <1>8, <1>9, <1>10

\* A crash.
LEMMA DiesKeeps ==
  ASSUME IInv, NEW e \in Engines, Dies(e)
  PROVE  IInv'
<1> USE DEF IInv, Dies, Untouched, OwnRemoved,
   appVars, runnerVars, engineVars, listenVars, rendererVars
<1>1. AppOK'
  BY DEF AppOK
<1>2. EnginesOK'
  BY DEF EnginesOK, States, Alive, Promises
<1>3. RendererOK'
  BY DEF RendererOK, EnginesOK
<1>4. PromiseIsLive'
  BY DEF PromiseIsLive, EnginesOK
<1>5. FreshOK'
  BY DEF FreshOK, EnginesOK, Engines, Alive
<1>6. UnbornOK'
  BY DEF UnbornOK, FreshOK, EnginesOK
<1>7. RecordOK'
  BY DEF RecordOK, EnginesOK
<1>8. WindowOK'
  BY DEF WindowOK
<1>9. GoneOK'
  BY DEF GoneOK, EnginesOK
<1>10. TurnOK'
  BY DEF TurnOK, GoneOK, PromiseIsLive, EnginesOK
<1> QED
  BY <1>1, <1>2, <1>3, <1>4, <1>5, <1>6, <1>7, <1>8, <1>9, <1>10

-------------------------------------------------------------------------------
\* The invariant holds at the start, ...
LEMMA InitHolds == Init => IInv
<1> SUFFICES ASSUME Init PROVE IInv
  OBVIOUS
<1>1. AppOK
  BY ChoiceAssumption DEF Init, AppOK
<1>2. EnginesOK
  BY SpawnsAssumption DEF Init, EnginesOK, States, Promises, Engines, None
<1>3. RendererOK
  BY DEF Init, RendererOK
<1>4. PromiseIsLive /\ FreshOK /\ UnbornOK /\ RecordOK
  BY DEF Init, PromiseIsLive, FreshOK, UnbornOK, RecordOK, None
<1>5. WindowOK /\ GoneOK /\ TurnOK
  BY DEF Init, WindowOK, GoneOK, TurnOK, None
<1> QED
  BY <1>1, <1>2, <1>3, <1>4, <1>5 DEF IInv

\* ... every step keeps it, ...
LEMMA StepKeeps == IInv /\ [Next]_vars => IInv'
<1> SUFFICES ASSUME IInv, [Next]_vars PROVE IInv'
  OBVIOUS
<1>1. CASE AppStep
  BY <1>1, LaunchKeeps, CloseKeeps, OpenKeeps, ReloadKeeps, QuitKeeps, EndsMainKeeps DEF AppStep
<1>2. CASE \E c \in Calls : Ask(c) \/ StartEngine(c)
  BY <1>2, AskKeeps, ShareKeeps, SpawnKeeps
<1>3. CASE Deliver
  BY <1>3, DeliverKeeps
<1>4. CASE \E e \in Engines : Listener(e)
  BY <1>4, ReadLineKeeps, SpawnErrorKeeps, TimeoutKeeps, ExitKeeps DEF Listener
<1>5. CASE \E e \in Engines : EngineStep(e)
  BY <1>5, WritePidKeeps, AnnounceKeeps, EndsKeeps, DiesKeeps DEF EngineStep
<1>6. CASE UNCHANGED vars
  BY <1>6 DEF vars, IInv, AppOK, EnginesOK, RendererOK, PromiseIsLive, FreshOK, UnbornOK, RecordOK,
     WindowOK, GoneOK, TurnOK
<1> QED
  BY <1>1, <1>2, <1>3, <1>4, <1>5, <1>6 DEF Next

\* ... so it always holds.
THEOREM Inductive == Spec => []IInv
  BY InitHolds, StepKeeps, PTL DEF Spec

\* Every variable has its type.
THEOREM TypeCorrect == Spec => []TypeOK
<1>1. IInv => TypeOK
  BY DEF IInv, TypeOK, AppOK, EnginesOK, RendererOK, States, Promises
<1> QED
  BY <1>1, Inductive, PTL

\* startEngine() shares no handshake whose engine main saw fail or exit, however
\* windows, quits, timeouts and crashes interleave.
THEOREM PromiseLive == Spec => []PromiseIsLive
<1>1. IInv => PromiseIsLive
  BY DEF IInv
<1> QED
  BY <1>1, Inductive, PTL

\* The engine that serves and was never signalled is the one the next launch
\* finds in the pid file, if its pid was written and not overwritten.
THEOREM Recorded == Spec => []ServingIsRecorded
<1>1. IInv => ServingIsRecorded
  BY DEF IInv, RecordOK, ServingIsRecorded
<1> QED
  BY <1>1, Inductive, PTL

\* Away from macOS, startEngine() spawns an engine only in its turn.
THEOREM Serial == Spec => OneAtATime
<1>1. IInv /\ [Next]_vars => [~darwin /\ ~quitting => InTurn]_vars
  <2> SUFFICES ASSUME IInv, Next, ~darwin, ~quitting, main, spawned' # spawned
               PROVE  child = None \/ hs[child] = "rejected"
    BY DEF InTurn
  <2>1. promise = None
    BY DEF Next, AppStep, Launch, CloseWindow, OpenWindow, Reload, Quit, MainEnds, Ask, StartEngine,
       Deliver, Listener, ReadLine, SpawnError, Timeout, ExitEvent, EngineStep, WritePid, Announce,
       Ends, Dies, Untouched, runnerVars, Spawn
  <2> QED
    BY <2>1 DEF IInv, TurnOK
<1> QED
  BY <1>1, Inductive, PTL DEF Spec, OneAtATime
-------------------------------------------------------------------------------
(***************************************************************************)
(* What the renderer holds of an engine that is gone.                      *)
(***************************************************************************)
Message == [calls : SUBSET Calls, engine : Engines \cup {None}]

\* A port the renderer holds, or is about to be sent, was announced; and it is
\* the child's, or the exit is in the queue behind it.
HeldOK ==
  /\ cached # None => hs[cached] = "resolved"
  /\ \A i \in DOMAIN inbox : inbox[i].engine # None => hs[inbox[i].engine] = "resolved"
BehindOK ==
  /\ cached \notin {None, child} => \E j \in DOMAIN inbox : inbox[j] = Exited
  /\ \A i \in DOMAIN inbox : inbox[i].engine \notin {None, child} =>
       \E j \in DOMAIN inbox : j > i /\ inbox[j] = Exited
NewsInv ==
  /\ HeldOK
  /\ ~window => inbox = << >> /\ cached = None
  /\ ~darwin /\ ~quitting => BehindOK

LEMMA QueueAppend ==
  ASSUME NEW q \in Seq(Message), NEW m \in Message
  PROVE  /\ DOMAIN q = 1 .. Len(q) /\ Len(q) \in Nat
         /\ DOMAIN Append(q, m) = 1 .. (Len(q) + 1)
         /\ \A i \in 1 .. Len(q) : Append(q, m)[i] = q[i]
         /\ Append(q, m)[Len(q) + 1] = m
  OBVIOUS

LEMMA QueueEngines ==
  ASSUME NEW q \in Seq(Message)
  PROVE  \A i \in DOMAIN q : q[i].engine \in Engines \cup {None}
<1>1. \A i \in DOMAIN q : q[i] \in Message
  OBVIOUS
<1> QED
  BY <1>1 DEF Message

\* A message posted: what it brings is the child's, and a child that is dropped
\* is dropped with the news of its exit.
LEMMA PostKeepsNews ==
  ASSUME IInv, NewsInv, window, window', UNCHANGED <<darwin, quitting, cached>>,
         NEW m \in Message, inbox' = Append(inbox, m),
         m.engine # None => hs'[m.engine] = "resolved",
         m.engine # None /\ ~darwin /\ ~quitting => m.engine = child',
         \A x \in Engines : hs[x] = "resolved" => hs'[x] = "resolved",
         ~darwin /\ ~quitting =>
           \A x \in Engines : hs[x] = "resolved" /\ x = child => x = child' \/ m = Exited
  PROVE  NewsInv'
<1> DEFINE n == Len(inbox)
<1>1. /\ inbox \in Seq(Message) /\ cached \in Engines \cup {None}
      /\ DOMAIN inbox = 1 .. n /\ n \in Nat /\ DOMAIN inbox' = 1 .. (n + 1)
      /\ \A i \in 1 .. n : inbox'[i] = inbox[i]
      /\ inbox'[n + 1] = m
  BY QueueAppend DEF IInv, RendererOK, Message
<1>2. \A i \in 1 .. n : inbox[i].engine \in Engines \cup {None}
  BY <1>1, QueueEngines
<1> HIDE DEF n
<1>3. HeldOK'
  <2>1. cached' # None => hs'[cached'] = "resolved"
    BY <1>1 DEF NewsInv, HeldOK
  <2>2. ASSUME NEW i \in 1 .. (n + 1), inbox'[i].engine # None
        PROVE  hs'[inbox'[i].engine] = "resolved"
    <3>1. CASE i \in 1 .. n
      BY <1>1, <1>2, <2>2, <3>1 DEF NewsInv, HeldOK
    <3>2. CASE i = n + 1
      BY <1>1, <2>2, <3>2
    <3> QED
      BY <1>1, <3>1, <3>2
  <2> QED
    BY <1>1, <2>1, <2>2 DEF HeldOK
<1>4. ASSUME ~darwin, ~quitting PROVE BehindOK'
  <2>1. ASSUME cached' \notin {None, child'} PROVE \E j \in 1 .. (n + 1) : inbox'[j] = Exited
    <3>1. CASE cached # child
      <4>1. PICK j \in 1 .. n : inbox[j] = Exited
        BY <1>1, <1>4, <2>1, <3>1 DEF NewsInv, BehindOK
      <4> QED
        BY <1>1, <4>1
    <3>2. CASE cached = child
      <4>1. m = Exited
        BY <1>1, <1>4, <2>1, <3>2 DEF NewsInv, HeldOK
      <4> QED
        BY <1>1, <4>1
    <3> QED
      BY <3>1, <3>2
  <2>2. ASSUME NEW i \in 1 .. (n + 1), inbox'[i].engine \notin {None, child'}
        PROVE  \E j \in 1 .. (n + 1) : j > i /\ inbox'[j] = Exited
    <3>1. i \in 1 .. n /\ inbox'[i] = inbox[i]
      BY <1>1, <1>4, <2>2
    <3>2. CASE inbox[i].engine # child
      <4>1. PICK j \in 1 .. n : j > i /\ inbox[j] = Exited
        BY <1>1, <1>4, <2>2, <3>1, <3>2 DEF NewsInv, BehindOK
      <4> QED
        BY <1>1, <4>1
    <3>3. CASE inbox[i].engine = child
      <4>1. m = Exited
        BY <1>1, <1>2, <1>4, <2>2, <3>1, <3>3 DEF NewsInv, HeldOK
      <4> QED
        BY <1>1, <3>1, <4>1
    <3> QED
      BY <3>2, <3>3
  <2> QED
    BY <1>1, <2>1, <2>2 DEF BehindOK
<1> QED
  BY <1>3, <1>4 DEF NewsInv

\* Nothing posted: a child that was announced stays.
LEMMA QuietKeepsNews ==
  ASSUME IInv, NewsInv, UNCHANGED <<darwin, cached, inbox>>,
         \A x \in Engines : hs[x] = "resolved" => hs'[x] = "resolved",
         ~window' => ~window \/ (inbox = << >> /\ cached = None),
         ~quitting' => ~quitting,
         ~darwin /\ ~quitting' =>
           \A x \in Engines : hs[x] = "resolved" /\ x = child => x = child'
  PROVE  NewsInv'
<1>0. inbox \in Seq(Message) /\ cached \in Engines \cup {None}
  BY DEF IInv, RendererOK, Message
<1>1. \A i \in DOMAIN inbox : inbox[i].engine \in Engines \cup {None}
  BY <1>0, QueueEngines
<1>2. HeldOK'
  BY <1>0, <1>1 DEF NewsInv, HeldOK
<1>3. ASSUME ~darwin, ~quitting' PROVE BehindOK'
  <2>1. \A x \in Engines : hs[x] = "resolved" /\ x # child' => x # child
    BY <1>3
  <2>2. cached' \notin {None, child'} => \E j \in DOMAIN inbox' : inbox'[j] = Exited
    BY <1>0, <1>3, <2>1 DEF NewsInv, BehindOK, HeldOK
  <2>3. ASSUME NEW i \in DOMAIN inbox, inbox[i].engine \notin {None, child'}
        PROVE  \E j \in DOMAIN inbox : j > i /\ inbox[j] = Exited
    <3>1. inbox[i].engine \notin {None, child}
      BY <1>1, <2>1, <2>3 DEF NewsInv, HeldOK
    <3> QED
      BY <1>3, <3>1 DEF NewsInv, BehindOK
  <2> QED
    BY <2>2, <2>3 DEF BehindOK
<1> QED
  BY <1>2, <1>3 DEF NewsInv

\* A renderer that is gone, or not yet there, holds nothing.
LEMMA EmptyKeepsNews == ASSUME inbox' = << >>, cached' = None PROVE NewsInv'
  BY DEF NewsInv, HeldOK, BehindOK

\* A message delivered is the head of the queue.
LEMMA DeliverKeepsNews ==
  ASSUME IInv, NewsInv, Deliver
  PROVE  NewsInv'
<1> DEFINE n == Len(inbox)
           m == Head(inbox)
<1>1. /\ inbox \in Seq(Message) /\ inbox # << >> /\ inbox' = Tail(inbox)
      /\ UNCHANGED <<darwin, quitting, window, child, hs>>
  BY DEF Deliver, IInv, RendererOK, Message, appVars, runnerVars, listenVars
<1>2. /\ n \in Nat \ {0} /\ DOMAIN inbox = 1 .. n /\ DOMAIN inbox' = 1 .. (n - 1)
      /\ \A i \in 1 .. (n - 1) : inbox'[i] = inbox[i + 1]
      /\ m = inbox[1] /\ m \in Message
  BY <1>1
<1>4. Exited.engine = None
  BY DEF Exited
<1>3. cached' = IF m.engine # None THEN m.engine ELSE IF m = Exited THEN None ELSE cached
  <2>1. CASE m.engine # None
    BY <1>4, <2>1 DEF Deliver
  <2>2. CASE m = Exited
    BY <1>4, <2>2 DEF Deliver
  <2>3. CASE m.engine = None /\ m # Exited
    BY <2>3 DEF Deliver
  <2> QED
    BY <1>4, <2>1, <2>2, <2>3
<1> HIDE DEF n, m
<1>5. window
  BY <1>1 DEF NewsInv
<1>6. HeldOK'
  <2>1. cached' # None => hs[cached'] = "resolved"
    BY <1>2, <1>3 DEF NewsInv, HeldOK
  <2>2. \A i \in 1 .. (n - 1) : inbox[i + 1].engine # None => hs[inbox[i + 1].engine] = "resolved"
    BY <1>2 DEF NewsInv, HeldOK
  <2> QED
    BY <1>1, <1>2, <2>1, <2>2 DEF HeldOK
<1>7. ASSUME ~darwin, ~quitting PROVE BehindOK'
  <2>1. ASSUME NEW j \in 1 .. n, j > 1, inbox[j] = Exited
        PROVE  j - 1 \in 1 .. (n - 1) /\ inbox'[j - 1] = Exited
    BY <1>2, <2>1
  <2>2. ASSUME cached' \notin {None, child} PROVE \E j \in 1 .. (n - 1) : inbox'[j] = Exited
    <3>1. PICK j \in 1 .. n : j > 1 /\ inbox[j] = Exited
      <4>1. CASE m.engine # None
        BY <1>2, <1>3, <1>7, <2>2, <4>1 DEF NewsInv, BehindOK
      <4>2. CASE m.engine = None
        <5>1. cached \notin {None, child} /\ m # Exited
          BY <1>3, <2>2, <4>2
        <5>2. PICK j \in 1 .. n : inbox[j] = Exited
          BY <1>2, <1>7, <5>1 DEF NewsInv, BehindOK
        <5> QED
          BY <1>2, <5>1, <5>2
      <4> QED
        BY <4>1, <4>2
    <3> QED
      BY <2>1, <3>1
  <2>3. ASSUME NEW i \in 1 .. (n - 1), inbox'[i].engine \notin {None, child}
        PROVE  \E j \in 1 .. (n - 1) : j > i /\ inbox'[j] = Exited
    <3>1. i + 1 \in 1 .. n /\ inbox[i + 1].engine \notin {None, child}
      BY <1>2, <2>3
    <3>2. PICK j \in 1 .. n : j > i + 1 /\ inbox[j] = Exited
      BY <1>2, <1>7, <3>1 DEF NewsInv, BehindOK
    <3>3. j - 1 \in 1 .. (n - 1) /\ inbox'[j - 1] = Exited /\ j - 1 > i
      BY <1>2, <2>1, <3>2
    <3> QED
      BY <3>3
  <2> QED
    BY <1>1, <1>2, <2>2, <2>3 DEF BehindOK
<1> QED
  BY <1>1, <1>5, <1>6, <1>7 DEF NewsInv

\* A promise settled: the child's, while it is the one awaited.
LEMMA SettleKeepsNews ==
  ASSUME IInv, NewsInv, NEW e \in Engines, NEW outcome \in {"resolved", "rejected"},
         hs[e] = "pending", Settle(e, outcome),
         UNCHANGED <<darwin, quitting, window, awaits, cached>>,
         outcome = "resolved" => UNCHANGED child,
         child' = child \/ child = e
  PROVE  NewsInv'
<1> DEFINE cs == {c \in Calls : call[c] = "waiting" /\ awaits[c] = e}
           m  == Answer(cs, IF outcome = "resolved" THEN e ELSE None)
<1>1. /\ hs'[e] = outcome
      /\ \A x \in Engines : x # e => hs'[x] = hs[x]
  BY SettleType DEF IInv
<1>2. inbox' = IF cs = {} THEN inbox ELSE Append(inbox, m)
  BY DEF Settle
<1>3. m \in Message /\ (m.engine # None => m.engine = e /\ outcome = "resolved")
  BY DEF Answer, Message
<1>4. \A x \in Engines : hs[x] = "resolved" => hs'[x] = "resolved" /\ x # e
  BY <1>1
<1>5. cs # {} => window
  BY DEF IInv, WindowOK
<1>6. window /\ ~darwin /\ ~quitting => child = e
  BY DEF IInv, WindowOK, TurnOK, PromiseIsLive, None, Engines
<1>7. CASE cs = {}
  <2>1. UNCHANGED inbox
    BY <1>2, <1>7
  <2> HIDE DEF cs, m
  <2> QED
    BY <1>4, <2>1, QuietKeepsNews DEF NewsInv
<1>8. CASE cs # {}
  <2>1. inbox' = Append(inbox, m) /\ window /\ window'
    BY <1>2, <1>5, <1>8
  <2> HIDE DEF cs, m
  <2> QED
    BY <1>1, <1>3, <1>4, <1>6, <2>1, PostKeepsNews
<1> QED
  BY <1>7, <1>8

\* A call that reaches main is answered with the child's handshake, waits for
\* it, or finds no child that was announced.
LEMMA StartKeepsNews ==
  ASSUME IInv, NewsInv, NEW c \in Calls, StartEngine(c)
  PROVE  NewsInv'
<1>1. window /\ main
  BY DEF StartEngine, IInv, WindowOK
<1>2. UNCHANGED <<darwin, main, quitting, window, cached>>
  BY DEF StartEngine, appVars
<1>3. CASE promise # None /\ hs[promise] = "resolved"
  <2> DEFINE m == Answer({c}, promise)
  <2>1. inbox' = Append(inbox, m) /\ UNCHANGED <<child, hs>>
    BY <1>3 DEF StartEngine, Replied, runnerVars
  <2>2. m \in Message /\ m.engine = promise /\ promise = child
    BY <1>3 DEF Answer, Message, IInv, EnginesOK, PromiseIsLive
  <2> HIDE DEF m
  <2> QED
    BY <1>1, <1>2, <1>3, <2>1, <2>2, PostKeepsNews
<1>4. CASE promise # None /\ hs[promise] # "resolved"
  <2>1. UNCHANGED <<inbox, child, hs>>
    BY <1>4 DEF StartEngine, Waits, runnerVars
  <2> QED
    BY <1>2, <2>1, QuietKeepsNews
<1>5. CASE promise = None
  <2>1. Spawn /\ UNCHANGED inbox
    BY <1>5 DEF StartEngine, Waits
  <2>2. \A x \in Engines : hs[x] = "resolved" => hs'[x] = "resolved"
    BY <2>1, SpawnType, SpawnStep DEF IInv, FreshOK, EnginesOK
  <2>3. ~darwin /\ ~quitting => child = None \/ hs[child] = "rejected"
    BY <1>1, <1>5 DEF IInv, TurnOK
  <2>4. None \notin Engines
    BY DEF None, Engines
  <2> QED
    BY <1>1, <1>2, <2>1, <2>2, <2>3, <2>4, QuietKeepsNews
<1> QED
  BY <1>3, <1>4, <1>5

\* A listener reports an engine.
LEMMA ListenerKeepsNews ==
  ASSUME IInv, NewsInv, NEW e \in Engines, Listener(e)
  PROVE  NewsInv'
<1>1. UNCHANGED <<darwin, quitting, window, awaits, cached>>
  BY DEF Listener, ReadLine, SpawnError, Timeout, ExitEvent, appVars
<1>2. CASE hs[e] = "pending"
  <2>1. PICK outcome \in {"resolved", "rejected"} :
          Settle(e, outcome) /\ (outcome = "resolved" => UNCHANGED child)
    BY <1>2 DEF Listener, ReadLine, SpawnError, Timeout, ExitEvent
  <2>2. child' = child \/ child = e
    BY DEF Listener, ReadLine, SpawnError, Timeout, ExitEvent
  <2> QED
    BY <1>1, <1>2, <2>1, <2>2, SettleKeepsNews
<1>3. CASE hs[e] # "pending" /\ UNCHANGED <<child, inbox>>
  <2>1. UNCHANGED hs
    BY <1>3 DEF Listener, ReadLine, SpawnError, Timeout, ExitEvent
  <2> QED
    BY <1>1, <1>3, <2>1, QuietKeepsNews
<1>4. CASE hs[e] # "pending" /\ ~UNCHANGED <<child, inbox>>
  <2>1. ExitEvent(e) /\ child = e
    BY <1>4 DEF Listener, ReadLine, SpawnError, Timeout, ExitEvent
  <2>2. inbox' = (IF window THEN Append(inbox, Exited) ELSE inbox) /\ UNCHANGED hs
    BY <1>4, <2>1 DEF ExitEvent
  <2>3. Exited \in Message /\ Exited.engine = None
    BY DEF Exited, Message
  <2>4. CASE window
    <3>1. inbox' = Append(inbox, Exited)
      BY <2>2, <2>4
    <3> QED
      BY <1>1, <2>2, <2>3, <2>4, <3>1, PostKeepsNews
  <2>5. CASE ~window
    BY <1>1, <2>2, <2>5, EmptyKeepsNews DEF NewsInv
  <2> QED
    BY <2>4, <2>5
<1> QED
  BY <1>2, <1>3, <1>4

\* Every step keeps it.
LEMMA NewsStep == IInv /\ NewsInv /\ [Next]_vars => NewsInv'
<1> SUFFICES ASSUME IInv, NewsInv, [Next]_vars PROVE NewsInv'
  OBVIOUS
<1>1. ASSUME Launch \/ CloseWindow \/ Reload \/ MainEnds PROVE NewsInv'
  <2>1. inbox' = << >> /\ cached' = None
    BY <1>1 DEF Launch, CloseWindow, Reload, MainEnds, RendererGone, rendererVars, NewsInv, IInv, WindowOK
  <2> QED
    BY <2>1, EmptyKeepsNews
<1>2. ASSUME OpenWindow \/ Quit \/ (\E c \in Calls : Ask(c)) \/ (\E e \in Engines : EngineStep(e))
             \/ UNCHANGED vars
      PROVE  NewsInv'
  <2>1. UNCHANGED <<darwin, cached, inbox, hs>> /\ (child' = child \/ quitting')
        /\ (quitting' = quitting \/ quitting') /\ (window' = window \/ window')
    BY <1>2 DEF OpenWindow, Quit, Ask, EngineStep, WritePid, Announce, Ends, Dies, Untouched,
       appVars, runnerVars, listenVars, rendererVars, vars
  <2> QED
    BY <2>1, QuietKeepsNews
<1>3. ASSUME NEW c \in Calls, StartEngine(c) PROVE NewsInv'
  BY <1>3, StartKeepsNews
<1>4. ASSUME Deliver PROVE NewsInv'
  BY <1>4, DeliverKeepsNews
<1>5. ASSUME NEW e \in Engines, Listener(e) PROVE NewsInv'
  BY <1>5, ListenerKeepsNews
<1> QED
  BY <1>1, <1>2, <1>3, <1>4, <1>5 DEF Next, AppStep

THEOREM NewsInductive == Spec => []NewsInv
<1>1. Init => NewsInv
  BY DEF Init, NewsInv, HeldOK, BehindOK
<1> QED
  BY <1>1, NewsStep, Inductive, PTL DEF Spec

\* Away from macOS, until the app quits, a port the renderer holds of an engine
\* that is dead is on its way out: main is yet to handle the exit of its child,
\* or engine:exited, which makes the renderer forget the port, is in its queue;
\* and a queued reply that would bring such a port back has one behind it.
THEOREM StaleIsTold ==
  Spec => [](~darwin /\ ~quitting =>
    /\ \A e \in Engines : cached = e /\ proc[e] = "dead" =>
         \/ child = e /\ Heard(e) /\ ~mourned[e]
         \/ \E i \in DOMAIN inbox : inbox[i] = Exited
    /\ \A i \in DOMAIN inbox : inbox[i].engine \notin {None, child} =>
         \E j \in DOMAIN inbox : j > i /\ inbox[j] = Exited)
<1>1. ASSUME IInv, NewsInv, ~darwin, ~quitting, NEW e \in Engines, cached = e, child = e
      PROVE  Heard(e) /\ ~mourned[e]
  <2>1. e # None /\ hs[e] = "resolved" /\ window
    BY <1>1 DEF NewsInv, HeldOK, None, Engines
  <2>2. promise = e
    BY <1>1, <2>1 DEF IInv, WindowOK, TurnOK, PromiseIsLive
  <2> QED
    BY <1>1, <2>1, <2>2 DEF IInv, PromiseIsLive, Heard
<1>2. ASSUME IInv, NewsInv, ~darwin, ~quitting, NEW e \in Engines, cached = e, child # e
      PROVE  \E i \in DOMAIN inbox : inbox[i] = Exited
  BY <1>2 DEF NewsInv, BehindOK, None, Engines
<1>3. IInv /\ NewsInv => (~darwin /\ ~quitting =>
    /\ \A e \in Engines : cached = e /\ proc[e] = "dead" =>
         \/ child = e /\ Heard(e) /\ ~mourned[e]
         \/ \E i \in DOMAIN inbox : inbox[i] = Exited
    /\ \A i \in DOMAIN inbox : inbox[i].engine \notin {None, child} =>
         \E j \in DOMAIN inbox : j > i /\ inbox[j] = Exited)
  BY <1>1, <1>2 DEF NewsInv, BehindOK
<1> QED
  BY <1>3, Inductive, NewsInductive, PTL
=============================================================================
