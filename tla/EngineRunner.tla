------------------------------ MODULE EngineRunner ------------------------------
(***************************************************************************)
(* Who runs the engine process and who knows how to reach it: the Electron *)
(* main process (desktop/electron/engine-runner.ts and the window handlers *)
(* of main.ts), the engine's own start and end (engine/__main__.py), and   *)
(* the renderer's cached port and token (desktop/src/lib/engine-client.ts).*)
(*                                                                         *)
(* Engines are numbered as they are spawned.  A step of main or of the     *)
(* renderer is one callback; an engine's steps are those main can tell     *)
(* apart; messages from main to the renderer arrive in order.              *)
(*                                                                         *)
(*   starting -> recorded -> serving -> ending -> dead                     *)
(*                                                                         *)
(*   recorded  the pid file was written (or could not be)                  *)
(*   serving   the handshake line was printed                              *)
(*   ending    SIGTERM was received, uvicorn drains its connections        *)
(*   unborn    spawn() failed, the `error` event is to come                *)
(*                                                                         *)
(* A definition under "Mutant" is a wrong variant of the one after it.     *)
(***************************************************************************)
EXTENDS Naturals, Sequences, FiniteSets

CONSTANTS
  MaxSpawns,   \* bound: engines spawned
  Calls,       \* calls of handshake() the renderer may have in flight
  Platforms,   \* TRUE: on macOS, closing the last window leaves the app running
  Faults       \* which of "spawn", "garbled", "unwritten", "crash", "kill" happen

ASSUME SpawnsAssumption == MaxSpawns \in Nat
ASSUME ChoiceAssumption ==
  /\ Platforms \subseteq BOOLEAN
  /\ Faults \subseteq {"spawn", "garbled", "unwritten", "crash", "kill"}

Engines == 1 .. MaxSpawns
None    == 0

VARIABLES
  darwin,     \* the platform
  main,       \* the main process runs
  quitting,   \* app.quit() was called
  window,     \* there is a window, and a renderer in it
  child,      \* `child`
  promise,    \* `handshakePromise`: the engine whose handshake it is
  spawned,    \* engines spawned so far
  proc,       \* the engine processes
  line,       \* the first chunk of each engine's stdout, while main has not read it
  hs,         \* each engine's promise, "lost" when the main that made it is gone
  mourned,    \* main has handled the exit of the engine
  told,       \* the engine was sent a signal
  file,       \* the pid in engine.pid
  unrecorded, \* history: the engine's pid was not written, or was overwritten
  call,       \* where each handshake() of the renderer is
  awaits,     \* the engine whose promise it awaits
  inbox,      \* from main to the renderer
  cached      \* cachedHandshake

appVars      == <<darwin, main, quitting, window>>
runnerVars   == <<child, promise, spawned>>
engineVars   == <<proc, line, told, file, unrecorded>>
listenVars   == <<hs, mourned>>
rendererVars == <<call, awaits, inbox, cached>>
vars == <<darwin, main, quitting, window, child, promise, spawned, proc, line, hs,
          mourned, told, file, unrecorded, call, awaits, inbox, cached>>

Exited == [calls |-> {}, engine |-> None]    \* engine:exited
Answer(cs, e) == [calls |-> cs, engine |-> e]  \* e = None: the promise was rejected

Alive == {"starting", "recorded", "serving", "ending"}

TypeOK ==
  /\ darwin \in BOOLEAN /\ main \in BOOLEAN /\ quitting \in BOOLEAN /\ window \in BOOLEAN
  /\ child \in Engines \cup {None} /\ promise \in Engines \cup {None}
  /\ spawned \in 0 .. MaxSpawns
  /\ proc \in [Engines -> {"none", "unborn", "dead"} \cup Alive]
  /\ line \in [Engines -> {"none", "good", "bad"}]
  /\ hs \in [Engines -> {"none", "pending", "resolved", "rejected", "lost"}]
  /\ mourned \in [Engines -> BOOLEAN]
  /\ told \in [Engines -> BOOLEAN]
  /\ file \in Engines \cup {None}
  /\ unrecorded \in [Engines -> BOOLEAN]
  /\ call \in [Calls -> {"idle", "sent", "waiting", "replied"}]
  /\ awaits \in [Calls -> Engines \cup {None}]
  /\ \A c \in Calls : call[c] = "waiting" => awaits[c] # None /\ hs[awaits[c]] = "pending"
  /\ inbox \in Seq([calls : SUBSET Calls, engine : Engines \cup {None}])
  /\ cached \in Engines \cup {None}

Init ==
  /\ darwin \in Platforms
  /\ main = FALSE /\ quitting = FALSE /\ window = FALSE
  /\ child = None /\ promise = None /\ spawned = 0
  /\ proc = [e \in Engines |-> "none"]
  /\ line = [e \in Engines |-> "none"]
  /\ hs = [e \in Engines |-> "none"]
  /\ mourned = [e \in Engines |-> FALSE]
  /\ told = [e \in Engines |-> FALSE]
  /\ file = None
  /\ unrecorded = [e \in Engines |-> FALSE]
  /\ call = [c \in Calls |-> "idle"]
  /\ awaits = [c \in Calls |-> None]
  /\ inbox = <<>>
  /\ cached = None

-------------------------------------------------------------------------------
(***************************************************************************)
(* startEngine() past `if (handshakePromise) return`, and stopEngine().    *)
(***************************************************************************)
\* SIGTERM: before uvicorn runs it kills, later uvicorn drains and exits.
Terminated(e) ==
  [proc EXCEPT ![e] = CASE @ = "serving" -> "ending"
                        [] @ \in {"starting", "recorded"} -> "dead"
                        [] OTHER -> @]

\* reapOrphanEngine(): the pid in the file is signalled, the file removed.
Reaped == IF file = None THEN proc ELSE Terminated(file)

Spawn ==
  LET e == spawned + 1 IN
  /\ spawned < MaxSpawns
  /\ spawned' = e
  /\ \E born \in {"starting"} \cup (IF "spawn" \in Faults THEN {"unborn"} ELSE {}) :
       proc' = [Reaped EXCEPT ![e] = born]
  /\ told' = [x \in Engines |-> told[x] \/ x = file]
  /\ file' = None
  /\ child' = e
  /\ promise' = e
  /\ hs' = [hs EXCEPT ![e] = "pending"]

StopEngine ==
  /\ child' = None
  /\ promise' = IF child = None THEN promise ELSE None
  /\ proc' = IF child = None THEN proc ELSE Terminated(child)
  /\ told' = [x \in Engines |-> told[x] \/ x = child]

-------------------------------------------------------------------------------
(***************************************************************************)
(* The application: start, windows, quit, death.                           *)
(***************************************************************************)
\* whenReady: the engine is started before the renderer asks for it.
Launch ==
  /\ ~main
  /\ main' = TRUE /\ window' = TRUE
  /\ Spawn
  /\ UNCHANGED <<darwin, quitting, line, mourned, unrecorded, rendererVars>>

RendererGone ==
  /\ call' = [c \in Calls |-> "idle"]
  /\ awaits' = [c \in Calls |-> None]
  /\ inbox' = <<>>
  /\ cached' = None

MainGone == hs' = [e \in Engines |-> IF hs[e] = "none" THEN "none" ELSE "lost"]

\* window-all-closed; app.quit() everywhere but on macOS.
CloseWindow ==
  /\ window /\ ~quitting
  /\ window' = FALSE
  /\ RendererGone
  /\ StopEngine
  /\ quitting' = ~darwin
  /\ UNCHANGED <<darwin, main, spawned, line, listenVars, file, unrecorded>>

\* activate: the dock icon is clicked.
OpenWindow ==
  /\ main /\ ~window /\ ~quitting
  /\ window' = TRUE
  /\ UNCHANGED <<darwin, main, quitting, runnerVars, engineVars, listenVars, rendererVars>>

Reload ==
  /\ window
  /\ RendererGone
  /\ UNCHANGED <<appVars, runnerVars, engineVars, listenVars>>

\* app:shutdown, app:restart, Cmd+Q: before-quit stops the engine; the window
\* is open for a while yet.
Quit ==
  /\ main /\ ~quitting
  /\ quitting' = TRUE
  /\ StopEngine
  /\ UNCHANGED <<darwin, main, window, spawned, line, listenVars, file, unrecorded,
                 rendererVars>>

\* The process ends: by quitting, with no further window-all-closed, or killed.
MainEnds ==
  /\ main
  /\ quitting \/ "kill" \in Faults
  /\ main' = FALSE /\ quitting' = FALSE /\ window' = FALSE
  /\ child' = None /\ promise' = None
  /\ MainGone
  /\ RendererGone
  /\ UNCHANGED <<darwin, spawned, engineVars, mourned>>

-------------------------------------------------------------------------------
(***************************************************************************)
(* The renderer's handshake().                                             *)
(***************************************************************************)
Ask(c) ==
  /\ window /\ cached = None
  /\ call[c] = "idle"
  /\ call' = [call EXCEPT ![c] = "sent"]
  /\ UNCHANGED <<appVars, runnerVars, engineVars, listenVars, awaits, inbox, cached>>

\* A call at startEngine(): its promise was settled with a handshake, or is
\* awaited.
Replied(c, e) ==
  /\ call' = [call EXCEPT ![c] = "replied"]
  /\ inbox' = Append(inbox, Answer({c}, e))
  /\ UNCHANGED awaits

Waits(c, e) ==
  /\ call' = [call EXCEPT ![c] = "waiting"]
  /\ awaits' = [awaits EXCEPT ![c] = e]
  /\ UNCHANGED inbox

\* Mutant: a pending promise is not shared.
StartEngineAnew(c) ==
  /\ call[c] = "sent"
  /\ IF promise # None /\ hs[promise] = "resolved"
       THEN Replied(c, promise) /\ UNCHANGED <<runnerVars, proc, told, file, hs>>
       ELSE Spawn /\ Waits(c, spawned + 1)
  /\ UNCHANGED <<appVars, line, unrecorded, mourned, cached>>

\* engine:get-handshake is startEngine().
StartEngine(c) ==
  /\ call[c] = "sent"
  /\ IF promise # None
       THEN /\ IF hs[promise] = "resolved" THEN Replied(c, promise) ELSE Waits(c, promise)
            /\ UNCHANGED <<runnerVars, proc, told, file, hs>>
       ELSE Spawn /\ Waits(c, spawned + 1)
  /\ UNCHANGED <<appVars, line, unrecorded, mourned, cached>>

\* Mutant: an exit is not heeded while a call is in flight.
DeliverUnlessAsking ==
  /\ inbox # <<>>
  /\ LET m == Head(inbox) IN
       /\ call' = [c \in Calls |-> IF c \in m.calls THEN "idle" ELSE call[c]]
       /\ awaits' = [c \in Calls |-> IF c \in m.calls THEN None ELSE awaits[c]]
       /\ cached' = CASE m.engine # None -> m.engine
                      [] m = Exited /\ (\A c \in Calls : call[c] = "idle") -> None
                      [] OTHER -> cached
  /\ inbox' = Tail(inbox)
  /\ UNCHANGED <<appVars, runnerVars, engineVars, listenVars>>

\* A reply, or engine:exited with its invalidateHandshake().
Deliver ==
  /\ inbox # <<>>
  /\ LET m == Head(inbox) IN
       /\ call' = [c \in Calls |-> IF c \in m.calls THEN "idle" ELSE call[c]]
       /\ awaits' = [c \in Calls |-> IF c \in m.calls THEN None ELSE awaits[c]]
       /\ cached' = CASE m.engine # None -> m.engine
                      [] m = Exited -> None
                      [] OTHER -> cached
  /\ inbox' = Tail(inbox)
  /\ UNCHANGED <<appVars, runnerVars, engineVars, listenVars>>

-------------------------------------------------------------------------------
(***************************************************************************)
(* The listeners startEngine() puts on a child.                            *)
(***************************************************************************)
Heard(e) == hs[e] \in {"pending", "resolved", "rejected"}

\* The promise settles: every call awaiting it is answered.
Settle(e, outcome) ==
  LET cs == {c \in Calls : call[c] = "waiting" /\ awaits[c] = e} IN
  /\ hs' = [hs EXCEPT ![e] = outcome]
  /\ call' = [c \in Calls |-> IF c \in cs THEN "replied" ELSE call[c]]
  /\ inbox' = IF cs = {} THEN inbox
              ELSE Append(inbox, Answer(cs, IF outcome = "resolved" THEN e ELSE None))

\* The first chunk; a line split over two chunks does not parse.
ReadLine(e) ==
  /\ Heard(e) /\ line[e] # "none"
  /\ line' = [line EXCEPT ![e] = "none"]
  /\ IF hs[e] # "pending" THEN UNCHANGED <<promise, hs, call, inbox>>
     ELSE IF line[e] = "good" THEN Settle(e, "resolved") /\ UNCHANGED promise
     ELSE Settle(e, "rejected") /\ promise' = None
  /\ UNCHANGED <<appVars, child, spawned, proc, told, file, unrecorded, mourned, awaits, cached>>

SpawnError(e) ==
  /\ Heard(e) /\ proc[e] = "unborn"
  /\ proc' = [proc EXCEPT ![e] = "dead"]
  /\ mourned' = [mourned EXCEPT ![e] = TRUE]
  /\ IF hs[e] = "pending"
       THEN Settle(e, "rejected") /\ promise' = None
       ELSE UNCHANGED <<promise, hs, call, inbox>>
  /\ UNCHANGED <<appVars, child, spawned, line, told, file, unrecorded, awaits, cached>>

\* Mutants: the timer spares a process that is alive; it forgets to reject.
TimeoutOfDead(e) ==
  /\ hs[e] = "pending" /\ proc[e] = "dead"
  /\ Settle(e, "rejected")
  /\ promise' = None
  /\ child' = IF child = e THEN None ELSE child
  /\ told' = [told EXCEPT ![e] = TRUE]
  /\ UNCHANGED <<appVars, spawned, proc, line, file, unrecorded, mourned, awaits, cached>>

TimeoutSilently(e) ==
  /\ hs[e] = "pending"
  /\ hs' = [hs EXCEPT ![e] = "rejected"]
  /\ promise' = None
  /\ child' = IF child = e THEN None ELSE child
  /\ proc' = [proc EXCEPT ![e] = IF @ \in Alive THEN "dead" ELSE @]
  /\ told' = [told EXCEPT ![e] = TRUE]
  /\ UNCHANGED <<appVars, spawned, line, file, unrecorded, mourned, rendererVars>>

\* 30 seconds without a handshake: SIGKILL.
Timeout(e) ==
  /\ hs[e] = "pending"
  /\ Settle(e, "rejected")
  /\ promise' = None
  /\ child' = IF child = e THEN None ELSE child
  /\ proc' = [proc EXCEPT ![e] = IF @ \in Alive THEN "dead" ELSE @]
  /\ told' = [told EXCEPT ![e] = TRUE]
  /\ UNCHANGED <<appVars, spawned, line, file, unrecorded, mourned, awaits, cached>>

\* Mutant: after a handshake, the promise is kept.
ExitKeepsPromise(e) ==
  /\ Heard(e) /\ proc[e] = "dead" /\ ~mourned[e]
  /\ mourned' = [mourned EXCEPT ![e] = TRUE]
  /\ child' = IF child = e THEN None ELSE child
  /\ IF hs[e] = "pending"
       THEN Settle(e, "rejected") /\ promise' = None
     ELSE IF child = e
       THEN inbox' = (IF window THEN Append(inbox, Exited) ELSE inbox) /\ UNCHANGED <<promise, hs, call>>
       ELSE UNCHANGED <<promise, hs, call, inbox>>
  /\ UNCHANGED <<appVars, spawned, engineVars, awaits, cached>>

\* The `exit` event.  stopEngine() has cleared `child`, so the exit it brings
\* about is no news.
ExitEvent(e) ==
  /\ Heard(e) /\ proc[e] = "dead" /\ ~mourned[e]
  /\ mourned' = [mourned EXCEPT ![e] = TRUE]
  /\ child' = IF child = e THEN None ELSE child
  /\ IF hs[e] = "pending"
       THEN Settle(e, "rejected") /\ promise' = None
     ELSE IF child = e
       THEN /\ promise' = None
            /\ inbox' = IF window THEN Append(inbox, Exited) ELSE inbox
            /\ UNCHANGED <<hs, call>>
       ELSE UNCHANGED <<promise, hs, call, inbox>>
  /\ UNCHANGED <<appVars, spawned, engineVars, awaits, cached>>

-------------------------------------------------------------------------------
(***************************************************************************)
(* The engine process.                                                     *)
(***************************************************************************)
Untouched == UNCHANGED <<appVars, runnerVars, listenVars, rendererVars>>

\* _write_pidfile(), best effort; it replaces what is there.
WritePid(e) ==
  /\ proc[e] = "starting"
  /\ proc' = [proc EXCEPT ![e] = "recorded"]
  /\ \/ /\ file' = e
        /\ unrecorded' = [x \in Engines |-> unrecorded[x] \/ x = file]
     \/ /\ "unwritten" \in Faults
        /\ unrecorded' = [unrecorded EXCEPT ![e] = TRUE]
        /\ UNCHANGED file
  /\ UNCHANGED <<line, told>>
  /\ Untouched

\* _remove_pidfile() at exit.
OwnRemoved(e) == IF file = e THEN None ELSE file

\* The handshake line; with nobody to read it the print fails, and the engine.
Announce(e) ==
  /\ proc[e] = "recorded"
  /\ IF Heard(e)
       THEN /\ proc' = [proc EXCEPT ![e] = "serving"]
            /\ \E text \in {"good"} \cup (IF "garbled" \in Faults THEN {"bad"} ELSE {}) :
                 line' = [line EXCEPT ![e] = text]
            /\ UNCHANGED file
       ELSE /\ proc' = [proc EXCEPT ![e] = "dead"]
            /\ file' = OwnRemoved(e)
            /\ UNCHANGED line
  /\ UNCHANGED <<told, unrecorded>>
  /\ Untouched

\* Mutant: the file is removed whatever pid it holds.
EndsRemovingAny(e) ==
  /\ proc[e] = "ending"
  /\ proc' = [proc EXCEPT ![e] = "dead"]
  /\ file' \in {file, None}
  /\ UNCHANGED <<line, told, unrecorded>>
  /\ Untouched

\* The signalled engine is down, by way of atexit or without.
Ends(e) ==
  /\ proc[e] = "ending"
  /\ proc' = [proc EXCEPT ![e] = "dead"]
  /\ file' \in {file, OwnRemoved(e)}
  /\ UNCHANGED <<line, told, unrecorded>>
  /\ Untouched

\* SIGKILL, a segfault, an exception.
Dies(e) ==
  /\ "crash" \in Faults
  /\ proc[e] \in Alive
  /\ proc' = [proc EXCEPT ![e] = "dead"]
  /\ file' \in {file, OwnRemoved(e)}
  /\ UNCHANGED <<line, told, unrecorded>>
  /\ Untouched

-------------------------------------------------------------------------------
AppStep == Launch \/ CloseWindow \/ OpenWindow \/ Reload \/ Quit \/ MainEnds

Listener(e) == ReadLine(e) \/ SpawnError(e) \/ Timeout(e) \/ ExitEvent(e)

EngineStep(e) == WritePid(e) \/ Announce(e) \/ Ends(e) \/ Dies(e)

Next ==
  \/ AppStep
  \/ \E c \in Calls : Ask(c) \/ StartEngine(c)
  \/ Deliver
  \/ \E e \in Engines : Listener(e) \/ EngineStep(e)

Spec == Init /\ [][Next]_vars

\* Callbacks run and timers fire; the engine may hang at any point, before its
\* handshake or under a SIGTERM.
Fairness ==
  /\ WF_vars(Deliver)
  /\ \A e \in Engines : WF_vars(Listener(e))

FairSpec == Spec /\ Fairness

-------------------------------------------------------------------------------
(***************************************************************************)
(* Safety.                                                                 *)
(***************************************************************************)
\* Nobody is handed the handshake of an engine whose failure or exit main has
\* been told of: what startEngine() shares is pending or was good, and its
\* engine is main's child.
PromiseIsLive ==
  promise # None =>
    /\ ~mourned[promise]
    /\ hs[promise] \in {"pending", "resolved"}
    /\ child = promise

\* The next launch finds what the last one left: an engine that serves and was
\* never told to stop is the one the pid file names, unless its pid could not
\* be written or another engine's replaced it.  An older engine that ends late
\* does not take the record away.
ServingIsRecorded ==
  \A e \in Engines : proc[e] = "serving" /\ ~told[e] /\ ~unrecorded[e] => file = e

\* startEngine() spawns a second engine only when the one it spawned before has
\* failed its handshake or is being stopped.
InTurn == main /\ spawned' # spawned => child = None \/ hs[child] = "rejected"

OneAtATime == [][~darwin /\ ~quitting => InTurn]_vars

(***************************************************************************)
(* Liveness.                                                               *)
(***************************************************************************)
\* desktop/electron/engine-runner.ts:10: a hung engine leaves no caller waiting.
CallAnswered == \A c \in Calls : \A e \in Engines : (call[c] = "waiting" /\ awaits[c] = e) ~> ~(call[c] = "waiting" /\ awaits[c] = e)

\* A renderer does not keep the port of a dead engine.
StaleDropped ==
  \A e \in Engines :
    (~darwin /\ cached = e /\ proc[e] = "dead") ~> (cached # e \/ quitting)
=============================================================================
