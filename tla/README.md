# TradingAgentsLab: a TLA+ model of the debate engine

These modules model what the application does with money, processes, files and
time: who may start a debate and what the budget ledger says while debates run,
fail and are abandoned; in which order the agents of a debate speak, and what is
kept of a run that breaks off; what the Telegram bot, the batch runner and the
sign-in do between two awaits. What the agents say (prompts, market data, prose)
is abstracted.

Paths are relative to `src/`. Modules, configurations and the index of
definitions to source lines (`PROJECT.json`, "map") are in this directory.

## The system

The desktop application is three processes and one database:

    renderer (React) --IPC--> Electron main --spawns--> engine (Python, FastAPI)
        |                        |                         |
        |                        +-- secrets, sign-in      +---- SQLite, files
        +----------- HTTP and WebSocket, token ------------+---- Telegram, webhooks
                                                           +---- LLM providers

The engine is one asyncio event loop, the renderer and main are one JavaScript
loop each. A synchronous function is atomic; another task may run at every
`await`. That is the grain of all the models here: one action is what runs
between two awaits, between two writes that a crash can separate, or between two
events a client is sent. The library under the engine (`tradingagents/`) has a
command line of its own.

### Components

| component | code | state | operations | status |
|---|---|---|---|---|
| Cost guard ledger | `engine/cost_guard.py`, session rows of `engine/storage.py` | `cost_guard_config`, `cost_reservations`, `sessions` | initialize and sweep, get_state, check, reserve, finalize_reservation, update_config, write_session, delete_session | modelled: `CostGuard` |
| Debate run protocol | `desktop/src/lib/run-analysis.ts`, `stream` in `engine/server.py` | per run: reservation id, accumulated tokens, place in the protocol | reserve, override, open, admit, reject, block, debate, abort, disconnect, close, settle | modelled: `DebateRuns` |
| Free debate | `engine/live_debate.py`, `engine/stub_debate.py`, the handler around them | agent index, transcript, attempts, events sent | one agent at a time, retry with backoff, assessment, finalize, store, dispatch | modelled: `LiveDebate`, `DebateWire` |
| Webhooks | `engine/webhooks.py`, `engine/stance.py` | none kept | parse, filter, fire all, report | modelled: `Webhooks`, posted in `LiveDebate` |
| Pro debate graph | `tradingagents/graph/*`, `engine/full_debate.py` | LangGraph state, rounds, token meter | analyst tool loops, bull/bear and risk rounds, judges; three ways to drive it | modelled: `AgentGraph`, `ProRuns` |
| Decision memory | `tradingagents/agents/utils/memory.py` | a Markdown log of pending and resolved entries | store, resolve in batch, rotate, load context | modelled: `MemoryLog`, `ProRuns` |
| Checkpoints | `tradingagents/graph/checkpointer.py`, `trading_graph.py` | one SQLite file per ticker, thread per date | save, resume, clear on success | modelled: `ProRuns` |
| Telegram bot | `engine/telegram_bot.py` | `_task`, `_client`, `_config`, `_busy`, `_spend`, `last_update_id`, `telegram_spend.json` | start, stop, poll, handle message, run debate; approve, deny, modes | partly: `TelegramBot` (no pairing, no reply modes) |
| Engine supervision | `desktop/electron/engine-runner.ts`, `main.ts`, `engine/__main__.py` | child, handshake promise, pid file | reap orphan, start, time out, exit, stop, quit | modelled: `EngineRunner` |
| Engine client | `desktop/src/lib/engine-client.ts` | cached handshake | handshake, invalidate; HTTP and event parsing | partly: the cache, in `EngineRunner` |
| OpenAI login | `desktop/electron/oauth-openai.ts` | prompt resolver, timers, refresh in flight, credentials | login, answer, cancel, refresh, disconnect | modelled: `OpenAILogin` |
| Batch runner | `desktop/src/components/BatchRunner.tsx` | queue, rows, current run, stop and mounted flags | run, stop, unmount | modelled: `BatchRunner` |
| Secrets, prefs, consent | `desktop/electron/{secrets,prefs,consent}.ts` | JSON files | read, recover, set, get, delete, list | partly: `Vault`, the secrets |
| LLM adapters | `engine/llm_providers.py`, `engine/pricing.py`, ... | none | build, call, classify errors, count usage | partly: `Providers` (no bodies, no detection) |
| Data vendors | `engine/data_providers.py`, `tradingagents/dataflows/interface.py` | none kept | fetch, headlines; the library's vendor chain | partly: `Providers`, the engine's two |
| Command line | `cli/main.py` | message buffer | run, show statuses and reports | partly: `CliView`, `ProRuns` |
| Storage, watchlist | `engine/storage.py` | init flag and lock, watchlist | initialise once, add, remove | not modelled, see below |
| Codex model list | `engine/codex_models.py` | 15-minute cache | list | not modelled |
| Agents and prompts, UI, build | ... | | | not modelled: text, rendering, packaging |

### How they interact

* The renderer **reserves** over HTTP before it opens the stream, and passes the
  `reservation_id` in the start frame. Everything the user does to the budget
  (settings, History's delete) is another HTTP call that may come at any time.
* The stream handler **admits** the run: it checks the request, reserves on its
  own if the frame carries no id, drives the debate generator and forwards every
  event. The generator **finalizes** the reservation in its `finally`; the
  handler then **stores** the session and posts the webhooks. Only sessions and
  open reservations count.
* When a client leaves, the handler returns at the failed send, and the suspended
  generator is closed by a task the event loop creates later.
* The bot starts debates too. It reserves in the same ledger and has a daily cap
  of its own per chat, kept in memory and in a file.
* The batch runner is a user of the same protocol, one ticker after the other,
  with credentials it asks main for each time.
* `propagate()`, the app and the command line drive one graph and append to one
  decision log; only `propagate()` resolves its entries and keeps checkpoints.

### What is hard here

The list, at its lines, is `PROJECT.json` "hazards". The main ones:

1. check-then-insert against other runs, and the hand-over from hold to session
   (`cost_guard.py:422`, `server.py:804`): money counted twice or not at all;
2. the 15-minute TTL against a debate that is still running
   (`cost_guard.py:110`, `:504`), and the midnight that moves the window;
3. the early returns between a reserve and its finalize (`server.py:629`, `:752`);
4. the death of the engine under open reservations (`cost_guard.py:284`);
5. a stream that may end at every send, with an agent, a webhook or the database
   failing before it (`live_debate.py:602`, `webhooks.py:405`);
6. debates steered by counters and by names in free-form state, under a step
   limit and a token cap whose raise is caught (`conditional_logic.py:55`,
   `full_debate.py:222`, `:594`);
7. three writes at the end of a run, and a run resumed days after it began
   (`trading_graph.py:460`, `:565`);
8. `stop()` and `start()` of the bot, two awaits each, against one another and
   against the handlers that keep running (`telegram_bot.py:441`, `:458`);
9. Telegram's at-least-once delivery against restarts (`telegram_bot.py:580`);
10. single-use refresh tokens with several users, timers of logins that are over
    (`oauth-openai.ts:244`, `:317`), a stop that finds its loop in any await
    (`BatchRunner.tsx:66`, `:92`).

## Modules

### `CostGuard` - the ledger

One variable per table: `config` (the single row), `resv` (reservations, keyed by
run), `sess` (sessions, keyed by run), and the UTC clock `now`. It has no actions
of its own except those that involve no run; it defines what each function of
`cost_guard.py` does to the tables (`Swept`, `Reserved`, `Finalized`, `Spend`,
`SessionsToday`, `ExceedsAnyCap`, `MayReserve`), and `DebateRuns` says who calls
it when. Every public function begins with `initialize()`, which sweeps, so the
sweep is inside every operator, not an action beside them. A refused reserve
rolls its transaction back but keeps the sweep.

Abstractions: money is an integer, and a sum of it is the size of a set of dollars told
apart by run and number (`Dollars`, so that the caps can be reasoned about by counting);
timestamps are ticks; a calendar is the
constant `Start[w][t]`, the first tick of the window that holds tick `t`, so the
ISO week, the month and the day may roll over at different ticks; a reservation is
keyed by the run it belongs to (`reserve()` creates a fresh id per call, and each
run calls it with success at most once).

### `DebateRuns` - the life of a run

Per run: what it asks for (`request`: auth kind, Pro or free, worst case), where
it is (`pc`, the places are drawn at the head of the module) and what its provider
calls have cost (`spent`). `engineUp` is the engine process. `RendererStep` is
`runAnalysis()`; `HandlerStep` is the `stream` handler before the generator;
`DebateStep` is the generator and the handler around it; `SystemStep` is the
process, the clock, settings and history.

`waived[w]` is a history variable: since window `w` began, something the code does
not check moved the spend or the caps (an override, a settings change, a debate
that outlived its hold, cost more than its worst case, or whose finalize the
database refused). It says exactly when the caps may be exceeded; nothing reads it.

Faults are a constant: `crash` (the engine dies), `leave` (the client disconnects,
the window closes), `db` (a best-effort write fails). So is the list of user
actions: `override`, `config`, `delete`.

### `Budget` - the abstract ledger

What the reservation table promises a caller: one hold per run, settled once with
one amount or lapsed, final then. `DebateRuns!KeepsPromise` is the refinement:
`none`, `open`, `swept`, `billed` rows are holds that are not taken, held, lapsed,
settled.

### `Webhooks`, `Providers` - what a run asks of others

Pure operators. `Webhooks`: the stances, the parse of the manager's text
(`ParseDecision`: named, legacy, unclear), a hook's configuration and filter.
`Providers`: which configuration and adapter a frame gets (`FromDict`: what does
not fit together is none, and the run is the stub's), the ways a call of each
adapter may end and which of them are retried, price, and the day whose bar a data
provider answers with (forming bars left out, stale ones refused).

### `DebateWire`, `LiveDebate` - one stream of the free engine

`DebateWire` is the abstract specification, in three variables: what was heard, what
hooks there are, who was posted. Agents in the order of their table, each once;
phases announced between them; one assessment, last, only then the receivers; a
report that names them all.

`LiveDebate` is the code: `at` says where the handler or the generator under it stands,
`attempt` counts the calls of a turn, `captured` is what was sent, `receiver` what
each hook came to. Every send is a step at which the client may be found gone; an
agent's call may fail for good or be retried; the first agent's failure ends the run,
another's is a message; the adapter may not open; the History write may fail; the
process may die. `LiveDebate!KeepsProtocol` is the refinement of `DebateWire`. `answered`
and `unmetered` are history variables: the answers the provider gave, told or not, and
those of them that came without usage, which any adapter's may.

Five agents in place of the table's twelve: two of one phase, one alone in its phase,
two of the last, which is what `phase.transition` and the manager's turn tell apart.

### `AgentGraph`, `CliView`, `MemoryLog`, `ProRuns` - the Pro debate

`AgentGraph` has one operator per node of the LangGraph: the set of states the node
may leave, edge taken (`Successors`). Kept of the state: whose messages there are
and whether the last asks for tools, which reports are written, the turns, counts
and speakers of the two debates, plan, proposal, decision, and the lessons
(`past`). `CliView` is what `cli/main.py` makes of a chunk: a status per agent.
`MemoryLog` is the log as a sequence of entries and the class's methods as
functions on it.

`ProRuns` drives them. A slot is a place where a run can be under way, `Kind[s]` the
entry point: `"lib"` resolves pending entries (`Propagate`, `ReadLog`, `ReplaceLog`:
read, then replace the whole file), begins or resumes at the job's checkpoint, steps,
and ends in three writes a crash may separate (`LogState`, `StoreDecision`,
`ClearCheckpoint`); `"app"` steps with the token meter and the events of the wire,
scores and stores; `"cli"` steps and shows. `Limit` is `recursion_limit` (100 in the
code). A checkpoint is written while the next step runs, so a crash may lose the
last one: each step leaves either the state before it or the one after it on disk.

`SharedLog` says whether another run may write the log between `ReadLog` and
`ReplaceLog`. The code does nothing to prevent it and says nothing about it; with
`TRUE` an entry appended in between is lost, so the runs have it `FALSE`, one writer at
a time, and `UnknownStays` assumes it; the other theorems about the log hold with
either.

Abstractions: a job is a ticker and a date; an outcome is known `Holding` days after
its date; a model's answer is free where an edge or the log depends on it (tools or
no tools, the decision's form and rating) and left out elsewhere.

### `Vault`, `OpenAILogin`, `BatchRunner` - the desktop's own state

`Vault` is the secrets file as a function from names to what is stored, with its four
conditions (none, good, corrupt, of a newer version) and what each operation makes
of it. `OpenAILogin`: `login[l]` is an attempt with its fallback timer, `resolver` and
`cleanup` are the two module variables every attempt shares, `inflight` the one
exchange callers of `refreshIfNeeded` share; `presented` counts how often a refresh
token was presented. The provider and the login flow of the package are the
environment. `Overlap` lets a login begin while another is under way.

`BatchRunner` composes them: one instance per visit of the page, its refs (`mounted`,
`stop`, `handle`), its loop (`at`: choosing a provider, reading, refreshing, reserving,
streaming, at the head of the table) and its rows. A stream is `open` or `closing`.
`late` is a history variable: streams opened after the loop was told to stop.

### `TelegramBot`

The polling task, the calls of start and stop, the handlers, the per-chat state,
the file and Telegram's queue. `call[c]` is where the HTTP call is: `joining` awaits
the cancelled polling task, `closing` awaits `aclose()`. `loop[c]` is the polling
task that call `c` created. A `Handler` is a delivery of an update. Calls may overlap,
as nothing in the endpoints prevents it; they are numbered as they begin.

Money: `bill[h]` is what debate `h` has cost, one unit per step `CallCosts` from its
first provider call on; the code learns it from the completion event only, and `Record`
then adds it to `spend` and the file. A debate that raises, meets a client that is being
closed, or ends without a decision (`DebateFails`) returns before that, and one the engine
dies under (`Crash`) never gets there: what it cost is lost to the tally. History variables
say so: `paid` is what the chat's debates cost today, `escaped` the part of it whose debate
ended untallied; `today`, the part of a `bill` spent today, tells both apart at midnight.
`raced`, `unsaved` and `cutOff` are history variables too.

Abstractions: every chat is on the allowlist and every message asks for a debate
(pairing, `/mode`, `/help` and the reply texts are left out); one `getUpdates`
returns all the pending updates; a poll that fails is a poll that has not happened
yet, and of two polls under way at once Telegram ends the older with a conflict, so that
both do not bring the same update; the debate of a bot has no steps but its costs and its
end, its ledger steps being those of `DebateRuns`.

### `EngineRunner`

Engines are numbered as they are spawned, so that a callback of an old engine can be
told from one of the new. `child` and `promise` are the module variables of
`engine-runner.ts` (`promise` holds the number of the engine whose handshake it is),
`hs[e]` is the promise that engine `e`'s closures settle, `proc[e]` the process, `file`
the pid file, `inbox` the ordered IPC channel to the renderer, `call` and `cached` the
renderer's `handshake()` and its cache. One action per listener (`ReadLine`,
`SpawnError`, `Timeout`, `ExitEvent`), per caller (`Launch`, `StartEngine`,
`CloseWindow`, `Quit`) and per step of the engine that main can see (`WritePid`,
`Announce`, `Ends`, `Dies`). What differs between platforms is whether closing the
last window quits (`Platforms`); on macOS it does not, and everything may be opened again
over engines that are still going down.

`unrecorded[e]` is a history variable: the pid of `e` could not be written, or another
engine that was running wrote its own over it (this takes two engines booting at once).
`told[e]`: someone sent `e` a signal.

Abstractions: `stoppingIntentionally` is not a variable, for it is true exactly when an
engine was stopped and none spawned since, and then no exit is that of `child`; a pid
is never reused; two calls that await one promise are answered by one message; one
main process at a time (no second instance of the application); the
confirmation dialogs and the dev-mode restart script are left out.

### `MC...`

The values of the constants TLC needs: a calendar with a two-tick day, a four-tick
week and a five-tick month; request mixes; cap settings; start frames and hooks; a
log with something of every kind in it; secrets files; symmetry sets.

### Mutants

Above some definitions stands a wrong variant ("Mutant"): a dropped guard, an
off-by-one, a missing finalize. Each property of each passing run fails when the
definition named in `PROJECT.json` "mutants" is replaced by its mutant.

## What is checked

| run | instance | properties |
|---|---|---|
| `runs_ledger` | 2 runs of 4 kinds, caps stacked or only a rate cap, every user action, every fault, overrun of 1, 3 ticks, TTL 1 | `TypeOK`, `HeldWhileRunning`, `NoDoubleCount`, `SpentRunReleases`, `CapRespected`, `RateRespected`, `KeepsPromise` |
| `runs_live` | 2 paid Pro runs, guard on or off, overrides, all faults, 3 ticks | `HoldReleased`, `RunEnds` |
| `debate` | 6 frames, no hooks or 3, 5 agents, 3 attempts, a client that leaves, a crash, an adapter that does not open, a failing disk | `TypeOK`, `CallsAccounted`, `KeepsProtocol` |
| `pro` | 2 analysts, 1 round each, a library, an app and a command-line slot, 2 runs, 14 steps, cap 2, 2 days, a log with history, failing nodes, crashes, leaves | `TypeOK`, `DebateShape`, `CapBackstop`, `OnePending`, `NoLookAhead`, `RunFinishes`, `WireOrder`, `ViewForward`, `PendingKept`, `CheckpointKept` |
| `bot` | 3 calls that may overlap, 1 chat, cap 1, debates that cost up to 2 and may fail at any point, 2 messages delivered up to twice each, crashes, failing writes, 2 days, 4 calls, messages and midnights in all | `TypeOK`, `TallyCovers`, `PollersReachable`, `RedeliveredByRestart`, `DayWithinBudget`, `BusyClears`, `MessageHandled` |
| `engine` | 2 engines, 2 handshake calls, macOS and not, failing spawns, garbled lines, unwritten pid files, crashes of the engine, kills of main | `TypeOK`, `PromiseIsLive`, `ServingIsRecorded`, `OneAtATime`, `CallAnswered`, `StaleDropped` |
| `desk` | 2 visits, 2 tickers, 1 login, 2 credentials, a corrupt, a newer and a keyed file, keyring or none, lost answers | `TypeOK`, `TokenPresentedOnce`, `LoginNotWedged`, `StopLeavesOne`, `BatchEnds` |

What they show:

* **`CapRespected`, `RateRespected`**: the check in `reserve()` is enough. However
  reserves, streams, settlements and midnight interleave, a window's spend (rows and
  holds) stays within its cap unless something went past the check in that window.
* **`NoDoubleCount`, `HeldWhileRunning`, `SpentRunReleases`, `KeepsPromise`**: the
  hold and the session never both count unless the database refused the finalize;
  nobody but the run itself and the TTL ends a hold; a run that spent money never
  leaves its hold open, whichever way its stream ended; a row that is settled or
  swept stays so (the late finalize of a swept row is the case).
* **`HoldReleased`, `RunEnds`**: nothing blocks the budget for longer than a TTL,
  nothing stays in the engine for good.
* **`KeepsProtocol`**: whoever fails or leaves at whatever point, what was heard is a
  beginning of a well-formed debate, nobody is posted before the assessment or
  twice. **`CallsAccounted`**: a stream that announced its debate ends with its client
  closed and its reservation settled at the price of the answers, the ones nobody was
  told of included. An answer that tells no usage is taken for 0 tokens by every adapter
  (`llm_providers.py:371`, `:757`, `:838`), so with an API key too it is billed nothing:
  the settlement misses exactly those.
* **`DebateShape`**: no debater speaks out of turn and none is skipped, the judges come
  after full rounds, no analyst sees another's messages, also in what a checkpoint
  resumes. **`RunFinishes`**: a chatty analyst ends at the step limit. **`CapBackstop`**:
  the token meter's raise is taken for a failed parse once, and the scoring call comes
  on top, but the cap is passed by less than two calls.
* **`WireOrder`, `ViewForward`**: the text shown is the speaker's own, phases and rounds
  count up by one; the command line's statuses, recomputed with every chunk, never
  go back.
* **`OnePending`, `PendingKept`, `NoLookAhead`, `CheckpointKept`**: a decision is logged
  once however often its job is run or crashes at its end, and stays until its outcome
  is known; a library run of a past date sees no lesson from after it; what was said
  before a crash is neither lost nor said again, beyond the one step in flight.
* **`TallyCovers`, `DayWithinBudget`**: of what a chat's debates cost today, the tally
  a running bot checks misses what the running ones spent and what failed and killed ones
  did, and nothing else, through restarts, crashes and midnight. The day passes the cap by
  less than one debate and those: each debate that fails or is killed costs beyond the cap,
  and nothing limits how many. A failed write voids both until midnight; a `stop()` under
  a debate voids the second (two debates at once, see `finding_stacking`).
* **`PollersReachable`**: a polling task that `self._task` does not hold, which no later
  `stop()` cancels, was made by a `start()` that ended while another call was being served.
  It exists in the run (see below). **`RedeliveredByRestart`**: a
  message is answered at most once per start of the bot; **`BusyClears`,
  `MessageHandled`**: no chat is locked out, no message of a running bot is lost.
* **`PromiseIsLive`, `OneAtATime`**: nobody is handed the handshake of an engine main
  saw die; an engine is spawned beside another only if that one failed its
  handshake (it may still be running: a garbled line does not stop it). The second is
  stated away from macOS, where it is false (see below).
* **`ServingIsRecorded`**: what a kill of main leaves behind, the next launch finds.
* **`StaleDropped`**: a renderer does not keep a dead port for good; stated away from
  macOS too. **`CallAnswered`**: no call waits for good.
* **`TokenPresentedOnce`**: two batches, a login and a disconnect share one exchange.
  **`LoginNotWedged`**: no timer of a login that is over reopens its prompt.
  **`StopLeavesOne`**: Stop, or leaving the page, finds the loop wherever it stands; at
  most the stream it was setting up is opened. **`BatchEnds`**, also behind
  somebody else's exchange.

### Bounds

* Two runs are the least that compete. The sum over several holds needs three; there
  `RateCapHolds` below is for any number. The properties relate two runs at
  most, or a sum over all.
* A TTL of one tick with three ticks: a hold is created, expires (`expires = now`,
  where it is neither counted nor swept), is swept and outlived by its run; with
  a two-tick day, on either side of a midnight. The Monday of the calendar falls
  on tick 4 and the month on tick 5, beyond these clocks: the longer windows start
  under no run there, and the proofs below are for every calendar.
* `Overrun = 1`: a debate may cost more than the worst case it reserved.
* `debate`: three attempts are `_MAX_ATTEMPTS`; a hook that asks for everything, one of
  an old install with a floor, one that does not parse.
* `pro`: 14 steps, where a debate without tools takes 12 (two steps for the analyst
  with tools, two for the one without, one for each of the eight others): one tool
  round fits, a second meets the limit in the middle of the debate. Cap 2 at one token
  per call is passed in the first debate, or later, as calls may cost nothing. Two
  runs in any two slots, or one after the other in one, are a resume, a rerun or two
  entry points at once. Two days on either side of an outcome.
* The bot: three calls are two starts that overlap and a third that should cancel what they
  left, with crashes between; two messages let one wait while the other is handled; two
  copies are one redelivery; a debate of two units fails before, between and after its
  costs. `MaxEvents` bounds calls, messages and midnights together: four leave room for two
  calls, a message and a midnight, or three calls and a message. Five, for the invariants
  alone, are 4.5 million states, without an error.
* Two engines, so that the callbacks of the old one meet the state of the new; two
  calls, so that one answer is on its way when the other is made.
* `desk`: two visits are two loops at once, the one left running and the new one; two
  tickers are a current and a next; two credentials are a login's and a refresh's.

### Fairness

`DebateRuns!Fairness`: the clock ticks; each run's handler and debate steps are
weakly fair. The event loop runs every ready task and provider calls have timeouts
(`live_debate.py` wraps each attempt), so a continuously enabled step happens. Nothing
is assumed of users, the renderer, crashes and restarts.

`ProRuns!FairSpec`: a run that is under way takes its next step (`Proceeds`); a failure
is owed only where nothing else can happen, at the step limit and at the cap. Model
calls have timeouts; nobody starts runs.

`TelegramBot!Fairness`: each polling task's and handler's steps, and the last two
steps of a call, are weakly fair: the event loop again; `getUpdates`, replies and
debates have timeouts. A user need not write, stop or start anything.

`EngineRunner!Fairness`: main's callbacks run, its timer fires, the renderer receives
what it was sent. The engine is not fair: it may hang before its handshake, or under a
SIGTERM, and that is what the timer is for.

`BatchRunner!FairSpec`: a token exchange comes back, with or without an answer, and each
loop goes on, for requests are answered and streams end. No user stops, leaves or
signs in because the model needs it.

`LiveDebate` is checked for safety; that its runs end is `RunEnds`.

## What is proved

With TLAPS, for any finite set of runs, any calendar, caps, TTL, faults and bounds
(`DebateRuns_proofs`), any number of calls, any chats, caps, prices and bounds
(`TelegramBot_proofs`), any number of engines and calls (`EngineRunner_proofs`), any
plan of analysts, rounds, limit, cap and jobs (`ProRuns_proofs`), any histories, days,
outcomes and rotation as well (`ProRunsLog_proofs`, over what `MemoryLog_proofs` says of
the log's methods), any frames, hooks, agents and attempts (`LiveDebate_proofs`), any
visits, tickers, logins and credentials (`BatchRunner_proofs`). Every safety invariant,
action property and refinement a passing run checks is the statement of one of these:

| theorem | says |
|---|---|
| `DebateRuns_proofs!TypeCorrect` | `Spec => []TypeOK` |
| `NeverCountedTwice` | `Spec => []NoDoubleCount` |
| `HoldLasts` | `Spec => []HeldWhileRunning` |
| `LedgerKeepsPromise` | `Spec => KeepsPromise`: the refinement of `Budget` |
| `RateCapHolds` | `Spec => []RateRespected` |
| `DollarCapsHold` | `Spec => []CapRespected` |
| `SpentSettles` | `Spec => []SpentRunReleases` |
| `TelegramBot_proofs!TypeCorrect` | `Spec => []TypeOK` |
| `TallyHolds` | `Spec => []TallyCovers` |
| `DayStaysInBudget` | `Spec => []DayWithinBudget` |
| `OneAnswerPerStart` | `Spec => []RedeliveredByRestart` |
| `PollersHeld` | `Spec => []PollersReachable` |
| `EngineRunner_proofs!TypeCorrect` | `Spec => []TypeOK` |
| `PromiseLive` | `Spec => []PromiseIsLive` |
| `Recorded` | `Spec => []ServingIsRecorded` |
| `Serial` | `Spec => OneAtATime` |
| `StaleIsTold` | the safety half of `StaleDropped` |
| `ProRuns_proofs!DebatesInOrder` | `Spec => []DebateShape` |
| `CapHasReach` | `Spec => []CapBackstop` |
| `WireInOrder` | `Spec => WireOrder` |
| `ProRunsLog_proofs!ProRunsTypes` | `Spec => []TypeOK` |
| `NoSecondPending` | `Spec => []OnePending`, other writers included |
| `LearnsFromThePast` | `Spec => []NoLookAhead`, other writers included |
| `UnknownStays` | with one writer at a time, `Spec => PendingKept` |
| `CheckpointStays` | `Spec /\ []OneLibrary => CheckpointKept` |
| `ShownForward` | `Spec => ViewForward` |
| `LiveDebate_proofs!TypeCorrect` | `Spec => []TypeOK` |
| `StreamKeepsProtocol` | `Spec => KeepsProtocol`: the refinement of `DebateWire` |
| `SettledAtCost` | `Spec => []CallsAccounted` |
| `BatchRunner_proofs!TypeCorrect` | `Spec => []TypeOK` |
| `SingleUse` | `Spec => []TokenPresentedOnce` |
| `StopHolds` | `Spec => []StopLeavesOne` |
| `PromptNeverWedged` | without overlap, `Spec => []LoginNotWedged` |

**The ledger.** `NoDoubleCount` is not inductive: to know that the row finalized is
the run's own and still open, one needs where the run is. `Bookkeeping` is the
strengthening: a swept row is past its expiry, a run that has not reserved has no
row, a run that is under way is neither billed nor stored, a live debate has a row.
`IInv == TypeOK /\ Bookkeeping /\ NoDoubleCount` is inductive, one lemma per group of
actions (`BookRenderer`, `BookHandler`, `BookDebate`, `BookSystem`). `HoldLasts`
follows from it, and so does the refinement: every step changes the table in one of
four ways (`LedgerStep`), and each of them is a step of `Budget` or a stutter.
`SpentSettles` adds `SpentOK`: before its debate a run has spent nothing, and a stub
run never does, so that the one way to an end with money spent is through the finalize.

**The rate cap** needs counting: `Counted` is the number of today's rows and holders;
the lemmas of that section say what the admission (at most one more, and only if
there was room), the settlement (the run moves from the holders to the rows) and
everything else (no more than before) do to it. Assumptions: `RunsAssumption` (finite)
and `StartAssumption` (windows follow one another).

**The dollar caps** are the same argument over sets of dollars. A settlement now moves a
run's dollars from the held to the billed, and they are no more than before only if the
row says what the run asked for: `RowsMatch` (a row carries its run's estimate and auth
kind). A debate that cost more than its worst case, a caller who overrides, a lapsed hold
or new caps `waive` the window, as in the property; in every other step `Spend` grows by an
admission that fitted, or not at all. `Spend` counts dollars (`Dollars`) rather than
folding amounts because facts about folds need induction over data.

**The bot's tally.** `TallyCovers` speaks of a bot that is up, but a debate that
outlives `stop()` still adds to the memory and writes it to the file that the next
`start()` loads. So the invariant is on both: the file covers the day (`FileCovers`), and
the memory does while the bot is up *or a debate is in flight* (`MemoryCovers`), but for
the dollars of running debates (`Unrecorded`) and the escaped ones. A call that costs
raises `paid` and `Unrecorded` alike; a debate that ends moves its dollars of today to the
tally or to `escaped`. `Billed` says that what is recorded is no less than what was spent
today; the lemmas on `Dollars` count those of several debates. `Answering` (a handler's
message was posted) is needed for types.

**The day's budget** follows from the tally and `Alone`: unless a stop came under a
debate, a chat in a debate is marked busy, has one handler, and was below its cap when
that one was admitted. **One answer per start** counts: a running bot asks only for
updates beyond `offset`, and those have had fewer handlers than there were starts
(`Delivered`); `Owned` says that a call that has not ended has created no task, so that
its start is a new one.

**The pollers.** `Held`: a polling task whose start had no other call beside it is the one
`self._task` holds, and no call is being served. So the next call to begin cancels it, and
a call that ends leaves at most its own.

**The engine.** That a call waits only on a pending promise needs `PromiseIsLive`, which
in turn needs that nothing has happened to an engine yet to be spawned (`FreshOK`) and
that a failed spawn prints nothing (`UnbornOK`). `RecordOK` carries `ServingIsRecorded`
back to the moment the pid is written. `TurnOK` is the heart of `Serial`: away from
macOS the one pending handshake is the shared one, so the unconditional
`handshakePromise = null` of the listeners can only clear their own; it holds because an
engine is stopped only in order to quit. `WindowOK` and `GoneOK` say that without main
there is no caller and no listener. One lemma per action.

**The port the renderer holds.** `StaleDropped` is liveness and left to TLC, but what makes
it work is an invariant, `NewsInv`: a port in the cache or in a queued reply was announced
(`HeldOK`), and it is that of main's child, or the exit is in the queue behind it
(`BehindOK`). It is kept because main never lets go of an announced child without posting
the exit in the same callback, except to quit; because replies name the child; and because
the channel keeps their order. With `PromiseIsLive` it gives `StaleIsTold`: the fairness of
the run's two callbacks is then all that dropping a dead port takes. On macOS a closed
window stops the child with no news, and there is no such invariant.

**The debates.** A graph state stands at a node, and `Stage` says for each node what
must have happened: who has reported, whose turn the count's remainder names, which
judges have spoken. `Counted` ties the counters to the turns, `BeforeRisk` and
`BeforeEnd` say what has not begun. `GraphInv` is their conjunction with the types; each
node's operator keeps it (one lemma per node), and `IInv` states it of every run *and
every checkpoint*, since a resumed run starts from one. `PlanAssumption` and
`RoundsAssumption` are needed: with no analyst or no round there is no such order.

**The cap** needs where the meter was before a step (`BelowCap`) and how far one step
with its fallback takes it (`WithinReach`).

**What an app is told.** The order of a run's events is an action property; its invariant
`Told` relates the last event to the node the graph stands at (`WireAt`): nothing but
analysts before the first debate turn, then the round the counter gives, and so on to the
judge. One lemma per stretch of the graph shows that a node's step keeps it and that its
event may follow the last one (`Follows`); a step of the other entry points tells the app
nothing.

**The log.** What `Append`, the batch of resolutions and the rotation do to a log is stated
entry by entry in `MemoryLog_proofs` (each entry of the result is one that was there, or
the new one, or a resolved form of a pending one, in the old order). `LogInv` says of the
log that it has one pending entry per job (`LogInOrder`) and that what is resolved was known
by today; of a run between its read and its replace, that the text it will write is such a
log; and of a library run *and of every checkpoint*, that the lessons in its graph state are
of outcomes known on its own date (`LibByDate`, `SavedInOrder`): a run resumed days
later goes on with the lessons it began with. Nothing there depends on the number of
writers: a replace that loses another's entry adds no second one. `UnknownStays` does, and
`PendInv` says how: one run rewrites at a time, and the text it holds has every pending
entry whose outcome is not known.

**The checkpoints.** `CheckpointStays` has a proviso, `OneLibrary`: two library runs of one
job share the thread the checkpoint is filed under, and with two slots of that kind TLC
finds the slower one setting the other's checkpoint back. `WordsKept` is the invariant: a run under way is at or past its
checkpoint, and a run that is about to clear it has its state file and its entry in the
log.

**What the command line shows.** Its statuses are set by several passes over each chunk, and
some set an agent back to work. `StatusesOf` is what they come to as a function of the last
chunk alone, and `ViewInv` says that a run shows that. `ShownForward` is then about the
graph: a step never unsays what the chunk before it held.

**The stream.** `LiveDebate_proofs!IInv` goes by stage: before the debate is announced
the reservation is held and nothing of it was sent; during it the client is open; after
it both are closed, and what was billed is the cost of what was answered.

**The refinement of the wire** needs what the position in the code says of what was sent.
`TurnInv`: whose turn it is, what was billed and whose words there are. `PhaseInv`: a phase
change was announced exactly when the agent at work is not of the last one's phase.
`SpokenInv`: those before the agent at work were heard, and where the debate stopped if it
did. `HeardInv`: data, assessment and report in their order. `PostInv`: nobody is posted
before the assessment, and then those it asks for. Each send is then one step of
`DebateWire`, each wait a stutter; `StreamKeepsProtocol` puts them together action by
action.

**The token.** `TokensKept`: a token that was presented is in the exchange under way or
was used up, and then it is not the one stored. With it, who asks and in which order
does not matter. `LateStays`: a loop that opened a stream after its stop is at that stream
or at the head of its table, where it looks. `PromptOwned`: without overlap the shared
resolver and timer belong to the one login under way.

Assumptions, each named in the module that declares the constant and evaluated by TLC in
every run of it: a finite set of runs, windows that follow one another, natural
bounds, a plan without repetition, at least one round and one attempt, phases with names,
of which the table has more than one entry (`PhasesAssumption`), a secrets file that begins
signed out (`VaultsAssumption`), values that are not mistaken for the mark of none
(`AbsentAssumption`, `DecisionsAssumption`). For the log: days are numbers
and tickers names, and a decision in a known form has a rating (`CalendarAssumption`,
`NamesAssumption`), the number of lessons and the days
an outcome takes are natural (`LessonsAssumption`), and the log a behaviour begins with has
one pending entry per job and no outcome from its future (`HistoriesAssumption`).
Two theorems say more in their own statement: `UnknownStays` (`~SharedLog`) and
`CheckpointStays` (`[]OneLibrary`).

Model-checked only: the liveness properties `HoldReleased`, `RunEnds`, `BusyClears`,
`MessageHandled`, `CallAnswered`, `StaleDropped`, `RunFinishes` and `BatchEnds` (the prover has
no reasoning about fairness for them; of `StaleDropped` the safety half is proved), and the
five properties the code violates. What the pure functions of `Webhooks`, `Providers` and
`Vault` compute is proved only as far as a theorem above rests on it.

## Where the code and its documents disagree

Runs whose property is a sentence of the documents or comments, violated by the code:

* `finding_rejected` - `server.py:626` "No reservation exists yet at this point, so there
  is nothing to release": a Pro run rejected for its configuration may hold the
  reservation its renderer made; it blocks the budget until its TTL.
* `finding_stacking` - `telegram_bot.py:382` "Prevents stacking multiple debates for the
  same user": `stop()` clears `_busy` but leaves the handlers running.
* `finding_checkpoint` - `trading_graph.py:436` says the command line's stream path uses
  `begin_checkpoint` "so `--checkpoint` actually resumes": `cli/main.py:1056` streams the
  graph compiled without a saver, and never calls it. A run that breaks off keeps nothing.
* `finding_learns` - `full_debate.py:696` "Persist to the memory log so the NEXT
  same-ticker run can reflect on this decision": the app never resolves a pending entry
  (`:560` only reads), and a pending one is no lesson.
* `finding_asof` - `docs/kb/reading-the-debate.md:27` "The engine fetches data up to and
  including this date": with Alpaca keys the window ends now (`data_providers.py:340`), and
  today's prices are filed under the past date.

Seen while modelling, with no run of their own:

* `docs/kb/cost-guard.md:84` "Two simultaneous debates cannot both squeeze under the same
  cap": a hold made before midnight counts for yesterday, its session for today, and a
  second debate is admitted in between.
* `telegram_bot.py:375` "Start/stop are idempotent": of two overlapping starts one polling
  task is orphaned and no later `stop()` reaches it (the tasks `PollersReachable` excepts).
* `telegram_bot.py:946` "Record spend before sending the reply. If the reply fails for any
  reason we still want the cap to reflect work that did happen": the replies in the middle
  of a debate (`:915`, `:921`) come before, and one that meets a closing client ends the
  debate; its cost, and that of a debate that fails otherwise or is killed, never reaches
  the chat's tally (`escaped`).
* `telegram_bot.py:771` "The cap resets at UTC midnight": only when `start()` loads the file.
* `engine-runner.ts:128` "the exit/timeout closures below act on *this* engine instance":
  they guard `child`, but clear `handshakePromise` whoever it belongs to. On macOS, a window
  closed while the engine boots and opened again gets a second engine; the first one's
  exit drops its promise, and the next call reaps the second and spawns a third.
* `full_debate.py:560` reads the log without the cutoff that `memory.py:79` offers for
  runs of a past date: an app or command-line run of a past date may learn from what came
  after it. `NoLookAhead` is stated of library runs.
* `BatchRunner.tsx:13` "Stopping the batch closes the current WS and skips the remaining
  queue": pressed while a run is being set up there is nothing to close yet, and that
  stream is opened (`StopLeavesOne` says: no
  more than that one). A stopped ticker's row ends as "done", for its stream closes with 1000.
* `oauth-openai.ts:205`, `:173`: two logins beside one another share the prompt and its
  cleanup, and the first one's timer can reopen the prompt after both are over. The row in
  Settings disables its button only while it is mounted.
* `oauth-openai.ts:325`: a disconnect during a refresh is undone by it; the new credentials
  are stored after the deletion.
* A batch whose credentials vanish between two tickers goes on with the stub, silently.
* `docs/kb/cost-guard.md:17` counts "USD spent across all debates that started today"; the
  cost of a run that was cut off goes to `finalized_cost_usd`, which no sum reads
  (`live_debate.py:729`), and `storage.py:303` says this is meant.
* `docs/kb/cost-guard.md:18` describes a "rolling 7-day window"; `_window_start` is the
  Monday of the ISO week.
* `docs/kb/cost-guard.md:132` says spend history cannot be wiped; deleting a session on the
  History page deletes its cost from every window (`storage.py:438`).
* A call that failed after the provider billed it and was retried is a cost no engine
  variable knows (`live_debate.py:146`); `CallsAccounted` speaks of answers.
* `llm_providers.py:55` "over-estimate so the logged total is a ceiling rather than a floor":
  an answer whose endpoint reports no usage counts as 0 tokens, whatever the model's price;
  no adapter estimates them. `CallsAccounted` excepts these answers and no other.
* The Codex adapter's docstring says it does not retry; `_complete_with_retry` calls it
  through the same loop as the others.

## Not modelled

* Storage initialisation and the watchlist: a flag checked again under a lock, and
  one-row statements that each are atomic and that nothing else reads.
* The Codex model list: a cache whose callers have a default.
* Telegram's pairing (approve, deny, pending codes) and reply modes; `prefs.ts` and
  `consent.ts`, small files written whole by one process.
* The environment variable that carries the data key of a Pro run (`full_debate.py:506`)
  and two writers of one decision log (`memory.py:186`): hazards the code is exposed to and
  nothing in it promises against; a property would restate that.
* The library's vendor chain and the sentiment analyst's pre-fetch: pure I/O with text as
  result. Provider request bodies, prompts, message formatting, rendering, prompts of the
  command line, packaging and the updater.

## Plan

The order the modules were written in: `CostGuard`, `DebateRuns`, `Budget`; `TelegramBot`;
`EngineRunner`; `AgentGraph`, `MemoryLog`, `CliView`, `ProRuns`; `Vault`, `OpenAILogin`,
`BatchRunner`; `Providers`, `Webhooks`, `DebateWire`, `LiveDebate`; then the proofs of each.

Open: Telegram's pairing, as a module of its own beside `TelegramBot`; `DebateRuns` and `LiveDebate`
composed, so that the reserve of one is the hold of the other (today both follow
`server.py`, and the refinement of `Budget` is the first one's).

Runs are few and broad on purpose: a module gets one run for safety, with its
refinement and its liveness where the state space allows; small modules share one.
