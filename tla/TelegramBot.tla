------------------------------ MODULE TelegramBot ------------------------------
(***************************************************************************)
(* The Telegram bot of engine/telegram_bot.py: start() and stop() replace  *)
(* the polling task, the task drains Telegram's queue into handlers that   *)
(* run on their own, and a handler runs a debate and adds its cost to the  *)
(* chat's tally of the day, kept in memory and in telegram_spend.json.     *)
(* Money is spent call by call while the debate runs, and tallied at its   *)
(* end only.                                                               *)
(*                                                                         *)
(* The engine is one event loop: a step is what runs between two awaits.   *)
(* All chats here are on the allowlist and all messages ask for a debate;  *)
(* commands, pairing and reply modes are left out.  The global budget the  *)
(* debate also reserves is module CostGuard's.                             *)
(*                                                                         *)
(* Calls of the two endpoints may overlap.  They are numbered in the order *)
(* in which they begin.                                                    *)
(*                                                                         *)
(* A definition under "Mutant" is a wrong variant of the one after it.     *)
(***************************************************************************)
EXTENDS Integers, Sequences, FiniteSets

CONSTANTS
  Chats,
  Cap,        \* daily_cap_usd
  MaxCost,    \* the most a debate costs
  Faults,     \* which of "crash", "disk" happen
  MaxCalls,   \* bound: calls of /telegram/start and /telegram/stop
  MaxPosted,  \* bound: messages sent to the bot
  MaxEvents,  \* bound: calls, messages and midnights together
  MaxCopies,  \* bound: times a message is delivered
  MaxDay      \* bound: the last day

ASSUME FaultsAssumption == Faults \subseteq {"crash", "disk"}
ASSUME MoneyAssumption  == Cap \in Nat /\ MaxCost \in Nat
ASSUME BoundAssumption  ==
  /\ MaxCalls \in Nat /\ MaxPosted \in Nat /\ MaxEvents \in Nat
  /\ MaxCopies \in Nat /\ MaxDay \in Nat

Calls    == 1 .. MaxCalls
NoCall   == 0
Updates  == 1 .. MaxPosted       \* update_id
Handlers == Updates \X (1 .. MaxCopies)

VARIABLES
  kind,       \* what each call asks for
  call,       \* where each call is
  joins,      \* the polling task whose end stop() awaits in a call
  task,       \* self._task
  loop,       \* the polling task each call created
  raced,      \* history: the starts that ended while another call was served
  up,         \* self._client and self._config are set
  offset,     \* self._status.last_update_id, 0 for None
  confirmed,  \* at Telegram: the updates up to here are not delivered again
  posted,     \* at Telegram: the chat of each message, in order of update_id
  handler,    \* where each handler is
  busy,       \* self._busy
  spend,      \* self._spend
  disk,       \* telegram_spend.json
  day,        \* the UTC date
  bill,       \* what each debate has cost, from its first provider call on
  today,      \* history: the part of bill spent today
  paid,       \* history: what the chat's debates cost today, tallied or not
  escaped,    \* history: the part of paid whose debate ended untallied
  unsaved,    \* history: today a write of telegram_spend.json failed
  cutOff      \* history: stop() ended under a debate

serviceVars == <<kind, call, joins, task, loop, raced, up>>
queueVars   == <<offset, confirmed, posted>>
tallyVars   == <<spend, disk, day, unsaved>>
costVars    == <<bill, today, paid, escaped>>
moneyVars   == <<tallyVars, costVars>>
vars        == <<kind, call, joins, task, loop, raced, up, offset, confirmed, posted,
                 handler, busy, cutOff, spend, disk, day, unsaved, bill, today,
                 paid, escaped>>

Tally == [Chats -> Nat]
Zero  == [c \in Chats |-> 0]

Debating == {"fetching", "debating", "answering"}

TypeOK ==
  /\ kind \in [Calls -> {"none", "start", "stop"}]
  /\ call \in [Calls -> {"todo", "joining", "closing", "done"}]
  /\ joins \in [Calls -> Calls \cup {NoCall}]
  /\ task \in Calls \cup {NoCall}
  /\ loop \in [Calls -> {"none", "new", "polling", "cancelled", "dead"}]
  /\ raced \subseteq Calls
  /\ up \in BOOLEAN
  /\ offset \in 0 .. MaxPosted
  /\ confirmed \in 0 .. MaxPosted
  /\ posted \in Seq(Chats) /\ Len(posted) <= MaxPosted
  /\ handler \in [Handlers -> {"none", "queued", "done"} \cup Debating]
  /\ busy \in [Chats -> BOOLEAN]
  /\ spend \in Tally
  /\ disk \in [date : 0 .. MaxDay, spend : Tally]
  /\ day \in 0 .. MaxDay
  /\ bill \in [Handlers -> 0 .. MaxCost]
  /\ today \in [Handlers -> 0 .. MaxCost]
  /\ paid \in Tally
  /\ escaped \in Tally
  /\ unsaved \in BOOLEAN
  /\ cutOff \in BOOLEAN

ChatOf(h) == posted[h[1]]

Init ==
  /\ kind = [c \in Calls |-> "none"]
  /\ call = [c \in Calls |-> "todo"]
  /\ joins = [c \in Calls |-> NoCall]
  /\ task = NoCall
  /\ loop = [c \in Calls |-> "none"]
  /\ raced = {}
  /\ up = FALSE
  /\ offset = 0 /\ confirmed = 0 /\ posted = <<>>
  /\ handler = [h \in Handlers |-> "none"]
  /\ busy = [c \in Chats |-> FALSE]
  /\ spend = Zero
  /\ disk = [date |-> 0, spend |-> Zero]
  /\ day = 0 /\ unsaved = FALSE
  /\ bill = [h \in Handlers |-> 0] /\ today = bill
  /\ paid = Zero /\ escaped = Zero
  /\ cutOff = FALSE

-------------------------------------------------------------------------------
(***************************************************************************)
(* start() and stop().  start() begins with stop().                        *)
(***************************************************************************)
\* _load_spend(): a file of another day counts for nothing.
Loaded == IF disk.date = day THEN disk.spend ELSE Zero

InService(c) == call[c] \in {"joining", "closing"}

\* What stop() does after its last await, and start() after that.  left is the
\* polling task a stop() leaves in self._task.
Finish(c, asked, left) ==
  /\ call' = [call EXCEPT ![c] = "done"]
  /\ offset' = 0
  /\ busy' = [ch \in Chats |-> FALSE]
  /\ cutOff' = (cutOff \/ \E h \in Handlers : handler[h] \in Debating)
  /\ \/ /\ asked = "start"
        /\ up' = TRUE
        /\ spend' = Loaded
        /\ task' = c
        /\ loop' = [loop EXCEPT ![c] = "new"]
        /\ raced' = IF \E d \in Calls \ {c} : InService(d) THEN raced \cup {c} ELSE raced
     \/ /\ asked = "stop"
        /\ up' = FALSE
        /\ task' = left
        /\ UNCHANGED <<spend, loop, raced>>

Rest == UNCHANGED <<confirmed, posted, handler, disk, day, unsaved, costVars>>

Events == Len(posted) + Cardinality({c \in Calls : call[c] # "todo"}) + day

Arrives(c, asked) ==
  /\ Events < MaxEvents
  /\ call[c] = "todo"
  /\ \A d \in Calls : d < c => call[d] # "todo"
  /\ kind' = [kind EXCEPT ![c] = asked]

\* Mutant: the polling task is not cancelled.
BeginUncancelled(c, asked) ==
  /\ Arrives(c, asked)
  /\ \/ /\ up
        /\ call' = [call EXCEPT ![c] = "closing"]
        /\ UNCHANGED <<task, loop, raced, up, offset, busy, spend, cutOff>>
     \/ ~up /\ Finish(c, asked, task)
  /\ UNCHANGED joins
  /\ Rest

\* `if self._task is not None: self._task.cancel(); await self._task`
Begin(c, asked) ==
  /\ Arrives(c, asked)
  /\ \/ /\ task # NoCall
        /\ call' = [call EXCEPT ![c] = "joining"]
        /\ joins' = [joins EXCEPT ![c] = task]
        /\ loop' = [loop EXCEPT ![task] = IF @ = "dead" THEN @ ELSE "cancelled"]
        /\ UNCHANGED <<task, raced, up, offset, busy, spend, cutOff>>
     \/ /\ task = NoCall /\ up
        /\ call' = [call EXCEPT ![c] = "closing"]
        /\ UNCHANGED <<joins, task, loop, raced, up, offset, busy, spend, cutOff>>
     \/ /\ task = NoCall /\ ~up
        /\ Finish(c, asked, NoCall)
        /\ UNCHANGED joins
  /\ Rest

\* The awaited task is over: `self._task = None`, even if another call has put
\* its own task there meanwhile; then the client is closed.
Joined(c) ==
  /\ call[c] = "joining"
  /\ loop[joins[c]] = "dead"
  /\ joins' = [joins EXCEPT ![c] = NoCall]
  /\ \/ /\ up
        /\ call' = [call EXCEPT ![c] = "closing"]
        /\ task' = NoCall
        /\ UNCHANGED <<loop, raced, up, offset, busy, spend, cutOff>>
     \/ ~up /\ Finish(c, kind[c], NoCall)
  /\ UNCHANGED kind
  /\ Rest

\* `await self._client.aclose()` returns.
Closed(c) ==
  /\ call[c] = "closing"
  /\ Finish(c, kind[c], task)
  /\ UNCHANGED <<kind, joins>>
  /\ Rest

-------------------------------------------------------------------------------
(***************************************************************************)
(* _poll_loop().                                                           *)
(***************************************************************************)
\* The asserts before the try: a task that finds the bot stopped fails.
LoopBegins(c) ==
  /\ loop[c] = "new"
  /\ loop' = [loop EXCEPT ![c] = IF up THEN "polling" ELSE "dead"]
  /\ UNCHANGED <<kind, call, joins, task, raced, up, queueVars, handler, busy, cutOff, moneyVars>>

\* CancelledError leaves the loop.
LoopEnds(c) ==
  /\ loop[c] = "cancelled"
  /\ loop' = [loop EXCEPT ![c] = "dead"]
  /\ UNCHANGED <<kind, call, joins, task, raced, up, queueVars, handler, busy, cutOff, moneyVars>>

Copies(u) == Cardinality({n \in 1 .. MaxCopies : handler[<<u, n>>] # "none"})

\* The next handler task of its update.
NextTask(h) == handler[h] = "none" /\ h[2] = Copies(h[1]) + 1

\* Mutant: getUpdates always asks from the first unconfirmed update.
NewFromConfirmed == {u \in Updates : confirmed < u /\ u <= Len(posted)}

\* What getUpdates returns for the offset the bot sends: offset + 1, or none.
Fresh == {u \in Updates : confirmed < u /\ offset < u /\ u <= Len(posted)}

\* Mutant: of several updates only the last gets a handler.
PollForLast(c) ==
  /\ loop[c] = "polling"
  /\ up
  /\ \A u \in Fresh : Copies(u) < MaxCopies
  /\ confirmed' = IF offset > confirmed THEN offset ELSE confirmed
  /\ offset' = IF Fresh = {} THEN offset ELSE Len(posted)
  /\ handler' = [h \in Handlers |->
                   IF Fresh # {} /\ h[1] = Len(posted) /\ NextTask(h)
                     THEN "queued" ELSE handler[h]]
  /\ UNCHANGED <<serviceVars, posted, busy, cutOff, moneyVars>>

\* One getUpdates: its offset confirms the updates before it; each returned
\* update gets a handler task.  After an error (the client was closed, another
\* poller's request ended this one) the loop backs off and goes on.
PollOnce(c) ==
  /\ loop[c] = "polling"
  /\ up
  /\ \A u \in Fresh : Copies(u) < MaxCopies
  /\ confirmed' = IF offset > confirmed THEN offset ELSE confirmed
  /\ offset' = IF Fresh = {} THEN offset ELSE Len(posted)
  /\ handler' = [h \in Handlers |->
                   IF h[1] \in Fresh /\ NextTask(h) THEN "queued" ELSE handler[h]]
  /\ UNCHANGED <<serviceVars, posted, busy, cutOff, moneyVars>>

\* A user writes to the bot.
Post(ch) ==
  /\ Len(posted) < MaxPosted
  /\ Events < MaxEvents
  /\ posted' = Append(posted, ch)
  /\ UNCHANGED <<serviceVars, offset, confirmed, handler, busy, cutOff, moneyVars>>

-------------------------------------------------------------------------------
(***************************************************************************)
(* _handle_message() and _run_debate().                                    *)
(***************************************************************************)
HandlerGoes(h, from, to) == handler[h] = from /\ handler' = [handler EXCEPT ![h] = to]

\* The bot was stopped: the assert fails.
HandlerFails(h) ==
  /\ HandlerGoes(h, "queued", "done")
  /\ ~up
  /\ UNCHANGED <<serviceVars, queueVars, busy, cutOff, moneyVars>>

\* "Still working on your previous request."
RefusedAsBusy(h) ==
  /\ HandlerGoes(h, "queued", "done")
  /\ up /\ busy[ChatOf(h)]
  /\ UNCHANGED <<serviceVars, queueVars, busy, cutOff, moneyVars>>

\* "Daily cap reached for this chat."
RefusedByCap(h) ==
  /\ HandlerGoes(h, "queued", "done")
  /\ up /\ ~busy[ChatOf(h)]
  /\ spend[ChatOf(h)] >= Cap
  /\ UNCHANGED <<serviceVars, queueVars, busy, cutOff, moneyVars>>

\* Mutant: the per-chat flag is not looked at.
AdmitAnyway(h) ==
  /\ HandlerGoes(h, "queued", "fetching")
  /\ up
  /\ spend[ChatOf(h)] < Cap
  /\ busy' = [busy EXCEPT ![ChatOf(h)] = TRUE]
  /\ UNCHANGED <<serviceVars, queueVars, cutOff, moneyVars>>

Admit(h) ==
  /\ HandlerGoes(h, "queued", "fetching")
  /\ up /\ ~busy[ChatOf(h)]
  /\ spend[ChatOf(h)] < Cap
  /\ busy' = [busy EXCEPT ![ChatOf(h)] = TRUE]
  /\ UNCHANGED <<serviceVars, queueVars, cutOff, moneyVars>>

\* The data is there and the global budget grants a reservation.
StartDebate(h) ==
  /\ HandlerGoes(h, "fetching", "debating")
  /\ up
  /\ UNCHANGED <<serviceVars, queueVars, busy, cutOff, moneyVars>>

\* No provider configured, or the global caps refuse: a reply and no debate.
NoDebate(h) ==
  /\ HandlerGoes(h, "fetching", "answering")
  /\ up
  /\ UNCHANGED <<serviceVars, queueVars, busy, cutOff, moneyVars>>

\* Something before the debate raises, the finally clears busy: the bot was
\* stopped and reading self._config fails, a reply meets a client that is being
\* closed, the ledger cannot be written.
FetchFails(h) ==
  /\ HandlerGoes(h, "fetching", "done")
  /\ busy' = [busy EXCEPT ![ChatOf(h)] = FALSE]
  /\ UNCHANGED <<serviceVars, queueVars, cutOff, moneyVars>>

\* The debate makes a provider call that costs money, the bot stopped or not.
CallCosts(h) ==
  /\ handler[h] = "debating"
  /\ bill[h] < MaxCost
  /\ bill' = [bill EXCEPT ![h] = @ + 1]
  /\ today' = [today EXCEPT ![h] = @ + 1]
  /\ paid' = [paid EXCEPT ![ChatOf(h)] = @ + 1]
  /\ UNCHANGED <<serviceVars, queueVars, handler, busy, cutOff, tallyVars, escaped>>

Settles(h) ==
  /\ bill' = [bill EXCEPT ![h] = 0]
  /\ today' = [today EXCEPT ![h] = 0]

\* The debate raises (also where a reply in its middle meets a closed client),
\* or ends without a decision: a reply, and nothing is recorded of what it cost.
DebateFails(h) ==
  /\ HandlerGoes(h, "debating", "answering")
  /\ escaped' = [escaped EXCEPT ![ChatOf(h)] = @ + today[h]]
  /\ Settles(h)
  /\ UNCHANGED <<serviceVars, queueVars, busy, cutOff, tallyVars, paid>>

\* Mutants: the file is dated in a time zone ahead of UTC; the tally is written
\* before the cost is added to it.
SavedLocalDate(ch, cost) == [date |-> day + 1, spend |-> [spend EXCEPT ![ch] = @ + cost]]

SavedBeforeAdding(ch, cost) == [date |-> day, spend |-> spend]

\* _save_spend(): the tally as it is now, under today's date.
Saved(ch, cost) == [date |-> day, spend |-> [spend EXCEPT ![ch] = @ + cost]]

\* The debate completes, the bot stopped or not: what it cost is added to the
\* tally in one go, and saved.
Record(h) ==
  /\ HandlerGoes(h, "debating", "answering")
  /\ spend' = [spend EXCEPT ![ChatOf(h)] = @ + bill[h]]
  /\ \/ bill[h] = 0 /\ UNCHANGED <<disk, unsaved>>
     \/ bill[h] > 0 /\ disk' = Saved(ChatOf(h), bill[h]) /\ UNCHANGED unsaved
     \/ bill[h] > 0 /\ "disk" \in Faults /\ unsaved' = TRUE /\ UNCHANGED disk
  /\ Settles(h)
  /\ UNCHANGED <<serviceVars, queueVars, busy, cutOff, day, paid, escaped>>

\* Mutant: busy is cleared on the way out of the try only.
AnsweredStillBusy(h) ==
  /\ HandlerGoes(h, "answering", "done")
  /\ UNCHANGED <<serviceVars, queueVars, busy, cutOff, moneyVars>>

\* The reply is sent (or dropped), the finally clears busy.
Answered(h) ==
  /\ HandlerGoes(h, "answering", "done")
  /\ busy' = [busy EXCEPT ![ChatOf(h)] = FALSE]
  /\ UNCHANGED <<serviceVars, queueVars, cutOff, moneyVars>>

-------------------------------------------------------------------------------
Running(ch) == {h \in Handlers : handler[h] = "debating" /\ ChatOf(h) = ch}

\* Today's dollars of the debates that run for a chat: no tally holds them yet.
Unrecorded(ch) == Cardinality(UNION {{h} \X (1 .. today[h]) : h \in Running(ch)})

\* The engine process dies and a new one starts, with the bot stopped.  What the
\* debates it killed had cost is in no tally.
Crash ==
  /\ "crash" \in Faults
  /\ call' = [c \in Calls |-> IF InService(c) THEN "done" ELSE call[c]]
  /\ joins' = [c \in Calls |-> NoCall]
  /\ task' = NoCall
  /\ loop' = [c \in Calls |-> IF loop[c] = "none" THEN "none" ELSE "dead"]
  /\ up' = FALSE
  /\ offset' = 0
  /\ handler' = [h \in Handlers |-> IF handler[h] = "none" THEN "none" ELSE "done"]
  /\ busy' = [c \in Chats |-> FALSE]
  /\ spend' = Zero
  /\ escaped' = [ch \in Chats |-> escaped[ch] + Unrecorded(ch)]
  /\ bill' = [h \in Handlers |-> 0] /\ today' = bill'
  /\ UNCHANGED <<kind, raced, confirmed, posted, disk, day, paid, unsaved, cutOff>>

Midnight ==
  /\ day < MaxDay
  /\ Events < MaxEvents
  /\ day' = day + 1
  /\ unsaved' = FALSE
  /\ today' = [h \in Handlers |-> 0]
  /\ paid' = Zero /\ escaped' = Zero
  /\ UNCHANGED <<serviceVars, queueVars, handler, busy, cutOff, spend, disk, bill>>

ServiceStep(c) ==
  (\E asked \in {"start", "stop"} : Begin(c, asked)) \/ Joined(c) \/ Closed(c)
LoopStep(c)    == LoopBegins(c) \/ LoopEnds(c) \/ PollOnce(c)

HandlerStep(h) ==
  \/ HandlerFails(h) \/ RefusedAsBusy(h) \/ RefusedByCap(h) \/ Admit(h)
  \/ StartDebate(h) \/ NoDebate(h) \/ FetchFails(h)
  \/ CallCosts(h) \/ DebateFails(h) \/ Record(h) \/ Answered(h)

Next ==
  \/ \E c \in Calls : ServiceStep(c) \/ LoopStep(c)
  \/ \E h \in Handlers : HandlerStep(h)
  \/ \E ch \in Chats : Post(ch)
  \/ Crash \/ Midnight

Spec == Init /\ [][Next]_vars

\* Tasks of the event loop go on; polls get through; debates end (providers
\* and replies have timeouts).  Users, crashes and the date owe nothing.
Fairness ==
  /\ \A c \in Calls : WF_vars(LoopStep(c)) /\ WF_vars(Joined(c) \/ Closed(c))
  /\ \A h \in Handlers : WF_vars(HandlerStep(h))

FairSpec == Spec /\ Fairness

-------------------------------------------------------------------------------
(***************************************************************************)
(* Safety.                                                                 *)
(***************************************************************************)
Polling == {c \in Calls : loop[c] \in {"new", "polling"}}

InDebate(ch) == {h \in Handlers : handler[h] \in Debating /\ ChatOf(h) = ch}

\* However the bot is stopped, started and killed, the tally a running bot
\* checks the cap against holds what the chat's debates of the day cost, but for
\* the debates still running and for those that failed or were killed midway,
\* which it never holds; unless a write of the file failed that day.
TallyCovers ==
  up /\ ~unsaved =>
    \A ch \in Chats : paid[ch] <= spend[ch] + escaped[ch] + Unrecorded(ch)

\* A polling task that stop() and start() cannot reach was made by a start() that
\* ended while another call was being served.  Nothing prevents that overlap.
PollersReachable == Polling \ {task} \subseteq raced

\* Unless the bot was stopped under a debate or a write failed, a chat's day
\* costs less than its cap and one debate more, whatever the number of messages,
\* restarts and midnights; what failed and killed debates cost escapes the cap
\* and comes on top.
DayWithinBudget ==
  ~unsaved /\ ~cutOff =>
    \A ch \in Chats : paid[ch] > 0 => paid[ch] < Cap + MaxCost + escaped[ch]

\* A message is answered once for every time the bot was started, at most.
Starts == {c \in Calls : loop[c] # "none"}

RedeliveredByRestart == \A u \in Updates : Copies(u) <= Cardinality(Starts)

(***************************************************************************)
(* Liveness.                                                               *)
(***************************************************************************)
\* No chat is locked out by "Still working on your previous request" for good.
BusyClears == \A ch \in Chats : busy[ch] ~> ~busy[ch]

\* A message is delivered to a handler unless the bot stops: it survives a
\* start(), and a crash that a later start() follows.
MessageHandled ==
  \A u \in Updates : (u <= Len(posted) /\ up) ~> (Copies(u) > 0 \/ ~up)

(***************************************************************************)
(* What comments say and the code does not do.                             *)
(***************************************************************************)
\* engine/telegram_bot.py:382 "Per-chat in-flight tracker ... Prevents stacking
\* multiple debates for the same user".
NoStacking == \A ch \in Chats : Cardinality(InDebate(ch)) <= 1
=============================================================================
