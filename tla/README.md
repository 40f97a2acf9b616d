# TLA+ models of tgshd's health daemon

tgshd is a home server daemon: it watches the machine (disks, temperatures,
services, memory, network), raises and resolves conditions, and tells its owner
by Telegram, SMS and email; it also answers chat commands, forwards received SMS
and acts on its own when memory runs out. This directory models the part that
has to be right when nobody is watching: how a reading becomes a PROBLEM, how a
message survives a channel that hangs, and what a restart may lose.

## The system's parts

| part | source | state | operations | interacts with |
|---|---|---|---|---|
| threshold engine | `pkg/health/engine.go` | a condition per key: open, bad time, time of last reading | Apply, Clear, ClearPrefix, Reopen, Restore, Merge, Conditions | called by the runner under its own mutex |
| notifier | `pkg/health/notify/notify.go`, `abandon.go` | retry queue, in-flight marks, SMS-sent set, resolved marks, Telegram health, offline flag | Notify, Flush, Expire, Merge, ForgetEnded, SetOffline; goroutines settle and settleFallback | tick, pushes, `/clear`; sends through the lanes; reports drops to the runner |
| undelivered list | `pkg/health/notify/channels.go` | listed PROBLEMs, a count of the rest, the hold of the message in progress | Add, Prefix, Ack, export, restore | prefix of every Telegram message |
| delivery lanes | `pkg/health/runner/deliver.go` | in flight, abandoned, sequence number, wake-up channel; the tick's stops | run, acquire, release, abandon; boundSends | every sender; tick, pushes and checker errors concurrently |
| runner | `pkg/health/runner/*.go` | the tick's cycle, pending records, loaded flag, schedules | Do (tick), Load, Checkpoint, Push, Clear | everything above, the store, the checks |
| store | `pkg/health/store/*.go` | SQLite tables; unsaved state and records of a degraded store | Load, Checkpoint, PutKV | the runner, reports |
| checker errors | `pkg/health/notify/checker.go`, `ratelimit.go` | rate marks per key and channel, what was mailed | Report, Recovered, TelegramFailing; Allow, Revert, Merge | email and the notifier; the runner, background jobs |
| memory guard | `pkg/health/memguard/*.go`, `cmd/health_memory.go` | an episode, an action under way, rings of samples, records with a version | a fast loop: observe, decide, act, deliver; a writer of records | host, notifier through the runner's Push, store |
| checks | `pkg/health/check/*` | baselines, cursors, counters, marks, fixes taken | Run, Export, Restore, TakeFixes, Retire | host probes, runner |
| modem probe, SMS inbox | `pkg/health/check/modemprobe`, `pkg/sms/inbox.go`, `cmd/health_sms.go` | the outstanding probe, last return, last bad; unprocessed rows | Run, Match, Export, Restore; the inbox worker's Do | runner's tick, the worker's job, the checkpoint, gammu's database |
| commands, telegram, sms | `pkg/command`, `pkg/telegram`, `pkg/sms` | routes, menu, polling flag, inbox | handlers, consumer Start and Stop, workers | runner, modem, bot API |
| heartbeat | `pkg/host/lockfile` | one file and its sidecar lock | WriteTick, SetPlanned | daemon, `tgshd heartbeat`, a watchdog |
| wiring | `cmd` | fx lifecycle | start and stop hooks in order | all |

What is hard in it: senders that ignore their context, so a send outlives the
tick that made it; three goroutines over one queue whose lock is released around
every send; state that is loaded late and merged with what memory has built;
a checkpoint of two components that are not read at one instant; shutdown in
the middle of a tick; bounds (queue, list, pending records) that drop things
which must not be dropped silently.

## Modules

| module | models | run |
|---|---|---|
| `Lane` | one delivery lane, its callers, their send goroutines, the tick's stop and send context; proofs in `LaneProofs` | `Lane` |
| `Engine` | the engine with its clock and the stored conditions; implements `AlertStream`, what the engine promises without time; proofs in `EngineProofs` | `Engine` |
| `Schedule` | which checks a tick runs, runs that outlive it, quiet hours, the weekly job, the maintenance lock | `Engine` |
| `Notifier` | the notifier with the runner's part: raising, dropping, saving, loading; uses what `Lane` guarantees as its send step; proofs in `NotifierProofs` | `NotifierRestart`, `NotifierPush`, `Engine` |
| `Tick` | a tick, its interruption, the checkpoint over the store's checkpointer, stop, crash and start; conditions are `Engine`'s, the notifier is one set; proofs in `TickProofs` | `Tick` |
| `Undelivered` | the list of undelivered PROBLEMs and its prefix; a set in `Notifier`; proofs in `PersistProofs` | `Tick` |
| `GuardLoop` | the memory guard: episode, loop, action goroutine, reporter goroutine; proofs in `GuardLoopProofs` | `GuardLoop` |
| `GuardRecords` | the guard's records between loop, writer, store and restart | `Runner` |
| `Culprits` | which service the guard names, against a history that forgets nothing | `Runner` |
| `CheckerErrors` | errors of the monitoring itself: rate marks, two channels, the failing-store and failing-Telegram notices | `Runner` |
| `StateStore` | the deferred open and close, checkpoints in an outage, PutKV beside them; proofs in `PersistProofs` | `Runner` |
| `Retention` | samples, their roll-up into days and the figures of the last days | `Runner` |
| `Daemon` | start hooks, stop hooks under one limit, the Telegram consumer, what is pushed and saved meanwhile | `Runner` |
| `Routes` | which handler a command runs, who may run it, what the menu shows | `Runner` |
| `Heartbeat` | the heartbeat file shared by processes under a lock | `Runner` |
| `Drives`, `SelfTest` | the disks check and `/retire`; a drive's self-test log | `Checks` |
| `Kernel` | the kernel log's reader, cursor, episodes and boots | `Checks` |
| `Temps` | sensors, their keys and what becomes of a condition whose sensor is gone | `Checks` |
| `Containers`, `Growth`, `LimitAudit` | crash loops; memory growth; containers without a limit | `Checks` |
| `CommandFix`, `Freshness`, `HttpCheck` | fixes and their limits; missing and old files; one run of the endpoint check | `Checks` |
| `ModemProbe` | the weekly modem probe, the inbox worker that hands it its reply, the probeState between them; proofs in `ModemProbeProofs` | `ModemProbe` |

`MCEngine`, `MCTick`, `MCRunner` and `MCChecks` instantiate several of them,
or one with several bounds, for one run of TLC. A variable `part` says which instance a behaviour is about; the others'
variables hold their initial or an empty value throughout, so the state space is the
sum of the instances and not their product. This is a way to
check many small instances in one run; it composes nothing. Where parts interact,
the module itself has both sides: `Notifier` has the engine's conditions and the
runner's load, `Tick` the store and the notifier, `ModemProbe` the worker and the
checkpoint, `Drives` the runner's apply and `/retire`, `Daemon` all the hooks.
A composite property is the conjunction of its parts' properties, each of which is
stated and explained in its own module, together with the module's type invariant.

Each module's variables name the field they stand for in a comment, each action
the function. A definition whose comment begins with "Fault:" (or "A plausible fault:") is a
plausible mistake in the code; it is not used by the specification, only to see
that the properties notice it. A property of several modules has one fault for each
part; `PROJECT.json` lists one of them, and the others are caught too:

| property | faults (definition → fault) |
|---|---|
| `SchedulesKept` | `Schedule`: StaysMarked → ForgetRun, WeeklyDue → WeeklyDueAgain, RestoreMaintenance → AlwaysContinue, Unjudged → NothingUnknown |
| `GuardRemembers` | `GuardRecords`: Drained → LeaveEarly, KeepLate → DropLate, Unwritten → UnwrittenBlind; `Culprits`: Depth → NoEnd |
| `ErrorsTold` | `CheckerErrors`: MergeMarks → RestoreMarks, RecoverOn → RecoverTelegram, GiveBack → KeepMarks, MarkReported → MarkCurrent |
| `StoreKeeps` | `StateStore`: Merge → Replace, Recheck → NoRecheck; `Retention`: Combine → Overwrite |
| `StopsInOrder` | `Daemon`: GiveUp → GoOn, GuardDone → GuardCancelled, NoTick → WriteAtOnce |
| `CommandsAnswer` | `Routes`: Owner → ScriptOwner; `Heartbeat`: LockFree → AnyTime, Unlock → CloseOnly |
| `DrivesJudged` | `Drives`: KeepInGap → ZeroInGap, Suspends → SuspendsFailed, DropRetired → KeepRetired, NoteOrphanForced → ForgetOrphanForced; `SelfTest`: NewerThan → NewerPlain |
| `KernelTold` | `Kernel`: NotConsumed → NeverBefore, CursorHere → KeepPosition, Gate → Ungated, StillDue → MarkDue |
| `ProblemsEnd` | `Containers`: Suspect → Forgiving, LetGo → Absent; `Temps`: Key → KeyIfReadable, TellOpen → TellGone; `Growth`: Warned → NoHold; `LimitAudit`: Applied → LatestRun |
| `FixesKept` | `CommandFix`: Cleared → LeaveThere, Prune → PruneAll, TakeStrikes → KeepStrikes |
| `VerdictsTrue` | `Freshness`: KeepMark → ClearMark, Upsert → UpsertPresent, Over → OverEarly; `HttpCheck`: Bound → TimeoutOnly, LookupFailed → ErrorOnly, Merged → AnyGood, Carries → Everywhere |

### Lane

`run`'s steps are actions of a caller (`CallRun`, `RefusePastDeadline`,
`PassCheck`, `RefuseBusy`, `Take`, `Wait`, `Wake`, `WaitRefused`, `TakeResult`,
`GiveUp`, `Abandon`); `Release` and `HandOver` are the send's goroutine, which
releases the lane before it hands its result over. `BoundSends`, `EndSends`,
`CloseStop` and `ExpireSendCtx` are the tick's deadlines. A Go `select` with
several ready cases is a disjunction. The `changed` channel is the set of
callers that hold it; closing it empties the set.

Run `Lane`: the tick and one push, four calls, two ticks, a shutdown. Four
calls let a send be abandoned, a newer one take the lane, and two more queue up.
Fairness: caller goroutines run, results are handed over, and the stop's timer
fires. There is none on `Release`: the Telegram publisher may hang for ever.

### Engine and AlertStream

Apply, Clear, Reopen, Merge are one step each (the engine's mutex). `SetClock`
sets the wall clock to any value, forward or back. A save rounds to whole
seconds (`Truncate`). `ReopenedRaisesAtOnce` relies on a threshold of whole
seconds, which the configuration's durations are; with a finer one the rounding
could take the last fraction away.

Run `Engine`: one condition, interval 2, threshold 6, a second of 2 units, clock
up to 12, four bad readings: enough for a streak to reach the threshold by capped
gaps, be dropped, saved, loaded and raised again. More keys are independent, and
the theorems cover any set of keys.

### Schedule

A tick is `BeginTick` (load, quiet reason, maintenance lock), the network check
(`StartNetwork`, `ApplyNetwork`, or `SkipNetwork`), `MakeBatch` with what is
eligible, `Launch` per free slot, `ApplyBatch`, `RunWeekly`, `Save`. A run returns in
time (`Return`), or is abandoned and stays marked running until `ReturnLate`: the
mark is cleared by the run itself, whichever tick that is in. The network condition may be cleared (`Clear`, the command's goroutine) at any point,
also between the two reads of it (`ReadOffline`, then the dependencies in `MakeBatch`);
`InternetKnownUp` excepts the runs after such a clear. In the run
`Engine`, part "runs" has the network check, one that needs the internet and one that depends on the
network, over three ticks with one process end; part "jobs" has no check but the weekly
slot, the maintenance lock (free, held, unreadable) and a clock that is set back once,
over four ticks. `HoldKept` excepts a late load that continues a stored
hold although a tick before the load found the lock free (`freeUnseen`).

### Notifier

The tick and (optionally) a push are actors with a program counter; each step
is a section under the notifier's lock or one send. `Settle`, `SettleFallback`
and `HangReturns` are the goroutines that outlive a send. A send's outcome is
chosen among success, failure, failure by the daemon's stop, refusal past the
deadline, refusal while an abandoned send hangs, and abandonment.

One step stands for several where nothing can see the difference: Load (the
tick's goroutine, before it runs anything), `/clear` with its ForgetEnded, a
condition's opening with the beginning of its Notify. `reportDropped` is a step
of its own, because the code calls it after it released the lock.

| run | actors, modes, bounds | what it asks |
|---|---|---|
| `NotifierRestart` | tick; Telegram; queue 2, three messages (or two and a hanging send), one restart with a late load | is anything lost, left open unseen, or mixed up by the renumbering |
| `NotifierPush` | tick and push; Telegram or else SMS; queue 1, three messages (or two and a hanging send), a flush, `/clear` | are drops reported and conditions reopened under concurrency; do the two fallbacks send a PROBLEM by SMS once, and its RESOLVED after it, also when a claim or a queued message has a send that ends late |
| `Engine`, part "late" | tick; Telegram or else SMS; queue 2, three messages and a hanging send, no flush | with a late result among a whole streak, does the RESOLVED follow by SMS, and as the last |
| `Engine`, part "alone" | tick; SMS; queue 2, three messages, a flush | the same for messages that go by SMS at once and are retried by SMS |

Three messages are PROBLEM, RESOLVED and the next streak's PROBLEM; one restart
gives a stored and an in-memory part of everything. Larger bounds leave TLC's
time limit (tick and push with three messages and a hanging send, queue 2, have 45 million
states; `ProblemSMSOnce` and `ResolvedFollowsBySMS` hold there too). `robbed` holds the PROBLEMs that `ProblemSMSOnce` and `ResolvedFollowsBySMS`
except, at the three steps that take a key out of the SMS-sent set for another message's
sake (below); each of them is needed at these bounds, of `ResolvedFollowsBySMS` only in the part
"late", which has the four events it takes.

### Undelivered

`TakePrefix` and `ReleasePrefix` are the two ends of a Telegram send that shows
the list; in between anything may be added or loaded. In the run `Tick` it is the part
"list": a list of two, five PROBLEMs, one restart. Fairness: the load is retried every tick, a
message with room for an item keeps being sent (the tick flushes and dispatches
for ever), and a working Telegram delivers infinitely many of those it is given.

### Tick

`RunNetwork` applies the network check's result before the others run, as
`runChecks` does; a shutdown before `RunBatch` makes the tick `Interrupt`.
`SaveInterruptedFixes`, `Save` and `StopCheckpoint` are the three callers of the
store, with the store's retention (`StoreCheckpoint`). The notifier is the set of
conditions it was told of. A pre-run snapshot is taken in every tick; the code
takes it only when some check can take fixes, and uses it only then.

Run `Tick`, part "tick": two keys, two pending records, three records, two starts. The
stop's checkpoint writes after an interrupted tick too, unless the stop's time limit cuts
it off. What it then stores of the network check's result nobody was told of (`unseen`);
`StoredIsAnnounced` excepts these conditions and says that the network's is the only one
this can happen to. `NoResultUnseen`, without the exception, is what the run `TickStop`
finds violated.

### GuardLoop

A beat of the loop is two steps: `Collect...` (a result or late records, one per
beat, chosen freely when both are there, as the `select` does) and the
judgement of one host reading (`Observe`, `NotRecovered`, `ReportOnly`,
`WouldAct`, `Act`, or `HostUnreadable`). `Succeed`, `Fail`, `FallBack`, `Kill`
and `Abandon` are the action's goroutine; `Report`, `SaveState`, `Drain` and
`DrainEnd` the reporter's. `Leave` is Run's deferred function: it waits for the
action, takes in its result, and lets the reporter drain. `Offer` keeps the race
of the drop-oldest channel: the reporter may receive between the failed send and
the receive that makes room, so that more leaves the queue than had to.

Which service is the culprit is any unprotected one here; how it is chosen is in
`Culprits`. Outcomes are reduced to their kind and the time of their decision.

Run `GuardLoop`: both modes; danger held for one second, a recovery window of
one, a repeat window of four, the clock from 2 to 7. The first action can be decided at
3 and finish at 4; recovery, a clear hold and a new danger bring the second one
to 7, within the repeat window, with an earlier run's records (of time 1) still
alive when they are merged late. A buffer of two outcomes overflows: an error, a
notice and an action's end suffice. Fairness: the loop and the reporter run; the
loop's `select` of the timer and the stop does not starve the stop; an action ends,
because `run` leaves it behind at its timeout. Deadlock is not checked, since the
guard stops for good; `StopEnds` shows that it is never stuck before.

### ModemProbe

`Prepare`, `SendOK`, `SendFails` and `Judge` are the probe's `Run`, split where it
gives up its lock; `Apply` is the runner taking the result, `Abandon` the tick's
deadline passing while the run goes on. `Poll`, `Skip`, `Consume`, `Forward`,
`ForwardFails` and `Mark` are one `Do` of the inbox worker. `Load`, `Checkpoint`,
`Stop`, `StopCheckpoint`, `EndUnsaved` and `Crash` are the daemon's life around
them. The mobile network (`ReplyArrives`, `PartArrives`) is external: a reply may
come at any time or never, a part of a long message twice.

A behaviour either sends probes or gets another sender's parts (`budget`): the
two only meet in the worker's list of groups, which handles each by itself. A
run comes at a later instant than the run or the match before it, as the clock's
nanoseconds have it. A token that nobody has seen gives its number back, so that
failed sends do not exhaust the bound.

Run `ModemProbe`: a slot every 2 units, the reply due within 2, silence of 5,
clock from 2 to 7, so the slots are 2, 4 and 6: a probe that is missing in the
first week can be followed by one that returns, and a reply is due as long as a
week lasts, so that it may come while the next slot's probe is being sent. With a
reply due in less, that cannot happen, and a run would not show the exception
`NoFalseAlarm` makes for it; a message of two parts in two copies each; one stop or
crash. Only safety is asked, so there is no fairness; deadlock is not checked because the
clock's bound ends every behaviour.

### The parts around the tick: run `Runner`

| part | module, bounds | properties | what they ask |
|---|---|---|---|
| guard, guardFails | `GuardRecords`; window 1, clock 3 without or 2 with a failing write, one process end | `StoredStays`, `LoopKnowsStored`, `EndsWritten` | does an action the repeat window counts stay in the store, reach a loop whose records came late, and survive a stop |
| culprit | `Culprits`; two services, one recreated under other cgroups, window 4, sampled every 2 | `CulpritIsTheGreatest` | is the one named the one that grew most among those that can be compared |
| reports, outages | `CheckerErrors`; window 2, clock 4, three reports or three Telegram outages, one end | `Spaced`, `RecoveryTold`, `FailureTold`, `OwnNotice` | are errors told once per window, recoveries on every channel that showed the failure |
| store | `StateStore`; two keys and the guard's, four writes, two starts | `NothingLostInOutage`, `ClosedForGood` | is the database after an outage what it would be without one |
| history | `Retention`; days of 2, kept 2, figures over 1, clock 6, a crash | `HistoryExact` | does every sample count once |
| daemon | `Daemon`; limits 8, 2, 2, 1, calls of 6 and 12 | `SavedInTime`, `ClosedWhenQuiet`, `PollingIsSeen` | does the stop save, in time and in order |
| menu | `Routes`; two users, a group, two built-ins, a script of two names, a menu of two | `MenuIsTrue` | does the menu tell the truth |
| heartbeat | `Heartbeat`; the daemon and one command, three ticks, two spoils | `FileIsCurrent`, `LockIsFreed` | is an update lost, or a lock left, when a process dies |

A step of `GuardRecords` is a section under `guardState`'s lock or one channel operation;
of `CheckerErrors` one call of the rate marks or one email; of `StateStore` one
section under the open lock or a transaction; of `Heartbeat` one system call. In
`Daemon` time is counted from the stop signal and an activity under way ends at any
time within its own limit; a call of the Telegram API, or a checker error that is being
raised (a start error, a job's, the guard's own start errors, which its hook waits for, or
one that a tick begins to raise after the stop signal), ends only by its own timeout
(`held`), and `SavedInTime` speaks of the stops that meet no such call. The limits keep the order of the code's (the API's timeout is longer
than the whole stop, a checker error's is shorter, the three hooks' add up to
less).

### The checks: run `Checks`

| part | module, bounds | properties |
|---|---|---|
| drives, external | `Drives`; three drives over two nodes, one excluded, three changes, two time steps; or two drives, one external and perhaps included, one change, one rise and one end | `MissingIsGone`, `RisesTold`, `RetiredClear`, `WakesSpaced` |
| tests | `SelfTest`; a log of three, a head of two, hours that wrap at 8, a clear | `ToldOnce`, `FailuresTold`, `PassDated` |
| kernel, boots | `Kernel`; three records, an inbox of one, two boots; or two records, one of them a kill that ends its boot, with an end and a failure | `NothingLost`, `NothingTwice`, `MessagesSpaced` |
| temps | `Temps`; layouts of one or two chips and a GPU, two reads, one restart | `EndsAreTold`, `ResolvedByItsOwn` |
| crashes, restarts | `Containers`; one container, a dropped result or an end | `NoEarlyGood`, `OpenIsJudged` |
| growth | `Growth`; window 3, level 4, three sizes, clock 5, one end | `OpenIsJudged`, `HeldOpen` |
| limits | `LimitAudit`; two containers, six runs, a clear and an end | `JoinersAnnounced` |
| fixes, commands | `CommandFix`; a container's or a command's fix after two strikes, one per window of 2, one end with a late load | `FixesLogged`, `LimitKept`, `FixEarned` |
| files | `Freshness`; age 1, clock 3, one end | `StampIsSeen`, `MissingJudged` |
| http | `HttpCheck`; a timeout of 4 within runs of 2 to 12, two redirects | `VerdictIsTheEndpoints`, `SecretStays` |

A check's `Run` is split where it waits (a read, a lookup, a fix) and where the
runner takes over: its result may be applied, or dropped with an abandoned run or
an interrupted tick, in which case what the check remembers and what the engine
knows differ. A crash loses what was not saved; a load may come ticks after the
start, when the check has already run. Readings, tests, records, moved drives and crashing
containers are inputs, bounded by the `Last...` and `Max...` constants. Each
instance is small enough for all of them to fit one run, and large enough that
every fault of the table above is found.

The parts of these two runs only ask for safety and for what single steps may do: they
have no fairness, and their bounds end every behaviour, so deadlock is not checked.

## Where the code does not do what it says

Each is a run TLC must find violated, with a finding in `PROJECT.json`.

* `TickStop`: the network result of an interrupted tick is saved by the stop's
  checkpoint, although nobody was told of it; `saveInterruptedFixes` takes care
  to avoid just that.
* `NotifierFlushTwice`: Flush, working on a copy, sends a message again whose
  abandoned send succeeded between the copy and its turn.
* `NotifierLateLoad`: a late load restores an open condition and, at the same time,
  marks its stored PROBLEM as resolved, so that it is dropped as stale.

Others were seen in the models and have no run of their own:

* With a push, `NoProblemAfterResolved` fails: the push's fallback claims a
  PROBLEM, the tick sends the RESOLVED by SMS, then the PROBLEM's SMS goes out. With a
  restart it fails too: a crash right after the RESOLVED went out, and the load brings back
  the streak of the last save, whose PROBLEM is then raised again.
* With a push and a crash, `OpenProblemAccounted` fails: the checkpoint reads the
  conditions before the queue, a push trims the PROBLEM in between, and the crash
  comes before the report. The trimmed message is then in no stored queue and in no
  report. `NothingLost` holds all the same, since it counts what was about to be
  reported dropped at the last save among what may die with the process.
* The SMS-sent set holds keys, not messages, so a PROBLEM may go by SMS twice, or its
  RESOLVED not follow it. A push claims a PROBLEM's key, `/clear` ends the condition and frees
  the key, the tick's fallback sends the PROBLEM of the next streak by SMS; then the push's SMS
  fails, and giving its claim back takes the key away from the newer PROBLEM. A late
  failure of an abandoned SMS does the same (`settleFallback`). And a `/clear` between the
  claim of a PROBLEM whose own SMS was abandoned and the queueing of its Telegram
  copy frees the key without marking the copy, which the fallback then sends again.
  `ProblemSMSOnce` and `ResolvedFollowsBySMS` except these PROBLEMs (`robbed`).
* A PROBLEM in mode sms whose abandoned SMS succeeds late is sent twice as in
  `NotifierFlushTwice`, Flush working on a copy; the passing instances with a hanging
  send have no such messages.
* A Good that the modem probe decided in a run whose result is dropped (stop or
  deadline) is not decided again: the problem stays open until the next week's
  probe returns. `ReturnResolves` excepts these returns (`droppedGood`).
* A process that ends after a reply was matched, without a checkpoint, forgets the
  match, and the probe is reported missing. `NoFalseAlarm` excepts these
  (`forgotten`).
* While a run is sending the next slot's probe, the probe that is still due is not the
  outstanding one; a reply to it that is read then matches nothing. When the send fails,
  `modemprobe.go:189` puts the older probe back, and it is reported missing although
  its reply came. `NoFalseAlarm` excepts these too (`Overtaken`). The proof found it: the
  first statement of the invariant was not preserved by a failing send.
* A matched reply whose mark fails is forwarded by the next poll, since the probe
  is no longer outstanding.

The notifier's passing runs leave out what the first two name: `NotifierRestart` has no
push, no flush and no SMS, `NotifierPush` no restart, and `ResolvedIsLast` is asked of parts
that have neither. The hypotheses of the theorems of `NotifierProofs` are the same (`Settings`,
`Alone` below).

Holes of the other modules, each excepted by name in the property it would break, or
outside what the property says:

* `Schedule`: after `/clear` of the network condition the checks that need the internet run
  although the last network run found it down, until the next one: `r.bad` asks the engine,
  which forgot the condition, and `networkUnknown` stays false (`cleared`).
* `Daemon`: `LastStateSaved` does not hold. A `getMe` in flight, bounded only by the 60 s
  Telegram timeout, holds consumer.Stop for the whole stop, and so does a checker error of
  a background job, of the guard's start (its hook waits for `raiseAll`, which nothing
  ends in the middle of an error) or of an interrupted tick; fx then skips the final checkpoint, although `README.md:646-650`
  says that the stop "writes the health state one final time". `CheckpointIsLast` does not
  hold either: the raising of start errors may push after the final checkpoint, which
  `runner.go:362` places "after everything that pushes has stopped".
* `Drives`: `attribute` (disks.go:912) gives an unreadable node to the drive last read from
  it "so that drive is neither judged nor reported missing"; where two drives claim
  one node only one of them gets it (`MissingIsGone` excepts these). A drive
  retired between dropRetired's look and the engine's taking the readings in gets a
  condition that `retire.go:149-151` says "a result computed before /retire cannot
  recreate" (`stuck`). A usb drive asleep on a new node
  is judged missing; `retireUntracked` leaves an open condition open; a
  counter's rise in a dropped result is not told; nor is one before the first read that has
  the counters, which only sets the baseline, also when the drive was seen before without
  them; a drive whose node was given to
  another may be woken twice.
* `SelfTest`: when the stored head cannot be found in the log, a test that ran in the hour of
  the newest known entry is taken for it, and neither its failure nor its pass is noticed
  (`blurred`).
* `Kernel`: occurrences not yet told are dropped when the next episode starts after a
  day down; records of a fresh boot overwritten before the first read are not
  counted; the message on the previous boot's last records has the class's key but not its
  spacing, and may go out in the very run of a start (`MessagesSpaced` says once per
  boot of it); a dropped result loses its records; replayed records may fill the inbox.
* `Temps`, `Containers`: a dropped result loses what it forgot, so the condition of a
  thing that is gone stays open (`dropped`, `deaf`); sensors' keys shift when a chip of
  the same name joins or leaves; a late restore replaces what was seen.
* `Growth`: a pause longer than the window prunes every point; a good result
  that is dropped may resolve early.
* `CommandFix`: a late load replaces fix times and strikes, so max_per_hour counts
  only the fixes the check knows of (`forgot`), and strikes that good probes or a fix had taken
  come back, so that a fix needs fewer new bad probes (`revived`, added to what `FixEarned`
  asks of the probes, over process ends too); a crash before the
  checkpoint forgets them; a fix under way at the stop leaves no record.
* `Freshness`: a crash or a late load brings back a cleared mark or loses a new one.
* `CheckerErrors`: the checkpoint that ends an outage stores the save mark before
  Recovered gives it back, so that after a crash the next outage within the window is not
  told (`staleMark`); whether a failure was reported or mailed does not
  survive a restart; a recovery's email that fails is only logged and not tried again
  (`mailLost`, excepted in `RecoveryTold`).
* `StateStore`: database/sql's Close does not wait for a transaction that has begun; such a
  write may end after it.
* `HttpCheck`: a lookup that ends between the request's timeout and the look at its
  trace makes an endpoint that was never dialled read bad.

## Proofs

`LaneProofs` (any callers, calls and ticks). The invariant `LaneInv` is `TypeOK` with four
parts: `SendInv` (at most the current number is sending, and the lane is in flight exactly
then), `WatchInv` (a watcher's number is its own, in the past or the current one; the
abandoned flag is the absence of a watcher of the current send), `ParkInv` (whoever holds
the channel waits, and the lane is taken and watched), `StopInv` (an expired send context
has a closed stop, which is what makes `run`'s first check refuse). `OneSendAtATime` alone
is not inductive: that a free lane has no send, and that numbers only grow, has to be
known. The step is proved per group of actions.

`EngineProofs` (any keys, interval, threshold, second and clock). `EngineInv` is
`TypeOK` with `Observed` of every condition in memory and in the store: the stored
ones are needed because a load brings them back, and rounding down keeps the
bound. The refinement of `AlertStream` maps a condition to healthy, streak or
open: `Apply` is a `Run`, everything else `Silent` or a stutter. `EngineReopened` proves
`ReopenedRaisesAtOnce` for a threshold of a whole number of seconds, the resolution of the
store: that a condition whose PROBLEM was dropped has its threshold of bad time is
then kept by the rounding of a save. The configuration also takes fractions of a second
(`1.5s` parses), which the theorem does not cover: with a
threshold of two and a half seconds TLC finds the step that waits again, because the save
cut the bad time below the threshold.

`TickProofs` (any checks, bounds and starts). `TickInv` is `TypeOK` with `RecInv` (a
record is in one copy in one place: the tick's fixes, the alert records, the pending
list, the degraded store's, or the log, or it is lost), `StopInv` (a tick that was cut short is its
process's last) and `OutageInv` (a reported outage lasts until the save that ends it).
`RecordedOnce` follows from `RecInv`: that the log gets a record once is not inductive, since
a retry writes from four places. The action property `RecoveryNoticed` needs `OutageInv`.
`StoredIsAnnounced` needs `AgreeInv` besides, which says at each point of the tick what
the conditions and the notifier have to agree on. Its theorem has no hypothesis: the stop's
checkpoint after an interrupted tick is among the steps, and what the proof shows of it
is that it can save no result unseen but the network's.

`GuardLoopProofs` (any services, windows, buffer and clock). `GuardInv` rests on
`Serial`: an action under way, or its waiting result, is the current episode's. Only
then is the next decision made after the last action has ended (`Spaced`, with the
distance per state of the episode in `Apart`), against records that hold every earlier one
of the window (`Kept`), so that a repeat is seen (`Repeats`); `Told` and `Closing` say that an
outcome is told or queued until the reporter leaves nothing. `ActionsSpaced`,
`RepeatIsStopped` and `ToldAndKept` follow.

`ModemProbeProofs` (any week, reply limit, parts, copies and bounds, with a silence longer
than a week and a reply). The probe's state lives in memory, in the last checkpoint
and, while a send is under way, in what a failure would put back; `ProbeInv` says the
same of all three: which replies may still match (`TokenInv`), which returns were
reported (`ReturnInv`), which slots are behind it (`SlotInv`); `MarkInv` is the inbox's part:
what is marked processed was told. `NothingSwallowed`, `NoFalseAlarm`,
`ReturnResolves` and `OneProbePerSlot` follow.

`NotifierProofs` (the tick with or without a push, any keys, modes, queue length, messages,
flushes, hanging sends and restarts). The queue, its marks and the goroutines refer to a message by
the number it has in the queue, a late send by a token, and a late load renumbers the
queue. `NotifierInv` has a part for each way to refer to one:

* `QueueInv`: the queue's numbers increase, so that one names one message;
* `HangInv`, `FlightInv`: a token names the message whose send it was given to (`TokenOf`),
  and an in-flight mark is on that message, so whoever settles later removes no other;
* `StoreInv`: what the store knows of every message up to its last save, since a load
  brings it back;
* `MarkInv`: a resolved mark lies between two streaks, with what is stored and
  not yet loaded apart;
* `ActorInv`: what an actor has in its hands at each place of its program: its message
  (`HoldsMessage`), Flush's copy of the queue, whose numbers still mean the same
  messages (`HoldsCopy`), and the token of its send (`HoldsSend`); `Apart`: no message is in
  two hands.

`NothingLost` and `MarksKept` follow. The load's step rests on lemmas about the merged
queue (`IsMerge`): stored numbers stay, memory's come after them in the same order.

Two more invariants stand on it as layers, each proved from the ones below. Their
hypotheses exclude the combinations for which TLC shows the property violated (above), and
leave keys, queue length, messages, flushes and modes free:

| invariant | hypothesis | theorem |
|---|---|---|
| `AlertInv` | `Settings`: no restart, or no push and no mode sms | `NothingIsSilent`, `OpenProblemsAreAccounted` |
| `LastInv` | `Alone`: no push and no restart | `ResolvedIsTheLast` (`NoProblemAfterResolved`) |

* `AlertInv` follows an open condition to a PROBLEM of its streak that was not given up, or
  is back from the store (`OpenInv`). A PROBLEM is given up by a report, which reopens its
  condition or finds it of another streak, by a crash, and by Flush as stale: the
  last needs `Ended`, that what lies before a resolved mark is not of the current streak.
  For a restart, what was saved has to go together (`SavedInv`, and `Savable` between the
  checkpoint's two reads).
* `LastInv` says that nothing may still send an SMS of a PROBLEM whose RESOLVED was handed
  over: a queued one lies before its key's mark, or the RESOLVED that will mark it is still
  in the tick's hands (`Pending`); what Flush copied, the fallback claimed, or hangs, likewise.

`ResolvedIsTheLast` is, for any keys, modes and bounds, what `ResolvedIsLast` of the run
`Engine` says of PROBLEMs in the parts "late" and "alone".

The undelivered list, in `PersistProofs` (any capacity, PROBLEMs and restarts). An acknowledgement removes by
count; that it removes what the reader saw is a fact about all that was done to the
list since the prefix was taken (`HoldInv`: the shown items are still in front, the counted ones
still counted). That the count is exact needs every PROBLEM to be in one place, in
memory (`ListInv`) and in the store, whose list is disjoint from memory's until it is
loaded (`StoreInv`). The load is the one hard step: it splits the list, puts the stored
one in between, and cuts the result at the capacity, each a lemma on listings. The
theorem states what `KeptUntilShown` of the run `Tick` checks.

The state store, also in `PersistProofs`, where its definitions have the prefix `DB!`
(any keys, bounds and order of the users). `NothingLostInOutage` speaks of
the moments when nothing is pending; what holds always is that the pending data laid over
the database (`Over`) is what was given (`OutageInv`). A failed checkpoint keeps it since
`Over` is associative, a put of the guard's since it commutes with upserts of other
keys. The theorems have the hypothesis that no checkpoint carries the guard's key,
which is what its restore-only persister is for (`guardPersister.Save`).

Assumptions are those of the modules' `ASSUME`s: natural numbers, a positive
second, the ticker not among the others, finitely many other checks in `Tick`, a
silence longer than a week and a reply in `ModemProbe` (which the configuration must
have), a tick among the notifier's actors.

Only model-checked:

* liveness (`BoundedCallReturns`, `EventuallyShown`, `StopEnds`), beyond the prover;
* `ProblemSMSOnce` and `ResolvedFollowsBySMS` of the notifier;
* the parts of the composite properties of `MCEngine`, `MCTick`, `MCRunner` and `MCChecks`
  that are about other modules than `Undelivered` and `StateStore`, and with them every
  module but these two, `Lane`, `Engine`, `Tick`, `GuardLoop`, `ModemProbe` and `Notifier`.

The `TypeOK` of a module with proofs is part of the proved invariant; `Engine`'s and
`Lane`'s runs do not repeat theirs.

## Not modelled, and the plan

1. Proofs of `ProblemSMSOnce` and `ResolvedFollowsBySMS` with pushes and hanging sends, on
   the invariants of `NotifierProofs`.
2. Proofs about the parts of `MCRunner` and `MCChecks` that are only model-checked, first
   `Daemon` (the order of the stop) and `Schedule`.
3. Liveness of the parts around the tick: that a report, a record of the guard or a
   fix is told once its channel and the store work again.
4. Larger instances of single parts, in runs of their own.

Left out for good: texts and reports (formatting), host probes and the modem's
database, mail, DNS and speed-test clients (request and response without shared state), SQL
and migrations, configuration parsing, the EDAC counters and the replay mode of the kernel
check, the network and UPS checks (no state), the ZTE modem's SMS worker (read and
publish, no state).
