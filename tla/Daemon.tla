-------------------------------- MODULE Daemon --------------------------------
(***************************************************************************)
(* The life of the daemon process (cmd/main.go, cmd/health.go,               *)
(* cmd/app/application.go, pkg/telegram/consumer.go): the fx hooks start in  *)
(* the order they were appended and stop in reverse, all of the stop inside  *)
(* one StopTimeout, after which fx skips what is left and the process exits. *)
(* Beside the hooks run the Telegram consumer, a scheduled tick, the memory  *)
(* guard, a background job, the raising of the start errors and a command's  *)
(* handler; what each of them pushes is lost unless a checkpoint follows.    *)
(*                                                                          *)
(* Time is counted from the stop signal; an activity under way then may end  *)
(* at any time within its own limit.                                         *)
(***************************************************************************)
EXTENDS Integers, Sequences

CONSTANTS
  StopTimeout,     \* daemonStopTimeout
  SchedulerStop,   \* app.SchedulerStopTimeout
  GuardStop,       \* memguard.StopReportTimeout and guardWriteTimeout
  SaveGrace,       \* runner.InterruptedSaveTimeout
  CheckerTimeout,  \* notify.checkerTimeout: raising one checker error
  ApiTimeout       \* telegramTimeout: one Telegram call

VARIABLES
  life,      \* "starting", "up", "stopping", "exited"
  hook,      \* hooks started; while stopping, the one being stopped
  entered,   \* the stopping hook has been called
  now,       \* time since the stop began
  left,      \* time an activity may still take
  bot,       \* the consumer's goroutine
  polling, sawPolling,   \* consumer.polling, and what Stop read of it
  cancelled, \* the consumer's run context ended
  handler,   \* a command's handler is running
  tick, guard, job,
  errs, guardErrs, \* the raising of the runner's and of the guard's start errors
  loaded,    \* Runner.loaded
  dirty,     \* who pushed since the last checkpoint
  closed,    \* the store is closed and the lock released
  cut,       \* the stop timeout ended the process
  held,      \* calls that outlast their hook's stop: no context ends them
  pushedAfter \* who pushed after the final checkpoint

botVars == <<bot, polling, sawPolling, cancelled, handler>>
work == <<tick, guard, job, errs, guardErrs>>
history == <<cut, held, pushedAfter>>
vars == <<life, hook, entered, now, left, botVars, work, loaded, dirty, closed, history>>

\* The hooks, in the order they are appended.
State == 1
Start == 2
FinalCheckpoint == 3
Background == 4
Guard == 5
App == 6
Hooks == State..App

Actors == {"bot", "tick", "guard", "job", "errs", "guardErrs"}

Init ==
  /\ life = "starting" /\ hook = State /\ entered = FALSE /\ now = 0
  /\ left = [a \in Actors |-> 0]
  /\ bot = "none" /\ polling = FALSE /\ sawPolling = FALSE /\ cancelled = FALSE /\ handler = FALSE
  /\ tick = "idle" /\ guard = "down" /\ job = "down" /\ errs = "none" /\ guardErrs = "none"
  /\ loaded = FALSE /\ dirty = {} /\ closed = FALSE
  /\ cut = FALSE /\ held = {} /\ pushedAfter = {}

-----------------------------------------------------------------------------
(* What pushes *)

Limit(a, limit) == left' = [left EXCEPT ![a] = limit]

\* An event, a rate mark or a queued message that only memory holds.
Push(who) ==
  /\ dirty' = dirty \cup {who}
  /\ pushedAfter' = IF life = "stopping" /\ hook < FinalCheckpoint THEN pushedAfter \cup {who} ELSE pushedAfter

\* OnStart of the next hook: load, then raise the start errors in the background;
\* start the jobs; the guard, which raises its own start errors beside its loop, or
\* instead of it; the scheduler and the consumer.
StartHook ==
  /\ life = "starting" /\ hook < App
  /\ hook' = hook + 1
  /\ CASE hook' = Start ->
            /\ loaded' \in BOOLEAN
            /\ errs' = "raising" /\ Limit("errs", CheckerTimeout)
            /\ UNCHANGED <<life, bot, job, guard, guardErrs>>
       [] hook' = FinalCheckpoint -> UNCHANGED <<life, bot, job, guard, errs, guardErrs, left, loaded>>
       [] hook' = Background -> job' = "up" /\ UNCHANGED <<life, bot, guard, errs, guardErrs, left, loaded>>
       [] hook' = Guard ->
            /\ guard' \in {"up", "down"}
            /\ guardErrs' = "raising" /\ Limit("guardErrs", CheckerTimeout)
            /\ UNCHANGED <<life, bot, job, errs, loaded>>
       [] hook' = App ->
            /\ life' = "up" /\ bot' = "trying"
            /\ UNCHANGED <<job, guard, errs, guardErrs, left, loaded>>
  /\ UNCHANGED <<entered, now, polling, sawPolling, cancelled, handler, tick, dirty, closed, history>>

\* The last start error has been raised.
ErrorsRaised ==
  /\ errs = "raising"
  /\ errs' = "done" /\ Push("errors")
  /\ Limit("errs", 0)
  /\ UNCHANGED <<life, hook, entered, now, botVars, tick, guard, job, guardErrs, loaded, closed, cut, held>>

\* A tick takes Runner.ticking; it loads what the start could not.
TickStarts ==
  /\ life = "up" /\ tick = "idle"
  /\ tick' = "busy" /\ loaded' \in {loaded, TRUE}
  /\ UNCHANGED <<life, hook, entered, now, left, botVars, guard, job, errs, guardErrs, dirty, closed, history>>

\* It raises one of its checker errors, which no cancellation ends: the load's, the
\* checks', the failing channel's or the store's, after the stop began, too.
TickReports ==
  /\ life \in {"up", "stopping"} /\ tick = "busy"
  /\ tick' = "reporting" /\ Limit("tick", CheckerTimeout)
  /\ held' = IF cancelled THEN held \cup {"tick"} ELSE held
  /\ UNCHANGED <<life, hook, entered, now, botVars, guard, job, errs, guardErrs, loaded, dirty, closed, cut,
                 pushedAfter>>

TickReported ==
  /\ tick = "reporting"
  /\ tick' = "busy" /\ Push("tick")
  /\ Limit("tick", IF cancelled THEN SaveGrace ELSE 0)
  /\ UNCHANGED <<life, hook, entered, now, botVars, guard, job, errs, guardErrs, loaded, closed, cut, held>>

Saved == IF loaded THEN {} ELSE dirty

\* A tick ends with a checkpoint; one that the stop interrupts writes only when it
\* has a fix to record.
TickEnds ==
  /\ tick = "busy"
  /\ tick' = "idle" /\ dirty' \in {Saved} \cup (IF cancelled THEN {dirty} ELSE {})
  /\ Limit("tick", 0)
  /\ UNCHANGED <<life, hook, entered, now, botVars, guard, job, errs, guardErrs, loaded, closed, history>>

GuardPushes ==
  /\ guard \in {"up", "ending"}
  /\ Push("guard")
  /\ UNCHANGED <<life, hook, entered, now, left, botVars, work, loaded, closed, cut, held>>

GuardEnds ==
  /\ guard = "ending"
  /\ guard' = "down"
  /\ Limit("guard", 0)
  /\ UNCHANGED <<life, hook, entered, now, botVars, tick, job, errs, guardErrs, loaded, dirty, closed, history>>

GuardStopping == life = "stopping" /\ (hook < Guard \/ (hook = Guard /\ entered))

\* raiseAll: the next error, unless it was the last or the guard was stopped.
GuardErrorRaised ==
  /\ guardErrs = "raising" /\ Push("guard")
  /\ \/ ~GuardStopping /\ Limit("guardErrs", CheckerTimeout) /\ UNCHANGED guardErrs
     \/ guardErrs' = "done" /\ Limit("guardErrs", 0)
  /\ UNCHANGED <<life, hook, entered, now, botVars, tick, guard, job, errs, loaded, closed, cut, held>>

\* runBackground: the job fails and its error is raised, then it pauses and runs again.
JobFails ==
  /\ job = "up" /\ life \in {"up", "stopping"} /\ (life = "stopping" => hook >= Background)
  /\ job' = "raising" /\ Limit("job", CheckerTimeout)
  /\ UNCHANGED <<life, hook, entered, now, botVars, tick, guard, errs, guardErrs, loaded, dirty, closed, history>>

JobStopping == life = "stopping" /\ hook <= Background /\ entered

JobRaised ==
  /\ job = "raising"
  /\ job' = IF JobStopping THEN "down" ELSE "up"
  /\ Push("job")
  /\ Limit("job", 0)
  /\ UNCHANGED <<life, hook, entered, now, botVars, tick, guard, errs, guardErrs, loaded, closed, cut, held>>

-----------------------------------------------------------------------------
(* The Telegram consumer *)

\* retryUntil: the next getMe, unless the context ended.
CallMe ==
  /\ bot = "trying"
  /\ IF cancelled THEN bot' = "ended" /\ UNCHANGED left
     ELSE bot' = "calling" /\ Limit("bot", ApiTimeout)
  /\ UNCHANGED <<life, hook, entered, now, polling, sawPolling, cancelled, handler, work, loaded, dirty,
                 closed, history>>

MeFails ==
  /\ bot = "calling"
  /\ bot' = IF cancelled THEN "ended" ELSE "pausing"
  /\ Limit("bot", 0)
  /\ UNCHANGED <<life, hook, entered, now, polling, sawPolling, cancelled, handler, work, loaded,
                 dirty, closed, history>>

PauseEnds ==
  /\ bot = "pausing"
  /\ bot' = IF cancelled THEN "ended" ELSE "trying"
  /\ UNCHANGED <<life, hook, entered, now, left, polling, sawPolling, cancelled, handler, work, loaded,
                 dirty, closed, history>>

\* A plausible fault: the context is not looked at again under the lock.
GoOn == FALSE

\* connectAndPoll gives up when Stop came first.
GiveUp == cancelled

MeAnswers ==
  /\ bot = "calling"
  /\ IF GiveUp THEN bot' = "ended" /\ UNCHANGED polling ELSE bot' = "connected" /\ polling' = TRUE
  /\ Limit("bot", 0)
  /\ UNCHANGED <<life, hook, entered, now, sawPolling, cancelled, handler, work, loaded, dirty,
                 closed, history>>

BotStart ==
  /\ bot = "connected"
  /\ bot' = "polling"
  /\ UNCHANGED <<life, hook, entered, now, left, polling, sawPolling, cancelled, handler, work, loaded,
                 dirty, closed, history>>

Command ==
  /\ bot = "polling" /\ ~handler /\ life = "up"
  /\ handler' = TRUE
  /\ UNCHANGED <<life, hook, entered, now, left, bot, polling, sawPolling, cancelled, work, loaded, dirty,
                 closed, history>>

\* handleCommand runs on a goroutine of its own that nothing waits for.
Handled ==
  /\ handler /\ handler' = FALSE /\ life /= "exited"
  /\ Push("command")
  /\ UNCHANGED <<life, hook, entered, now, left, bot, polling, sawPolling, cancelled, work, loaded,
                 closed, cut, held>>

\* bot.Stop: the polling loop takes the stop and ends.
BotStop ==
  /\ bot = "polling" /\ cancelled /\ sawPolling
  /\ bot' = "ended"
  /\ UNCHANGED <<life, hook, entered, now, left, polling, sawPolling, cancelled, handler, work, loaded,
                 dirty, closed, history>>

-----------------------------------------------------------------------------
(* The stop *)

\* What its hook would cancel runs on to its own limit.
Held(h) ==
  CASE h = App -> IF bot = "calling" THEN {"bot"} ELSE {}
    [] h = Guard -> IF guardErrs = "raising" THEN {"guard"} ELSE {}
    [] h = Background -> IF job = "raising" THEN {"job"} ELSE {}
    [] h = Start -> IF errs = "raising" THEN {"errs"} ELSE {}
    [] OTHER -> {}

\* OnStop of the hook is called, the first one at the stop signal: cancel what it started.
EnterHook ==
  /\ life \in {"up", "stopping"} /\ ~entered
  /\ life' = "stopping" /\ entered' = TRUE /\ held' = held \cup Held(hook)
  /\ CASE hook = App ->
            /\ sawPolling' = polling /\ cancelled' = TRUE
            /\ IF tick = "busy" THEN Limit("tick", SaveGrace) ELSE UNCHANGED left
            /\ UNCHANGED <<guard, job>>
       [] hook = Guard ->
            /\ IF guard = "up" THEN guard' = "ending" /\ Limit("guard", GuardStop) ELSE UNCHANGED <<guard, left>>
            /\ UNCHANGED <<sawPolling, cancelled, job>>
       [] hook = Background ->
            /\ job' = IF job = "up" THEN "down" ELSE job
            /\ UNCHANGED <<sawPolling, cancelled, guard, left>>
       [] OTHER -> UNCHANGED <<sawPolling, cancelled, guard, job, left>>
  /\ UNCHANGED <<hook, now, bot, polling, handler, tick, errs, guardErrs, loaded, dirty, closed, cut,
                 pushedAfter>>

\* A plausible fault: Checkpoint writes beside a running tick.
WriteAtOnce == TRUE

\* Checkpoint takes Runner.ticking first.
NoTick == tick = "idle"

\* A plausible fault: the guard is cancelled and not waited for.
GuardCancelled == TRUE

\* register's wait: the loop has reported its last outcomes and written its records,
\* and run's own wait: the start error being raised has ended.
GuardDone == guard = "down" /\ guardErrs # "raising"

\* What the hook waits for has ended.
Stopped ==
  CASE hook = App -> bot = "ended" /\ (tick = "idle" \/ now >= SchedulerStop)
    [] hook = Guard -> GuardDone
    [] hook = Background -> job = "down"
    [] hook = FinalCheckpoint -> NoTick
    [] hook = Start -> errs = "done"
    [] OTHER -> TRUE

LeaveHook ==
  /\ life = "stopping" /\ entered /\ Stopped
  /\ dirty' = IF hook = FinalCheckpoint THEN Saved ELSE dirty
  /\ closed' = (hook = State)
  /\ IF hook = State THEN life' = "exited" /\ UNCHANGED hook ELSE hook' = hook - 1 /\ UNCHANGED life
  /\ entered' = FALSE
  /\ UNCHANGED <<now, left, botVars, work, loaded, history>>

\* fx gives up: the hooks not yet called are skipped and the process exits.
CutOff ==
  /\ life = "stopping" /\ now = StopTimeout
  /\ life' = "exited" /\ cut' = TRUE
  /\ UNCHANGED <<hook, entered, now, left, botVars, work, loaded, dirty, closed, held, pushedAfter>>

\* Activities whose remaining time is counted.
Running ==
  {a \in Actors :
     \/ a = "bot" /\ bot = "calling"
     \/ a = "tick" /\ tick \in {"busy", "reporting"} /\ (tick = "busy" => cancelled)
     \/ a = "guard" /\ guard = "ending"
     \/ a = "job" /\ job = "raising"
     \/ a = "errs" /\ errs = "raising"
     \/ a = "guardErrs" /\ guardErrs = "raising"}

\* What follows at once never waits for time to pass.
Prompt ==
  \/ ~entered
  \/ Stopped
  \/ bot \in {"trying", "connected"}
  \/ bot = "pausing" /\ cancelled
  \/ bot = "polling" /\ cancelled /\ sawPolling

Pass ==
  /\ life = "stopping" /\ now < StopTimeout /\ ~Prompt
  /\ \A a \in Running : left[a] > 0
  /\ now' = now + 1 /\ left' = [a \in Actors |-> IF a \in Running THEN left[a] - 1 ELSE left[a]]
  /\ UNCHANGED <<life, hook, entered, botVars, work, loaded, dirty, closed, history>>

Alive ==
  \/ ErrorsRaised \/ TickReported \/ TickEnds \/ GuardPushes \/ GuardEnds \/ GuardErrorRaised \/ JobRaised
  \/ CallMe \/ MeFails \/ PauseEnds \/ MeAnswers \/ BotStart \/ BotStop

Next ==
  \/ StartHook \/ TickStarts \/ TickReports \/ JobFails \/ Command \/ Handled
  \/ EnterHook \/ LeaveHook \/ CutOff \/ Pass
  \/ life /= "exited" /\ Alive

Spec == Init /\ [][Next]_vars

-----------------------------------------------------------------------------

TypeOK ==
  /\ life \in {"starting", "up", "stopping", "exited"} /\ hook \in Hooks /\ entered \in BOOLEAN
  /\ now \in 0..StopTimeout
  /\ bot \in {"none", "trying", "calling", "pausing", "connected", "polling", "ended"}
  /\ tick \in {"idle", "busy", "reporting"} /\ guard \in {"up", "ending", "down"}
  /\ job \in {"up", "raising", "down"} /\ errs \in {"none", "raising", "done"}
  /\ guardErrs \in {"none", "raising", "done"}
  /\ dirty \subseteq {"errors", "tick", "guard", "job", "command"}

\* A stop finishes inside its timeout, and what the tick, the guard and the jobs
\* pushed is stored once the state was loaded: the hooks' own limits add up, also
\* with one error that a tick was raising at the signal, and the final checkpoint
\* comes after all they stop.  It may not where a call that no context ends was under
\* way when its hook stopped (getMe, an error of a job or of the guard's start), or
\* the tick began to raise one after the signal; the runner's own start errors are
\* waited for after the final checkpoint.
SavedInTime ==
  life = "exited" =>
    /\ held = {} => ~cut
    /\ held \subseteq {"errs"} /\ loaded => dirty \cap {"tick", "guard", "job"} = {}

\* Nothing still runs on a store that has been closed: no tick, no guard, no job and
\* no raising of errors.  The scheduler gives a tick up after its own timeout, the
\* final checkpoint does not.
ClosedWhenQuiet ==
  closed => tick = "idle" /\ guard = "down" /\ job = "down" /\ "raising" \notin {errs, guardErrs}

\* Stop and the connecting goroutine agree: it either marked itself polling before
\* Stop looked, and Stop ends it, or it sees the cancellation and never polls.
PollingIsSeen == cancelled /\ bot \in {"connected", "polling"} => sawPolling

\* The README's promise: the state is written one final time, so events and queued
\* messages since the last tick reach the next start.
LastStateSaved == life = "exited" /\ loaded => dirty \cap {"tick", "guard", "job"} = {}

\* Checkpoint's comment: it is called after everything that pushes has stopped.
CheckpointIsLast == pushedAfter = {}
==============================================================================
