------------------------------ MODULE Schedule ------------------------------
(***************************************************************************)
(* What the runner runs and when (pkg/health/runner: runner.go, bounded.go, *)
(* schedule.go, maintenance.go): the network check first, then the eligible *)
(* others, a few at a time and within the tick's deadline; runs that        *)
(* outlive their tick; quiet windows; the weekly job; and what of it a      *)
(* restart brings back, perhaps late.                                       *)
(*                                                                          *)
(* A result is reduced to what the runner reads of it.  The engine is the   *)
(* network condition alone.  The daily job goes the weekly one's way and is *)
(* left out.  0 is the zero time.                                           *)
(***************************************************************************)
EXTENDS Integers, Sequences, FiniteSets, SequencesExt

CONSTANTS
  Net,           \* the network check
  HasNetwork,    \* it is configured (r.network >= 0)
  Others,        \* the other checks, in configuration order
  Interval,      \* each check's interval
  NeedsInternet, \* checks with needs_internet
  DependsOnNet,  \* checks whose depends_on is a network condition
  PauseInQuiet,  \* checks that pause in quiet windows
  Slack,         \* dueSlack
  Concurrency,   \* runs at a time
  Week,          \* the weekly slot comes at its multiples
  Gap,           \* maintenanceGap
  Probes,        \* what a probe of the lock may find: "held", "free", "error"
  GraceTicks,    \* ticks within the boot grace
  MaxNow, MaxBack, MaxEnds, MaxTicks \* bounds: clock, jumps back, process ends, ticks

VARIABLES
  now, backs, ends, ticks,
  stopping,   \* the daemon's ctx is done
  loaded,     \* r.loaded
  pc,         \* where the tick is
  before,     \* cycle.before: the network condition before the runs
  quiet,      \* the tick's quiet window is open
  offline,    \* runChecks: the network condition was bad when the batch was made
  todo,       \* runBatch: checks waiting for a slot
  waiting,    \* runs the tick waits for
  read,       \* results of this tick, by check
  lastRun, running,
  late,       \* abandoned runs that have not returned, by check
  networkUnknown, netBad,
  maint, maintObserved,
  weeklyLast,
  stored,     \* the last checkpoint
  \* history
  lastNet,    \* what the last network run of this process read
  cleared,    \* /clear ended the network condition since that run
  summaries,  \* slots whose weekly job was done, as far as saved state can know
  hold,       \* the hold of the maintenance lock that the probes show
  freeUnseen  \* this process found the lock free before its load

Checks == {Net} \cup ToSet(Others)

tickVars == <<pc, before, quiet, offline, todo, waiting, read>>
netVars == <<networkUnknown, netBad, lastNet, cleared>>
maintVars == <<maint, maintObserved, hold, freeUnseen>>
weekVars == <<weeklyLast, summaries>>
lifeVars == <<stopping, loaded, stored, ends>>
clockVars == <<now, backs>>
vars == <<clockVars, ticks, tickVars, lifeVars, netVars, maintVars, weekVars, lastRun, running, late>>

Free == [since |-> 0, seen |-> 0]

TypeOK ==
  /\ pc \in {"idle", "network", "batch", "eligible", "runs", "jobs", "save"}
  /\ waiting \subseteq Checks /\ running \in [Checks -> BOOLEAN] /\ late \in [Checks -> Nat]
  /\ lastRun \in [Checks -> 0 .. MaxNow] /\ weeklyLast \in 0 .. MaxNow
  /\ maint \in [since : 0 .. MaxNow, seen : 0 .. MaxNow]
  /\ lastNet \in {"none", "good", "bad", "error"}

Init ==
  /\ now = 1 /\ backs = 0 /\ ends = 0 /\ ticks = 0
  /\ stopping = FALSE /\ loaded = FALSE
  /\ pc = "idle" /\ before = FALSE /\ quiet = FALSE /\ offline = FALSE
  /\ todo = <<>> /\ waiting = {} /\ read = [c \in {} |-> "good"]
  /\ lastRun = [c \in Checks |-> 0] /\ running = [c \in Checks |-> FALSE] /\ late = [c \in Checks |-> 0]
  /\ networkUnknown = HasNetwork /\ netBad = FALSE /\ lastNet = "none" /\ cleared = FALSE
  /\ maint = Free /\ maintObserved = FALSE /\ hold = Free /\ freeUnseen = FALSE
  /\ weeklyLast = 0 /\ summaries = {}
  /\ stored = [lastRun |-> [c \in Checks |-> 0], weekly |-> 0, maint |-> Free, netBad |-> FALSE]

-----------------------------------------------------------------------------
(* Times *)

Later(a, b) == IF b > a THEN b ELSE a

\* due: never run, run in the future, or its interval is over but for the slack.
Due(c, t) ==
  \/ lastRun[c] = 0
  \/ t < lastRun[c]
  \/ t - lastRun[c] + Slack >= Interval[c]

\* lastSlot
LastSlot(t) == t - (t % Week)

\* Fault: the slot of the last run counts as passed since.
WeeklyDueAgain(last, t) == last <= LastSlot(t)

\* weeklyDue
WeeklyDue(last, t) == last < LastSlot(t)

-----------------------------------------------------------------------------
(* The maintenance lock and the load *)

\* MaintenanceLock.observe
Observe(m, t, held) ==
  IF ~held THEN Free
  ELSE [since |-> IF m.since = 0 \/ t - m.seen > Gap THEN t ELSE m.since, seen |-> t]

\* Fault: a hold seen since the start always continues the stored one.
AlwaysContinue(m, observed, s) ==
  CASE s.since = 0 -> m
    [] s.since # 0 /\ ~observed -> s
    [] s.since # 0 /\ observed /\ m.since # 0 /\ s.since < m.since -> [m EXCEPT !.since = s.since]
    [] OTHER -> m

\* restoreMaintenance
RestoreMaintenance(m, observed, s) ==
  CASE s.since = 0 -> m
    [] s.since # 0 /\ ~observed -> s
    [] s.since # 0 /\ observed /\ m.since # 0 /\ m.since - s.seen <= Gap /\ s.since < m.since ->
         [m EXCEPT !.since = s.since]
    [] OTHER -> m

\* Load and restoreSchedule: the later time wins, the network check's is left out.
LoadState ==
  /\ loaded' = TRUE
  /\ netBad' = (netBad \/ stored.netBad)
  /\ lastRun' = [c \in Checks |-> IF c = Net THEN lastRun[c] ELSE Later(lastRun[c], stored.lastRun[c])]
  /\ weeklyLast' = Later(weeklyLast, stored.weekly)

\* Load fails, or was done before.
KeepState == UNCHANGED <<loaded, netBad, lastRun, weeklyLast>>

\* tick up to its runs: Load, then the quiet window (probe: "held", "free" or
\* "error"; an unreadable uptime opens no window).
BeginTick(probe, loads, uptimeRead) ==
  /\ pc = "idle" /\ ~stopping /\ ticks < MaxTicks
  /\ ticks' = ticks + 1
  /\ (loads => ~loaded) /\ IF loads THEN LoadState ELSE KeepState
  /\ pc' = "network" /\ before' = netBad'
  /\ todo' = <<>> /\ waiting' = {} /\ read' = [c \in {} |-> "good"]
  /\ LET m == IF loads THEN RestoreMaintenance(maint, maintObserved, stored.maint) ELSE maint
         gone == hold.since # 0 /\ now - hold.seen > Gap
     IN /\ maint' = IF probe = "error" THEN m ELSE Observe(m, now, probe = "held")
        /\ maintObserved' = (maintObserved \/ probe # "error")
        /\ hold' = CASE probe = "error" -> hold
                     [] probe = "free" -> Free
                     [] probe = "held" /\ (hold.since = 0 \/ gone) -> [since |-> now, seen |-> now]
                     [] OTHER -> [hold EXCEPT !.seen = now]
        /\ freeUnseen' = (freeUnseen \/ (probe = "free" /\ ~loaded'))
  /\ quiet' = (probe = "held" \/ (uptimeRead /\ ticks < GraceTicks))
  /\ UNCHANGED <<clockVars, stopping, stored, ends, offline, running, late, networkUnknown, lastNet, cleared,
                 summaries>>

-----------------------------------------------------------------------------
(* Runs *)

Paused(c) == quiet /\ c \in PauseInQuiet

\* The network check runs first when it is due.
RunNetworkFirst == HasNetwork /\ ~Paused(Net) /\ ~running[Net] /\ Due(Net, now)

\* runOne: marked running, and waited for.
Start(c) ==
  /\ waiting' = waiting \cup {c}
  /\ running' = [running EXCEPT ![c] = TRUE]

StartNetwork ==
  /\ pc = "network" /\ waiting = {} /\ RunNetworkFirst
  /\ Start(Net)
  /\ lastRun' = [lastRun EXCEPT ![Net] = now]
  /\ UNCHANGED <<clockVars, ticks, pc, before, quiet, offline, todo, read, lifeVars, netVars, maintVars, weekVars, late>>

\* A run returns in time (onDone), or panics: an error.
Return(c, v) ==
  /\ c \in waiting
  /\ waiting' = waiting \ {c}
  /\ running' = [running EXCEPT ![c] = FALSE]
  /\ read' = (c :> v) @@ read
  /\ UNCHANGED <<clockVars, ticks, pc, before, quiet, offline, todo, lifeVars, netVars, maintVars, weekVars, lastRun, late>>

\* Fault: an abandoned run is no longer marked running.
ForgetRun(c) == running' = [running EXCEPT ![c] = FALSE]

\* A run that outlives its tick stays marked.
StaysMarked(c) == UNCHANGED running

\* RunBounded: nobody waits for the run any longer; its result is an error.
Abandon(c) ==
  /\ c \in waiting
  /\ waiting' = waiting \ {c} /\ late' = [late EXCEPT ![c] = @ + 1]
  /\ StaysMarked(c)
  /\ read' = (c :> "error") @@ read
  /\ UNCHANGED <<clockVars, ticks, pc, before, quiet, offline, todo, lifeVars, netVars, maintVars, weekVars, lastRun>>

\* An abandoned run returns: its late result is dropped.
ReturnLate(c) ==
  /\ late[c] > 0
  /\ late' = [late EXCEPT ![c] = @ - 1]
  /\ running' = [running EXCEPT ![c] = FALSE]
  /\ UNCHANGED <<clockVars, ticks, tickVars, lifeVars, netVars, maintVars, weekVars, lastRun>>

\* Fault: once the network check has run, the network is known.
NothingUnknown(v) == FALSE

\* unjudged
Unjudged(v) == v = "error"

\* The network run is over: its result is applied.
ApplyNetwork ==
  /\ pc = "network" /\ Net \in DOMAIN read /\ ~stopping
  /\ pc' = "batch"
  /\ networkUnknown' = Unjudged(read[Net])
  /\ netBad' = CASE read[Net] = "bad" -> TRUE [] read[Net] = "good" -> FALSE [] OTHER -> netBad
  /\ lastNet' = read[Net] /\ cleared' = FALSE
  /\ UNCHANGED <<clockVars, ticks, before, quiet, offline, todo, waiting, read, lifeVars, maintVars, weekVars, lastRun,
                 running, late>>

SkipNetwork ==
  /\ pc = "network" /\ waiting = {} /\ Net \notin DOMAIN read /\ ~RunNetworkFirst
  /\ pc' = "batch"
  /\ UNCHANGED <<clockVars, ticks, before, quiet, offline, todo, waiting, read, lifeVars, netVars, maintVars, weekVars,
                 lastRun, running, late>>

\* SetOffline: what the engine says of the network now.
ReadOffline ==
  /\ pc = "batch" /\ pc' = "eligible"
  /\ offline' = netBad
  /\ UNCHANGED <<clockVars, ticks, before, quiet, todo, waiting, read, lifeVars, netVars, maintVars, weekVars,
                 lastRun, running, late>>

\* eligible
Eligible(c) ==
  /\ ~Paused(c) /\ ~running[c] /\ Due(c, now)
  /\ ~(c \in NeedsInternet /\ (offline \/ networkUnknown))
  /\ ~(c \in DependsOnNet /\ netBad)

MakeBatch ==
  /\ pc = "eligible"
  /\ pc' = "runs" /\ todo' = SelectSeq(Others, Eligible)
  /\ UNCHANGED <<clockVars, ticks, before, quiet, offline, waiting, read, lifeVars, netVars, maintVars, weekVars,
                 lastRun, running, late>>

\* runBatch: the next check gets a slot ...
Launch ==
  /\ pc = "runs" /\ todo # <<>> /\ Cardinality(waiting) < Concurrency /\ ~stopping
  /\ Start(Head(todo)) /\ todo' = Tail(todo)
  /\ UNCHANGED <<clockVars, ticks, pc, before, quiet, offline, read, lifeVars, netVars, maintVars, weekVars, lastRun, late>>

\* ... or the tick's deadline passes first: the rest is not started.
CutBatch ==
  /\ pc = "runs" /\ todo # <<>>
  /\ todo' = <<>> /\ read' = [c \in ToSet(todo) |-> "not started"] @@ read
  /\ UNCHANGED <<clockVars, ticks, pc, before, quiet, offline, waiting, lifeVars, netVars, maintVars, weekVars, lastRun,
                 running, late>>

\* runChecks ends: a check that was not started stays due.
ApplyBatch ==
  /\ pc = "runs" /\ todo = <<>> /\ waiting = {} /\ ~stopping
  /\ pc' = "jobs"
  /\ lastRun' = [c \in Checks |-> IF c # Net /\ c \in DOMAIN read /\ read[c] # "not started" THEN now
                                  ELSE lastRun[c]]
  /\ UNCHANGED <<clockVars, ticks, before, quiet, offline, todo, waiting, read, lifeVars, netVars, maintVars, weekVars,
                 running, late>>

\* The tick is over; what it kept for itself is gone.
EndTick ==
  /\ pc' = "idle" /\ before' = FALSE /\ quiet' = FALSE /\ offline' = FALSE
  /\ todo' = <<>> /\ waiting' = {} /\ read' = [c \in {} |-> "good"]

\* The daemon stops during the runs: nothing more is applied.  When the runs took
\* fixes, saveInterruptedFixes saves the conditions of before and the runner's own
\* state.
Interrupt(fixes) ==
  /\ stopping /\ waiting = {}
  /\ \/ pc = "network" /\ Net \in DOMAIN read
     \/ pc = "runs" /\ todo = <<>>
  /\ EndTick
  /\ stored' = IF fixes /\ loaded THEN [stored EXCEPT !.maint = maint, !.netBad = before] ELSE stored
  /\ UNCHANGED <<clockVars, ticks, stopping, loaded, ends, netVars, maintVars, weekVars, lastRun, running,
                 late>>

\* The /clear command on the network condition, from its own goroutine: the engine forgets
\* the condition, networkUnknown stays.
Clear ==
  /\ netBad /\ netBad' = FALSE /\ cleared' = TRUE
  /\ UNCHANGED <<clockVars, ticks, tickVars, lifeVars, networkUnknown, lastNet, maintVars, weekVars, lastRun,
                 running, late>>

-----------------------------------------------------------------------------
(* The weekly job, the checkpoint, the process *)

\* A job with no history is seeded with the latest slot.
Seeded == IF weeklyLast = 0 THEN LastSlot(now) ELSE weeklyLast

\* runWeekly, attempt: a job cut off by its ctx is undone (ctx: the deadline of
\* the sends, or the stop).
RunWeekly(cutOff) ==
  /\ pc = "jobs" /\ pc' = "save"
  /\ IF ~loaded \/ quiet
       THEN ~cutOff /\ UNCHANGED weekVars
       ELSE /\ cutOff => WeeklyDue(Seeded, now)
            /\ IF WeeklyDue(Seeded, now) /\ ~cutOff
                 THEN weeklyLast' = now /\ summaries' = summaries \cup {LastSlot(now)}
                 ELSE weeklyLast' = Seeded /\ UNCHANGED summaries
  /\ UNCHANGED <<clockVars, ticks, before, quiet, offline, todo, waiting, read, lifeVars, netVars, maintVars, lastRun,
                 running, late>>

\* scheduleKV and the maintenance observation, with the condition.
Export == [lastRun |-> lastRun, weekly |-> weeklyLast, maint |-> maint, netBad |-> netBad]

Save(ok) ==
  /\ pc = "save" /\ EndTick
  /\ (ok => loaded) /\ stored' = IF ok THEN Export ELSE stored
  /\ UNCHANGED <<clockVars, ticks, stopping, loaded, ends, netVars, maintVars, weekVars, lastRun, running,
                 late>>

Tick ==
  /\ pc = "idle" /\ now < MaxNow /\ now' = now + 1
  /\ UNCHANGED <<backs, ticks, tickVars, stopping, loaded, stored, ends, netVars, maintVars, weekVars,
                 lastRun, running, late>>

\* The wall clock is set back.
SetBack ==
  /\ pc = "idle" /\ backs < MaxBack /\ backs' = backs + 1
  /\ now' \in 1 .. now - 1
  /\ UNCHANGED <<ticks, tickVars, lifeVars, netVars, maintVars, weekVars, lastRun, running, late>>

Stop ==
  /\ ~stopping /\ ends < MaxEnds /\ stopping' = TRUE
  /\ UNCHANGED <<clockVars, ticks, tickVars, loaded, stored, ends, netVars, maintVars, weekVars, lastRun,
                 running, late>>

\* The process ends with what was last saved, and another starts.
Ends(saved) ==
  /\ stored' = saved /\ ends' = ends + 1
  /\ stopping' = FALSE /\ loaded' = FALSE
  /\ EndTick
  /\ lastRun' = [c \in Checks |-> 0] /\ running' = [c \in Checks |-> FALSE] /\ late' = [c \in Checks |-> 0]
  /\ networkUnknown' = HasNetwork /\ netBad' = FALSE /\ lastNet' = "none" /\ cleared' = FALSE
  /\ maint' = Free /\ maintObserved' = FALSE /\ hold' = saved.maint /\ freeUnseen' = FALSE
  /\ weeklyLast' = 0 /\ summaries' = {s \in summaries : s <= saved.weekly}
  /\ UNCHANGED <<clockVars, ticks>>

\* The stop's checkpoint waits for the tick; it is written only when loaded.
StopCheckpoint == stopping /\ pc = "idle" /\ Ends(IF loaded THEN Export ELSE stored)

Crash == ends < MaxEnds /\ Ends(stored)

Next ==
  \/ \E probe \in Probes, loads, uptimeRead \in BOOLEAN : BeginTick(probe, loads, uptimeRead)
  \/ StartNetwork \/ ApplyNetwork \/ SkipNetwork \/ Clear
  \/ ReadOffline \/ MakeBatch \/ Launch \/ CutBatch \/ ApplyBatch
  \/ \E c \in Checks, v \in {"good", "bad", "error"} : (c # Net => v = "good") /\ Return(c, v)
  \/ \E c \in Checks : Abandon(c) \/ ReturnLate(c)
  \/ \E b \in BOOLEAN : RunWeekly(b) \/ Save(b) \/ Interrupt(b)
  \/ Tick \/ SetBack \/ Stop \/ StopCheckpoint \/ Crash

Spec == Init /\ [][Next]_vars

-----------------------------------------------------------------------------
(* Properties *)

\* A check never runs twice at a time, although an abandoned run may return many
\* ticks later, or never.
OneRunPerCheck == \A c \in Checks : late[c] + Cardinality(waiting \cap {c}) <= 1

\* A check that needs the internet runs only while the last network run of this
\* process found it up, or found it down and /clear ended its condition since: not
\* on a restored condition, cleared or not, not on an unreadable or abandoned run,
\* not before the first one.
InternetKnownUp == \A c \in waiting \cap NeedsInternet : lastNet = "good" \/ (lastNet = "bad" /\ cleared)

\* A slot's weekly job is done once, whatever the clock, restarts and late loads
\* do, unless the process ended before that was saved.
WeeklyOnce == pc = "jobs" /\ loaded /\ ~quiet /\ WeeklyDue(Seeded, now) => LastSlot(now) \notin summaries

\* The hold of the maintenance lock keeps its start across restarts and late
\* loads, and starts anew after a gap, while the clock is not set back.  The one
\* hole: a process that found the lock free before its load continues the stored
\* hold all the same.
HoldKept == loaded /\ backs = 0 => maint = hold \/ freeUnseen
=============================================================================
