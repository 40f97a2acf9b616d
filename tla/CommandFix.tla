------------------------------ MODULE CommandFix ------------------------------
(***************************************************************************)
(* The command check and its fix action (pkg/health/check/command/command.go)*)
(* with the runner's side of it (runner/fix.go): After bad probes in a row   *)
(* take one fix, at most MaxPerHour in a sliding window and not within Grace *)
(* of the last one (a command) or of the target's start (a container).  The  *)
(* run may outlive its tick; the tick takes the records of the fixes that    *)
(* ended, also when the stop interrupts it.  The check runs before the       *)
(* stored state was loaded, too, and a late load replaces what it counted.   *)
(***************************************************************************)
EXTENDS Integers, Sequences, FiniteSets, FiniteSetsExt, SequencesExt

CONSTANTS
  Container,    \* fix.RestartContainer is set
  After, MaxPerHour,
  Hour,         \* fixWindow
  Grace,        \* GraceAfterStart
  LastTime, MaxFixes, MaxBad, MaxEnds   \* bounds; MaxBad on bad probes in a row

VARIABLES
  time, ends, loaded,
  strikes, fixes, lastFix,   \* Check's state; lastFix is {} or the end of the last fix
  run,          \* "idle", "reserved", "fixing"; inFlight when not idle
  saved, at,    \* the strikes and the time of the reservation
  pending,      \* Check.pending
  started,      \* when the target container last started
  tick,         \* "idle", "runs", "ran", "sends", "stopped"
  taken,        \* cycle.fixes
  alerts,       \* Runner.pendingAlerts
  stored,       \* the check's state in the store, NoState before the first checkpoint
  \* history
  count,        \* fixes done, named by their number
  log,          \* the alert log: fixes recorded
  twice,        \* recorded twice
  lost,         \* records a crash took
  times,        \* the time of each fix
  forgot,       \* fixes a late load or a crash made the check forget
  sure,         \* the reservation was made from the loaded state
  earned,       \* bad probes since the last good one or the last fix, MaxBad for more
  newer,        \* there was a good probe or a fix since the last checkpoint
  revived       \* strikes a load brought back from before a good probe or a fix

checkVars == <<strikes, fixes, lastFix, run, saved, at, pending>>
history == <<count, log, twice, lost, times, forgot, sure, earned, newer, revived>>
vars == <<time, ends, loaded, checkVars, started, tick, taken, alerts, stored, history>>

NoState == [strikes |-> -1, fixes |-> <<>>, lastFix |-> {}]

Init ==
  /\ time = 0 /\ ends = 0 /\ loaded = FALSE
  /\ strikes = 0 /\ fixes = <<>> /\ lastFix = {} /\ run = "idle" /\ saved = 0 /\ at = 0 /\ pending = {}
  /\ started = 0 /\ tick = "idle" /\ taken = {} /\ alerts = {}
  /\ stored = NoState
  /\ count = 0 /\ log = {} /\ twice = {} /\ lost = {} /\ times = <<>> /\ forgot = {} /\ sure = FALSE
  /\ earned = 0 /\ newer = FALSE /\ revived = 0

-----------------------------------------------------------------------------
(* The check *)

\* A plausible fault: the window is never pruned, or pruned one too early.
PruneAll(fs) == SelectSeq(fs, LAMBDA t : time - t < Hour - 1)

Prune(fs) == SelectSeq(fs, LAMBDA t : time - t < Hour)

\* reserveFix: strikes, hourly limit and, for a command, the grace of the last fix.
MayFix(n) ==
  /\ n >= After
  /\ run = "idle"
  /\ Len(Prune(fixes)) < MaxPerHour
  /\ Container \/ \A t \in lastFix : time - t >= Grace

\* A plausible fault: the reservation leaves the strikes counted.
KeepStrikes(n) == n

TakeStrikes(n) == 0

\* Two fixes never read the same time from the clock.
Reserve(n) ==
  /\ \A i \in 1..count : times[i] /= time
  /\ strikes' = TakeStrikes(n) /\ saved' = n
  /\ run' = "reserved" /\ at' = time /\ fixes' = Append(Prune(fixes), time) /\ sure' = loaded

\* Run and record: good resets the strikes; unreadable and a probe that cannot be
\* started leave them; bad counts one and takes the fix when it is due.
Probe(verdict) ==
  CASE verdict = "good" ->
         /\ strikes' = 0 /\ earned' = 0 /\ newer' = TRUE /\ revived' = 0
         /\ UNCHANGED <<fixes, run, saved, at, sure>>
    [] verdict = "unreadable" -> UNCHANGED <<strikes, earned, newer, revived, fixes, run, saved, at, sure>>
    [] verdict = "bad" ->
         /\ strikes < MaxBad /\ earned' = Min({earned + 1, MaxBad}) /\ UNCHANGED <<newer, revived>>
         /\ IF MayFix(strikes + 1) THEN Reserve(strikes + 1)
            ELSE /\ strikes' = strikes + 1 /\ UNCHANGED <<run, saved, at, sure>>
                 \* the limit is looked at, and the window pruned, once the strikes are reached
                 /\ fixes' = IF strikes + 1 >= After /\ run = "idle" THEN Prune(fixes) ELSE fixes

\* abortFix: the last entry of this time, and the strikes back.
Without(fs, t) ==
  LET i == Max({j \in DOMAIN fs : fs[j] = t})
  IN IF \E j \in DOMAIN fs : fs[j] = t THEN RemoveAt(fs, i) ELSE fs

\* No runtime, its start time unknown, or it started within the grace.
Abort ==
  /\ run = "reserved" /\ Container
  /\ run' = "idle" /\ strikes' = strikes + saved /\ fixes' = Without(fixes, at)
  /\ UNCHANGED <<time, ends, loaded, lastFix, saved, at, pending, started, tick, taken, alerts, stored, history>>

\* doFix begins.
Fix ==
  /\ run = "reserved" /\ count < MaxFixes
  /\ Container => at - started >= Grace
  /\ run' = "fixing"
  /\ count' = count + 1 /\ times' = Append(times, at)
  /\ earned' = 0 /\ newer' = TRUE /\ revived' = IF loaded /\ ~sure THEN revived ELSE 0
  /\ forgot' = IF sure THEN forgot ELSE 1..count'
  /\ started' = IF Container THEN time ELSE started
  /\ UNCHANGED <<time, ends, loaded, strikes, fixes, lastFix, saved, at, pending, tick, taken, alerts, stored,
                 log, twice, lost, sure>>

\* Done or failed, it is on record.
FixEnds ==
  /\ run = "fixing"
  /\ run' = "idle" /\ lastFix' = {time} /\ pending' = pending \cup {count}
  /\ UNCHANGED <<time, ends, loaded, strikes, fixes, saved, at, started, tick, taken, alerts, stored, history>>

-----------------------------------------------------------------------------
(* The runner *)

\* Times the stored state does not know are forgotten by the next process.
Forgets(st) == {i \in 1..count : ~\E j \in DOMAIN st.fixes : st.fixes[j] = times[i]}

\* Restore, also late: stored state replaces the check's; an empty value is a no-op.
Load ==
  \/ UNCHANGED <<loaded, strikes, fixes, lastFix, forgot, revived>>
  \/ /\ ~loaded /\ loaded' = TRUE /\ stored = NoState
     /\ UNCHANGED <<strikes, fixes, lastFix, forgot, revived>>
  \/ /\ ~loaded /\ loaded' = TRUE /\ stored # NoState
     /\ revived' = IF newer \/ run # "idle" THEN stored.strikes ELSE revived
     /\ strikes' = stored.strikes /\ fixes' = stored.fixes /\ lastFix' = stored.lastFix
     /\ forgot' = forgot \cup Forgets(stored)

BeginTick ==
  /\ tick = "idle" /\ Load
  /\ tick' = "runs"
  /\ UNCHANGED <<time, ends, run, saved, at, pending, started, taken, alerts, stored, count, log, twice, lost,
                 times, sure, earned, newer>>

\* The check is run unless a run of an earlier tick is still going.
RunCheck ==
  /\ tick = "runs" /\ run = "idle"
  /\ \E verdict \in {"good", "bad", "unreadable"} : Probe(verdict)
  /\ tick' = "ran"
  /\ UNCHANGED <<time, ends, loaded, lastFix, pending, started, taken, alerts, stored, count, log, twice, lost,
                 times, forgot>>

\* A plausible fault: TakeFixes leaves the records in place.
LeaveThere == pending

Cleared == {}

\* The runs ended, or were given up: takeFixes.
TakeFixes ==
  /\ tick \in {"runs", "ran"}
  /\ tick' = "sends" /\ taken' = pending /\ pending' = Cleared
  /\ UNCHANGED <<time, ends, loaded, strikes, fixes, lastFix, run, saved, at, started, alerts, stored, history>>

Record(set) == log' = log \cup set /\ twice' = twice \cup (log \cap set)

State == [strikes |-> strikes, fixes |-> fixes, lastFix |-> lastFix]

\* checkpoint: records wait in pendingAlerts until the state was loaded.
Checkpoint ==
  /\ tick = "sends"
  /\ tick' = "idle" /\ taken' = {}
  /\ IF loaded THEN Record(alerts \cup taken) /\ alerts' = {} /\ stored' = State /\ newer' = FALSE
     ELSE alerts' = alerts \cup taken /\ UNCHANGED <<log, twice, stored, newer>>
  /\ UNCHANGED <<time, ends, loaded, checkVars, started, count, lost, times, forgot, sure, earned,
                 revived>>

\* Where a clean stop leaves the process: nothing pending but what a run still does.
Fresh ==
  /\ loaded' = FALSE /\ strikes' = 0 /\ fixes' = <<>> /\ lastFix' = {} /\ run' = "idle" /\ saved' = 0 /\ at' = 0
  /\ pending' = {} /\ tick' = "idle" /\ taken' = {} /\ alerts' = {}
  /\ ends' = ends + 1 /\ sure' = FALSE

\* saveInterruptedFixes: the stop interrupts the runs; the fixes that ended are
\* recorded, the checks' own state is left as last saved.
Interrupt ==
  /\ tick \in {"runs", "ran"} /\ ends < MaxEnds
  /\ tick' = "stopped" /\ pending' = Cleared
  /\ IF loaded THEN Record(alerts \cup pending) /\ alerts' = {} ELSE alerts' = alerts \cup pending /\ UNCHANGED <<log, twice>>
  /\ UNCHANGED <<time, ends, loaded, strikes, fixes, lastFix, run, saved, at, started, taken, stored, count, lost,
                 times, forgot, sure, earned, newer, revived>>

\* The stop's own checkpoint takes the check's state after all; a fix under way is lost.
Stop ==
  /\ tick \in {"idle", "stopped"} /\ ends < MaxEnds
  /\ IF loaded THEN stored' = State /\ newer' = FALSE /\ Record(alerts) ELSE UNCHANGED <<stored, newer, log, twice>>
  /\ lost' = lost \cup pending \cup (IF loaded THEN {} ELSE alerts) \cup (IF run = "fixing" THEN {count} ELSE {})
  /\ forgot' = forgot \cup Forgets(stored')
  /\ Fresh
  /\ UNCHANGED <<time, started, count, times, earned, revived>>

Crash ==
  /\ ends < MaxEnds
  /\ lost' = lost \cup pending \cup taken \cup alerts \cup (IF run = "fixing" THEN {count} ELSE {})
  /\ forgot' = forgot \cup Forgets(stored)
  /\ Fresh
  /\ UNCHANGED <<time, started, stored, count, log, twice, times, earned, newer, revived>>

Pass ==
  /\ time < LastTime /\ time' = time + 1
  /\ UNCHANGED <<ends, loaded, checkVars, started, tick, taken, alerts, stored, history>>

Next ==
  \/ Abort \/ Fix \/ FixEnds \/ BeginTick \/ RunCheck \/ TakeFixes \/ Checkpoint
  \/ Interrupt \/ Stop \/ Crash \/ Pass

Spec == Init /\ [][Next]_vars

-----------------------------------------------------------------------------

Ended == 1..(IF run = "fixing" THEN count - 1 ELSE count)

TypeOK ==
  /\ time \in 0..LastTime /\ run \in {"idle", "reserved", "fixing"}
  /\ tick \in {"idle", "runs", "ran", "sends", "stopped"}
  /\ Len(times) = count /\ log \subseteq 1..count

\* Every fix that was done is recorded, once: it waits with the check, the tick or the
\* runner, or it is in the alert log, whichever tick the run outlived; only a process
\* that ended with it still in memory loses it.
FixesLogged ==
  /\ twice = {}
  /\ \A i \in Ended : i \in pending \cup taken \cup alerts \cup log \cup lost

\* Of the fixes the check's own records know, no window of an hour holds more than
\* MaxPerHour, over reservations taken back, late loads and restarts.
LimitKept ==
  \A i \in 1..count :
    Cardinality({j \in (1..i) \ forgot : times[i] - times[j] < Hour}) <= MaxPerHour

\* A fix is earned: it takes After bad probes since the last good one and since the
\* last fix, over late loads, stops and crashes.  A load may bring strikes back from
\* before a good probe or a fix that the stored state does not know: those, and no
\* others, count besides.
FixEarned == count' > count => earned + revived >= After
==============================================================================
