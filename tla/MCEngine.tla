------------------------------ MODULE MCEngine ------------------------------
(***************************************************************************)
(* The threshold engine, the runner's schedules and the notifier when only  *)
(* the tick calls it, on small instances.  `part` says what a behaviour is  *)
(* about: the engine, the runs of checks ("runs"), the weekly job and the   *)
(* maintenance lock ("jobs"), or a streak's SMS with a send that hangs      *)
(* ("late") or with messages that only go by SMS ("alone"); the other       *)
(* variables stay as they were at the start.                                *)
(***************************************************************************)
EXTENDS Engine

VARIABLES
  part,
  \* Schedule
  clock, backs, ends, ticks, stopping, merged, pc, before, quiet, offline, todo, waiting, read, lastRun, running,
  late, networkUnknown, netBad, maint, maintObserved, weeklyLast, saved, lastNet, cleared, summaries, hold,
  freeUnseen,
  \* Notifier
  queue, nextID, down, failing, telegramOK, smsProblems, resolvedBefore, undelivered, flights,
  settlers, cond, hang, results, act, savedQueue, queueLoaded, msgs, marked, sent, afterEnd,
  byFallback, robbed, dropped, crashed, hangs, restarts, flushes

Intervals == [c \in {"network", "site", "disk"} |-> IF c = "disk" THEN 1 ELSE 2]

R == INSTANCE Schedule WITH
       Net <- "network", HasNetwork <- TRUE, Others <- <<"site", "disk">>, Interval <- Intervals,
       NeedsInternet <- {"site"}, DependsOnNet <- {"disk"}, PauseInQuiet <- {"site"}, Slack <- 0,
       Concurrency <- 1, Week <- 100, Gap <- 1, Probes <- {"free"}, GraceTicks <- 1,
       MaxNow <- 3, MaxBack <- 0, MaxEnds <- 1, MaxTicks <- 3,
       now <- clock, loaded <- merged, stored <- saved

J == INSTANCE Schedule WITH
       Net <- "network", HasNetwork <- FALSE, Others <- <<>>, Interval <- Intervals,
       NeedsInternet <- {}, DependsOnNet <- {}, PauseInQuiet <- {}, Slack <- 0,
       Concurrency <- 1, Week <- 3, Gap <- 1, Probes <- {"free", "held", "error"}, GraceTicks <- 1,
       MaxNow <- 7, MaxBack <- 1, MaxEnds <- 1, MaxTicks <- 4,
       now <- clock, loaded <- merged, stored <- saved

Late == INSTANCE Notifier WITH
          Actors <- {"tick"}, Modes <- {"tlg-or-sms"}, MaxQueue <- 2, MaxMsgs <- 3, MaxHangs <- 1,
          MaxEvents <- 4, MaxRestarts <- 0, MaxFlushes <- 0,
          offline <- down, stored <- savedQueue, loaded <- queueLoaded

Alone == INSTANCE Notifier WITH
           Actors <- {"tick"}, Modes <- {"sms"}, MaxQueue <- 2, MaxMsgs <- 3, MaxHangs <- 0,
           MaxEvents <- 3, MaxRestarts <- 0, MaxFlushes <- 1,
           offline <- down, stored <- savedQueue, loaded <- queueLoaded

ASSUME PartsAssumption == Late!NotifierAssumption /\ Alone!NotifierAssumption

scheduleVars ==
  <<clock, backs, ends, ticks, stopping, merged, pc, before, quiet, offline, todo, waiting, read, lastRun, running,
    late, networkUnknown, netBad, maint, maintObserved, weeklyLast, saved, lastNet, cleared, summaries, hold,
    freeUnseen>>

notifierVars ==
  <<queue, nextID, down, failing, telegramOK, smsProblems, resolvedBefore, undelivered, flights,
    settlers, cond, hang, results, act, savedQueue, queueLoaded, msgs, marked, sent, afterEnd,
    byFallback, robbed, dropped, crashed, hangs, restarts, flushes>>

PartsInit ==
  /\ Init /\ Late!Init
  /\ \/ part \in {"engine", "runs", "late", "alone"} /\ R!Init
     \/ part = "jobs" /\ J!Init

PartsNext ==
  \/ part = "engine" /\ Next /\ UNCHANGED <<part, scheduleVars, notifierVars>>
  \/ part = "runs" /\ R!Next /\ UNCHANGED <<part, vars, notifierVars>>
  \/ part = "jobs" /\ J!Next /\ UNCHANGED <<part, vars, notifierVars>>
  \/ part = "late" /\ Late!Next /\ UNCHANGED <<part, vars, scheduleVars>>
  \/ part = "alone" /\ Alone!Next /\ UNCHANGED <<part, vars, scheduleVars>>

PartsSpec == PartsInit /\ [][PartsNext]_<<part, vars, scheduleVars, notifierVars>>

-----------------------------------------------------------------------------
(* Properties *)

\* A check never runs twice at once, although a run may outlive its tick; checks that need the
\* internet run only when the last network run read it as up, or as down and /clear has ended
\* its condition since; a weekly slot is summarised once,
\* over restarts, late loads and a clock that is set back; and a maintenance hold keeps its
\* beginning, as far as the probes and the stored hold can tell.
SchedulesKept ==
  /\ part = "runs" => R!TypeOK /\ R!OneRunPerCheck /\ R!InternetKnownUp /\ R!WeeklyOnce /\ R!HoldKept
  /\ part = "jobs" => J!TypeOK /\ J!OneRunPerCheck /\ J!InternetKnownUp /\ J!WeeklyOnce /\ J!HoldKept

\* "Once resolved, the PROBLEM is news no longer": with the tick alone, however late a send
\* that hung returns, a PROBLEM that the fallback sent is followed by its RESOLVED by SMS, and
\* no PROBLEM goes out by SMS after its own RESOLVED went out by SMS.
ResolvedIsLast == Late!ResolvedFollowsBySMS /\ Late!NoProblemAfterResolved
=============================================================================
