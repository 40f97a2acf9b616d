------------------------------ MODULE MCRunner ------------------------------
(****************************************************************************)
(* The parts around the tick on small instances: the memory guard's records *)
(* and culprits, the checker errors, the store and its history, the stop of *)
(* the daemon, the command menu and the heartbeat. A behaviour is about one *)
(* of them (`part`); parts share the variables that bear the same name.     *)
(****************************************************************************)
EXTENDS Naturals

VARIABLES
  part,
  \* of several parts
  now, ends, errs, written, dirty, time, loaded, job, degraded, closed,
  \* GuardRecords
  fails, stopping, kv, mode, phase, recs, acting, lateCh, states, saver, records, late, started,
  restored, version, loader, writer, snap,
  \* Culprits
  nextServices, entries, log,
  \* CheckerErrors
  reports, outages, marks, emailed, step, exported, stored, saveReported, health, healthOK, failSince,
  told, saveShown, mailLost, staleMark, noticed,
  \* StateStore
  db, st, openMu, pc, early, seq, starts, pend, given,
  \* Retention
  crashes, pending, samples, daily,
  \* Daemon
  life, hook, entered, left, bot, polling, sawPolling, cancelled, handler, tick, guard, guardErrs, cut,
  held, pushedAfter,
  \* Routes
  allow, builtins, script, routes, menu, cleared, todo, published, failed, ran,
  \* Heartbeat
  ticks, spoils, file, hidden, lock, proc, child, asked, beat

G == INSTANCE GuardRecords WITH
       Window <- 1, MaxNow <- 3, MaxEnds <- 1, MaxFails <- 0

F == INSTANCE GuardRecords WITH
       Window <- 1, MaxNow <- 2, MaxEnds <- 1, MaxFails <- 1

C == INSTANCE Culprits WITH
       Services <- {1, 2}, PathsOf <- <<{"a", "b", "self"}, {"c"}>>, Foreign <- {"self"},
       CulpritWindow <- 4, CulpritMinGrowth <- 1, ServiceInterval <- 2, Sizes <- {1, 2, 3},
       LastTime <- 6

E == INSTANCE CheckerErrors WITH
       ErrorWindow <- 2, After <- 1, LastTime <- 4, LastEnd <- 1, LastReport <- 3, LastOutage <- 0

O == INSTANCE CheckerErrors WITH
       ErrorWindow <- 2, After <- 1, LastTime <- 4, LastEnd <- 1, LastReport <- 0, LastOutage <- 3

S == INSTANCE StateStore WITH
       UpsertKeys <- {"a", "b"}, GuardKey <- "guard", MaxSeq <- 4, MaxStarts <- 2

H == INSTANCE Retention WITH
       DayLength <- 2, SampleKeep <- 2, StatsWindow <- 1, SampleValues <- {1, 2}, MaxTime <- 6,
       MaxCrash <- 1

D == INSTANCE Daemon WITH
       StopTimeout <- 8, SchedulerStop <- 2, GuardStop <- 2, SaveGrace <- 1, CheckerTimeout <- 6,
       ApiTimeout <- 12

M == INSTANCE Routes WITH
       Users <- {1, 2}, Chats <- {11}, BuiltinNames <- {1, 3}, ScriptNames <- {1, 2}, ScriptMax <- 2,
       MenuMax <- 2

B == INSTANCE Heartbeat WITH
       Commands <- {1}, Windows <- {0, 1, 2}, LastTime <- 4, MaxTicks <- 3, MaxSpoils <- 2

guardRecordsVars == <<fails, stopping, kv, mode, phase, recs, acting, lateCh, states, saver, records,
                       late, started, restored, version, loader, writer, snap>>
culpritsVars == <<nextServices, entries, log>>
checkerErrorsVars == <<reports, outages, marks, emailed, step, exported, stored, saveReported, health,
                        healthOK, failSince, told, saveShown, mailLost, staleMark, noticed>>
stateStoreVars == <<db, st, openMu, pc, early, seq, starts, pend, given>>
retentionVars == <<crashes, pending, samples, daily>>
daemonVars == <<life, hook, entered, left, bot, polling, sawPolling, cancelled, handler, tick, guard,
                 guardErrs, cut, held, pushedAfter>>
routesVars == <<allow, builtins, script, routes, menu, cleared, todo, published, failed, ran>>
heartbeatVars == <<ticks, spoils, file, hidden, lock, proc, child, asked, beat>>

sharedVars == <<now, ends, errs, written, dirty, time, loaded, job, degraded, closed>>

vars == <<part, sharedVars, guardRecordsVars, culpritsVars, checkerErrorsVars, stateStoreVars, retentionVars, daemonVars,
          routesVars, heartbeatVars>>

\* The variables of a part that a behaviour is not about hold nothing.
NoGuardRecords == fails = 0 /\ stopping = 0 /\ kv = 0 /\ mode = 0 /\ phase = 0 /\ recs = 0 /\
                  acting = 0 /\ lateCh = 0 /\ states = 0 /\ saver = 0 /\ records = 0 /\ late = 0 /\
                  started = 0 /\ restored = 0 /\ version = 0 /\ loader = 0 /\ writer = 0 /\ snap = 0

NoCulprits == nextServices = 0 /\ entries = 0 /\ log = 0

NoCheckerErrors == reports = 0 /\ outages = 0 /\ marks = 0 /\ emailed = 0 /\ step = 0 /\ exported = 0 /\
                   stored = 0 /\ saveReported = 0 /\ health = 0 /\ healthOK = 0 /\ failSince = 0 /\
                   told = 0 /\ saveShown = 0 /\ mailLost = 0 /\ staleMark = 0 /\ noticed = 0

NoStateStore == db = 0 /\ st = 0 /\ openMu = 0 /\ pc = 0 /\ early = 0 /\ seq = 0 /\ starts = 0 /\
                pend = 0 /\ given = 0

NoRetention == crashes = 0 /\ pending = 0 /\ samples = 0 /\ daily = 0

NoDaemon == life = 0 /\ hook = 0 /\ entered = 0 /\ left = 0 /\ bot = 0 /\ polling = 0 /\
            sawPolling = 0 /\ cancelled = 0 /\ handler = 0 /\ tick = 0 /\ guard = 0 /\ guardErrs = 0 /\
            cut = 0 /\ held = 0 /\ pushedAfter = 0

NoRoutes == allow = 0 /\ builtins = 0 /\ script = 0 /\ routes = 0 /\ menu = 0 /\ cleared = 0 /\
            todo = 0 /\ published = 0 /\ failed = 0 /\ ran = 0

NoHeartbeat == ticks = 0 /\ spoils = 0 /\ file = 0 /\ hidden = 0 /\ lock = 0 /\ proc = 0 /\ child = 0 /\
               asked = 0 /\ beat = 0

Init ==
  \/ /\ ((part = "guard" /\ G!Init) \/ (part = "guardFails" /\ F!Init))
     /\ NoCulprits /\ NoCheckerErrors /\ NoStateStore /\ NoRetention /\ NoDaemon /\ NoRoutes /\
        NoHeartbeat
     /\ time = 0 /\ loaded = 0 /\ job = 0 /\ degraded = 0 /\ closed = 0
  \/ /\ part = "culprit" /\ C!Init
     /\ NoGuardRecords /\ NoCheckerErrors /\ NoStateStore /\ NoRetention /\ NoDaemon /\ NoRoutes /\
        NoHeartbeat
     /\ now = 0 /\ ends = 0 /\ errs = 0 /\ written = 0 /\ dirty = 0 /\ loaded = 0 /\ job = 0 /\
        degraded = 0 /\ closed = 0
  \/ /\ ((part = "reports" /\ E!Init) \/ (part = "outages" /\ O!Init))
     /\ NoGuardRecords /\ NoCulprits /\ NoStateStore /\ NoRetention /\ NoDaemon /\ NoRoutes /\
        NoHeartbeat
     /\ errs = 0 /\ written = 0 /\ dirty = 0 /\ time = 0 /\ closed = 0
  \/ /\ part = "store" /\ S!Init
     /\ NoGuardRecords /\ NoCulprits /\ NoCheckerErrors /\ NoRetention /\ NoDaemon /\ NoRoutes /\
        NoHeartbeat
     /\ now = 0 /\ ends = 0 /\ errs = 0 /\ written = 0 /\ dirty = 0 /\ time = 0 /\ job = 0
  \/ /\ part = "history" /\ H!Init
     /\ NoGuardRecords /\ NoCulprits /\ NoCheckerErrors /\ NoStateStore /\ NoDaemon /\ NoRoutes /\
        NoHeartbeat
     /\ now = 0 /\ ends = 0 /\ errs = 0 /\ dirty = 0 /\ loaded = 0 /\ job = 0 /\ degraded = 0 /\
        closed = 0
  \/ /\ part = "daemon" /\ D!Init
     /\ NoGuardRecords /\ NoCulprits /\ NoCheckerErrors /\ NoStateStore /\ NoRetention /\ NoRoutes /\
        NoHeartbeat
     /\ ends = 0 /\ written = 0 /\ time = 0 /\ degraded = 0
  \/ /\ part = "menu" /\ M!Init
     /\ NoGuardRecords /\ NoCulprits /\ NoCheckerErrors /\ NoStateStore /\ NoRetention /\ NoDaemon /\
        NoHeartbeat
     /\ now = 0 /\ ends = 0 /\ errs = 0 /\ written = 0 /\ dirty = 0 /\ time = 0 /\ loaded = 0 /\
        job = 0 /\ degraded = 0 /\ closed = 0
  \/ /\ part = "heartbeat" /\ B!Init
     /\ NoGuardRecords /\ NoCulprits /\ NoCheckerErrors /\ NoStateStore /\ NoRetention /\ NoDaemon /\
        NoRoutes
     /\ now = 0 /\ ends = 0 /\ errs = 0 /\ written = 0 /\ dirty = 0 /\ loaded = 0 /\ job = 0 /\
        degraded = 0 /\ closed = 0

Next ==
  \/ /\ part = "guard" /\ G!Next
     /\ UNCHANGED <<part, culpritsVars, checkerErrorsVars, stateStoreVars, retentionVars, daemonVars,
                    routesVars, heartbeatVars, time, loaded, job, degraded, closed>>
  \/ /\ part = "guardFails" /\ F!Next
     /\ UNCHANGED <<part, culpritsVars, checkerErrorsVars, stateStoreVars, retentionVars, daemonVars,
                    routesVars, heartbeatVars, time, loaded, job, degraded, closed>>
  \/ /\ part = "culprit" /\ C!Next
     /\ UNCHANGED <<part, guardRecordsVars, checkerErrorsVars, stateStoreVars, retentionVars, daemonVars,
                    routesVars, heartbeatVars, now, ends, errs, written, dirty, loaded, job, degraded,
                    closed>>
  \/ /\ part = "reports" /\ E!Next
     /\ UNCHANGED <<part, guardRecordsVars, culpritsVars, stateStoreVars, retentionVars, daemonVars,
                    routesVars, heartbeatVars, errs, written, dirty, time, closed>>
  \/ /\ part = "outages" /\ O!Next
     /\ UNCHANGED <<part, guardRecordsVars, culpritsVars, stateStoreVars, retentionVars, daemonVars,
                    routesVars, heartbeatVars, errs, written, dirty, time, closed>>
  \/ /\ part = "store" /\ S!Next
     /\ UNCHANGED <<part, guardRecordsVars, culpritsVars, checkerErrorsVars, retentionVars, daemonVars,
                    routesVars, heartbeatVars, now, ends, errs, written, dirty, time, job>>
  \/ /\ part = "history" /\ H!Next
     /\ UNCHANGED <<part, guardRecordsVars, culpritsVars, checkerErrorsVars, stateStoreVars, daemonVars,
                    routesVars, heartbeatVars, now, ends, errs, dirty, loaded, job, degraded, closed>>
  \/ /\ part = "daemon" /\ D!Next
     /\ UNCHANGED <<part, guardRecordsVars, culpritsVars, checkerErrorsVars, stateStoreVars, retentionVars,
                    routesVars, heartbeatVars, ends, written, time, degraded>>
  \/ /\ part = "menu" /\ M!Next
     /\ UNCHANGED <<part, guardRecordsVars, culpritsVars, checkerErrorsVars, stateStoreVars, retentionVars,
                    daemonVars, heartbeatVars, now, ends, errs, written, dirty, time, loaded, job,
                    degraded, closed>>
  \/ /\ part = "heartbeat" /\ B!Next
     /\ UNCHANGED <<part, guardRecordsVars, culpritsVars, checkerErrorsVars, stateStoreVars, retentionVars,
                    daemonVars, routesVars, now, ends, errs, written, dirty, loaded, job, degraded,
                    closed>>

Spec == Init /\ [][Next]_vars

-----------------------------------------------------------------------------
(* Properties *)

\* The guard never forgets an action its repeat window still counts: not in the store, not in
\* a loop whose records came late, not when it stops while an action ends.  And the culprit it
\* names grew the most of those that can be compared.
GuardRemembers ==
  /\ [](part = "guard" => G!TypeOK /\ G!LoopKnowsStored /\ G!EndsWritten)
  /\ [](part = "guardFails" => F!TypeOK /\ F!LoopKnowsStored /\ F!EndsWritten)
  /\ [][part = "guard" => G!StoredStays]_vars
  /\ [][part = "guardFails" => F!StoredStays]_vars
  /\ [](part = "culprit" => C!CulpritIsTheGreatest)

\* A checker error reaches a channel again only after its window or a recovery; a failing store
\* is told, a second outage too, and so is its recovery on every channel that showed the
\* failure, unless its own email fails; and a Telegram failure counts as reported only by an email about that failure.
ErrorsTold ==
  /\ [](part = "reports" => E!TypeOK /\ E!RecoveryTold /\ E!FailureTold /\ E!OwnNotice)
  /\ [](part = "outages" => O!TypeOK /\ O!RecoveryTold /\ O!FailureTold /\ O!OwnNotice)
  /\ [][part = "reports" => E!Spaced]_vars
  /\ [][part = "outages" => O!Spaced]_vars

\* What a failed write leaves is in the next successful one, and a closed store is never opened
\* again; and a day's figures count every sample exactly once, whenever the process ends.
StoreKeeps ==
  /\ part = "store" => S!TypeOK /\ S!NothingLostInOutage /\ S!ClosedForGood
  /\ part = "history" => H!HistoryExact

\* A stop that meets no call nobody can end finishes inside its timeout with the state
\* written, the store is closed only when nothing writes to it, and a stop ends the polling
\* for Telegram updates that a connecting goroutine begins meanwhile.
StopsInOrder == part = "daemon" => D!TypeOK /\ D!SavedInTime /\ D!ClosedWhenQuiet /\ D!PollingIsSeen

\* A command the menu lists runs where the menu is shown, by the handler that declared it, and
\* who may run commands sees the menu.  And the heartbeat file has the last tick and the last
\* planned window, whichever process was killed while it changed the file; nobody waits for a
\* lock whose owner has left.
CommandsAnswer ==
  /\ part = "menu" => M!MenuIsTrue
  /\ part = "heartbeat" => B!FileIsCurrent /\ B!LockIsFreed
=============================================================================
