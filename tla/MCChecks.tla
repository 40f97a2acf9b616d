------------------------------ MODULE MCChecks ------------------------------
(****************************************************************************)
(* The checks on small instances: drives and their self-tests, kernel       *)
(* messages, temperatures, containers, memory growth, the memory-limit      *)
(* audit, command checks with their fixes, file freshness and HTTP          *)
(* endpoints. A behaviour is about one of them (`part`); parts share the    *)
(* variables that bear the same name.                                       *)
(****************************************************************************)
EXTENDS Naturals

\* Two chips of one name; one of them beside other sensors; two sensors of one chip.
ChipLayouts ==
  { {<<1, "Tctl">>, <<2, "Tctl">>},
    {<<2, "Tctl">>, <<2, "core">>, <<0, "sys">>},
    {<<1, "Tctl">>, <<1, "Tdie">>, <<2, "Tctl">>} }

VARIABLES
  part,
  \* of several parts
  time, ends, loaded, pc, at, missing, stored, lost, reader, clears, log, seen, told, blurred, now,
  mark, out, unsaved, twice, open, drops, count, run,
  \* Drives
  changes, rises, place, counter, include, stopping, bases, credit, lastNodes, orphanSince,
  orphanForced, probes, due, abandoned, result, heard, stuck, woken,
  \* SelfTest
  hours, tests, head, okAt, shown, adopted, passed,
  \* Kernel
  boot, fails, logs, first, maxSeq, firstSeq, inbox, restored, cur, ep, excused, message, savedMessage,
  \* Temps
  reads, downs, listed, device, since, raisedBy, ended, dropped,
  \* Containers
  box, prev, up, deaf,
  \* Growth
  excluded, ring, opened, gap, wavered,
  \* LimitAudit
  known, runs, cond, announced, missed, late,
  \* CommandFix
  strikes, fixes, lastFix, saved, pending, started, tick, taken, alerts, times, forgot, sure, earned,
  newer, revived,
  \* Freshness
  stamp, readOK, kv, verdict,
  \* HttpCheck
  conf, left, limit, cancelled, hops, origin, trace, probe, container, reading, erred, sent, facts

D == INSTANCE Drives WITH
       Serials <- {1, 2, 3}, DevNodes <- {1, 2}, Excluded <- {2}, External <- {},
       IncludeChoices <- {{}}, ForceAfter <- 1, LastTime <- 2, LastChange <- 3, LastRise <- 0,
       LastEnd <- 0

X == INSTANCE Drives WITH
       Serials <- {1, 2}, DevNodes <- {1, 2}, Excluded <- {}, External <- {2},
       IncludeChoices <- {{}, {2}}, ForceAfter <- 2, LastTime <- 1, LastChange <- 1, LastRise <- 1,
       LastEnd <- 1

S == INSTANCE SelfTest WITH
       Ata <- TRUE, HoursWrap <- 8, FirstHour <- 6, LogSize <- 3, HeadSize <- 2, Codes <- {0, 7, 15},
       LastHour <- 2, LastTest <- 3, LastTime <- 2, LastClear <- 1

K == INSTANCE Kernel WITH
       Kinds <- {"err", "plain"}, Still <- 1, Quiet <- 2, MaxInbox <- 1, LastTime <- 2, MaxRecords <- 3,
       MaxOver <- 1, MaxBoots <- 2, MaxEnds <- 0, MaxFails <- 0

B == INSTANCE Kernel WITH
       Kinds <- {"err", "kill", "plain"}, Still <- 1, Quiet <- 2, MaxInbox <- 1, LastTime <- 1, MaxRecords <- 2,
       MaxOver <- 1, MaxBoots <- 2, MaxEnds <- 1, MaxFails <- 1

T == INSTANCE Temps WITH
       Layouts <- ChipLayouts, MaxRead <- 2, MaxDown <- 1

C == INSTANCE Containers WITH
       Names <- {1}, Threshold <- 1, LastTime <- 2, MaxCount <- 1, MaxDrops <- 1, MaxEnds <- 0

R == INSTANCE Containers WITH
       Names <- {1}, Threshold <- 1, LastTime <- 1, MaxCount <- 1, MaxDrops <- 0, MaxEnds <- 1

G == INSTANCE Growth WITH
       Window <- 3, Warn <- 4, Sizes <- {1, 3, 5}, LastTime <- 5, MaxEnds <- 1

L == INSTANCE LimitAudit WITH
       Names <- {1, 2}, ShownMax <- 2, RunsMax <- 2, MaxRun <- 6, MaxClear <- 1, MaxEnds <- 1

F == INSTANCE CommandFix WITH
       Container <- TRUE, After <- 2, MaxPerHour <- 1, Hour <- 2, Grace <- 1, LastTime <- 3,
       MaxFixes <- 2, MaxBad <- 3, MaxEnds <- 1

N == INSTANCE CommandFix WITH
       Container <- FALSE, After <- 2, MaxPerHour <- 1, Hour <- 2, Grace <- 1, LastTime <- 2,
       MaxFixes <- 2, MaxBad <- 3, MaxEnds <- 1

A == INSTANCE Freshness WITH
       MaxAge <- 1, FutureTolerance <- 1, LastTime <- 3, MaxEnds <- 1

H == INSTANCE HttpCheck WITH
       Timeout <- 4, Budgets <- {2, 3, 5, 12}, Margin <- 2, MarginShare <- 5, MaxRedirects <- 2

drivesVars == <<changes, rises, place, counter, include, stopping, bases, credit, lastNodes,
                 orphanSince, orphanForced, probes, due, abandoned, result, heard, stuck, woken>>
selfTestVars == <<hours, tests, head, okAt, shown, adopted, passed>>
kernelVars == <<boot, fails, logs, first, maxSeq, firstSeq, inbox, restored, cur, ep, excused, message,
                 savedMessage>>
tempsVars == <<reads, downs, listed, device, since, raisedBy, ended, dropped>>
containersVars == <<box, prev, up, deaf>>
growthVars == <<excluded, ring, opened, gap, wavered>>
limitAuditVars == <<known, runs, cond, announced, missed, late>>
commandFixVars == <<strikes, fixes, lastFix, saved, pending, started, tick, taken, alerts, times,
                     forgot, sure, earned, newer, revived>>
freshnessVars == <<stamp, readOK, kv, verdict>>
httpCheckVars == <<conf, left, limit, cancelled, hops, origin, trace, probe, container, reading, erred,
                    sent, facts>>

sharedVars == <<time, ends, loaded, pc, at, missing, stored, lost, reader, clears, log, seen, told,
                blurred, now, mark, out, unsaved, twice, open, drops, count, run>>

vars == <<part, sharedVars, drivesVars, selfTestVars, kernelVars, tempsVars, containersVars, growthVars, limitAuditVars,
          commandFixVars, freshnessVars, httpCheckVars>>

\* The variables of a part that a behaviour is not about hold nothing.
NoDrives == changes = 0 /\ rises = 0 /\ place = 0 /\ counter = 0 /\ include = 0 /\ stopping = 0 /\
            bases = 0 /\ credit = 0 /\ lastNodes = 0 /\ orphanSince = 0 /\ orphanForced = 0 /\
            probes = 0 /\ due = 0 /\ abandoned = 0 /\ result = 0 /\ heard = 0 /\ stuck = 0 /\ woken = 0

NoSelfTest == hours = 0 /\ tests = 0 /\ head = 0 /\ okAt = 0 /\ shown = 0 /\ adopted = 0 /\ passed = 0

NoKernel == boot = 0 /\ fails = 0 /\ logs = 0 /\ first = 0 /\ maxSeq = 0 /\ firstSeq = 0 /\ inbox = 0 /\
            restored = 0 /\ cur = 0 /\ ep = 0 /\ excused = 0 /\ message = 0 /\ savedMessage = 0

NoTemps == reads = 0 /\ downs = 0 /\ listed = 0 /\ device = 0 /\ since = 0 /\ raisedBy = 0 /\
           ended = 0 /\ dropped = 0

NoContainers == box = 0 /\ prev = 0 /\ up = 0 /\ deaf = 0

NoGrowth == excluded = 0 /\ ring = 0 /\ opened = 0 /\ gap = 0 /\ wavered = 0

NoLimitAudit == known = 0 /\ runs = 0 /\ cond = 0 /\ announced = 0 /\ missed = 0 /\ late = 0

NoCommandFix == strikes = 0 /\ fixes = 0 /\ lastFix = 0 /\ saved = 0 /\ pending = 0 /\ started = 0 /\
                tick = 0 /\ taken = 0 /\ alerts = 0 /\ times = 0 /\ forgot = 0 /\ sure = 0 /\ earned = 0 /\
                newer = 0 /\ revived = 0

NoFreshness == stamp = 0 /\ readOK = 0 /\ kv = 0 /\ verdict = 0

NoHttpCheck == conf = 0 /\ left = 0 /\ limit = 0 /\ cancelled = 0 /\ hops = 0 /\ origin = 0 /\
               trace = 0 /\ probe = 0 /\ container = 0 /\ reading = 0 /\ erred = 0 /\ sent = 0 /\
               facts = 0

Init ==
  \/ /\ ((part = "drives" /\ D!Init) \/ (part = "external" /\ X!Init))
     /\ NoSelfTest /\ NoKernel /\ NoTemps /\ NoContainers /\ NoGrowth /\ NoLimitAudit /\ NoCommandFix /\
        NoFreshness /\ NoHttpCheck
     /\ clears = 0 /\ log = 0 /\ seen = 0 /\ told = 0 /\ blurred = 0 /\ now = 0 /\ mark = 0 /\
        out = 0 /\ unsaved = 0 /\ twice = 0 /\ open = 0 /\ drops = 0 /\ count = 0 /\ run = 0
  \/ /\ part = "tests" /\ S!Init
     /\ NoDrives /\ NoKernel /\ NoTemps /\ NoContainers /\ NoGrowth /\ NoLimitAudit /\ NoCommandFix /\
        NoFreshness /\ NoHttpCheck
     /\ time = 0 /\ ends = 0 /\ loaded = 0 /\ pc = 0 /\ at = 0 /\ missing = 0 /\ stored = 0 /\
        lost = 0 /\ reader = 0 /\ now = 0 /\ mark = 0 /\ out = 0 /\ unsaved = 0 /\ twice = 0 /\
        open = 0 /\ drops = 0 /\ count = 0 /\ run = 0
  \/ /\ ((part = "kernel" /\ K!Init) \/ (part = "boots" /\ B!Init))
     /\ NoDrives /\ NoSelfTest /\ NoTemps /\ NoContainers /\ NoGrowth /\ NoLimitAudit /\ NoCommandFix /\
        NoFreshness /\ NoHttpCheck
     /\ time = 0 /\ loaded = 0 /\ pc = 0 /\ at = 0 /\ missing = 0 /\ clears = 0 /\ log = 0 /\
        seen = 0 /\ blurred = 0 /\ open = 0 /\ drops = 0 /\ count = 0 /\ run = 0
  \/ /\ part = "temps" /\ T!Init
     /\ NoDrives /\ NoSelfTest /\ NoKernel /\ NoContainers /\ NoGrowth /\ NoLimitAudit /\
        NoCommandFix /\ NoFreshness /\ NoHttpCheck
     /\ time = 0 /\ ends = 0 /\ at = 0 /\ missing = 0 /\ lost = 0 /\ reader = 0 /\ clears = 0 /\
        log = 0 /\ told = 0 /\ blurred = 0 /\ now = 0 /\ mark = 0 /\ unsaved = 0 /\ twice = 0 /\
        drops = 0 /\ count = 0 /\ run = 0
  \/ /\ ((part = "crashes" /\ C!Init) \/ (part = "restarts" /\ R!Init))
     /\ NoDrives /\ NoSelfTest /\ NoKernel /\ NoTemps /\ NoGrowth /\ NoLimitAudit /\ NoCommandFix /\
        NoFreshness /\ NoHttpCheck
     /\ pc = 0 /\ at = 0 /\ missing = 0 /\ lost = 0 /\ reader = 0 /\ clears = 0 /\ log = 0 /\
        seen = 0 /\ told = 0 /\ blurred = 0 /\ now = 0 /\ mark = 0 /\ unsaved = 0 /\ twice = 0 /\
        count = 0 /\ run = 0
  \/ /\ part = "growth" /\ G!Init
     /\ NoDrives /\ NoSelfTest /\ NoKernel /\ NoTemps /\ NoContainers /\ NoLimitAudit /\ NoCommandFix /\
        NoFreshness /\ NoHttpCheck
     /\ time = 0 /\ pc = 0 /\ at = 0 /\ missing = 0 /\ lost = 0 /\ reader = 0 /\ clears = 0 /\
        log = 0 /\ seen = 0 /\ told = 0 /\ blurred = 0 /\ mark = 0 /\ unsaved = 0 /\ twice = 0 /\
        drops = 0 /\ count = 0 /\ run = 0
  \/ /\ part = "limits" /\ L!Init
     /\ NoDrives /\ NoSelfTest /\ NoKernel /\ NoTemps /\ NoContainers /\ NoGrowth /\ NoCommandFix /\
        NoFreshness /\ NoHttpCheck
     /\ time = 0 /\ pc = 0 /\ at = 0 /\ missing = 0 /\ lost = 0 /\ reader = 0 /\ log = 0 /\ seen = 0 /\
        told = 0 /\ blurred = 0 /\ now = 0 /\ mark = 0 /\ unsaved = 0 /\ open = 0 /\ run = 0
  \/ /\ ((part = "fixes" /\ F!Init) \/ (part = "commands" /\ N!Init))
     /\ NoDrives /\ NoSelfTest /\ NoKernel /\ NoTemps /\ NoContainers /\ NoGrowth /\ NoLimitAudit /\
        NoFreshness /\ NoHttpCheck
     /\ pc = 0 /\ missing = 0 /\ reader = 0 /\ clears = 0 /\ seen = 0 /\ told = 0 /\ blurred = 0 /\
        now = 0 /\ mark = 0 /\ out = 0 /\ unsaved = 0 /\ open = 0 /\ drops = 0
  \/ /\ part = "files" /\ A!Init
     /\ NoDrives /\ NoSelfTest /\ NoKernel /\ NoTemps /\ NoContainers /\ NoGrowth /\ NoLimitAudit /\
        NoCommandFix /\ NoHttpCheck
     /\ pc = 0 /\ at = 0 /\ stored = 0 /\ lost = 0 /\ reader = 0 /\ clears = 0 /\ log = 0 /\ seen = 0 /\
        told = 0 /\ now = 0 /\ out = 0 /\ twice = 0 /\ open = 0 /\ drops = 0 /\ count = 0
  \/ /\ part = "http" /\ H!Init
     /\ NoDrives /\ NoSelfTest /\ NoKernel /\ NoTemps /\ NoContainers /\ NoGrowth /\ NoLimitAudit /\
        NoCommandFix /\ NoFreshness
     /\ time = 0 /\ ends = 0 /\ loaded = 0 /\ pc = 0 /\ missing = 0 /\ stored = 0 /\ lost = 0 /\
        reader = 0 /\ clears = 0 /\ log = 0 /\ seen = 0 /\ told = 0 /\ blurred = 0 /\ now = 0 /\
        mark = 0 /\ out = 0 /\ unsaved = 0 /\ twice = 0 /\ open = 0 /\ drops = 0 /\ count = 0 /\ run = 0

Next ==
  \/ /\ part = "drives" /\ D!Next
     /\ UNCHANGED <<part, selfTestVars, kernelVars, tempsVars, containersVars, growthVars, limitAuditVars,
                    commandFixVars, freshnessVars, httpCheckVars, clears, log, seen, told, blurred, now,
                    mark, out, unsaved, twice, open, drops, count, run>>
  \/ /\ part = "external" /\ X!Next
     /\ UNCHANGED <<part, selfTestVars, kernelVars, tempsVars, containersVars, growthVars, limitAuditVars,
                    commandFixVars, freshnessVars, httpCheckVars, clears, log, seen, told, blurred, now,
                    mark, out, unsaved, twice, open, drops, count, run>>
  \/ /\ part = "tests" /\ S!Next
     /\ UNCHANGED <<part, drivesVars, kernelVars, tempsVars, containersVars, growthVars, limitAuditVars,
                    commandFixVars, freshnessVars, httpCheckVars, time, ends, loaded, pc, at, missing,
                    stored, lost, reader, now, mark, out, unsaved, twice, open, drops, count, run>>
  \/ /\ part = "kernel" /\ K!Next
     /\ UNCHANGED <<part, drivesVars, selfTestVars, tempsVars, containersVars, growthVars, limitAuditVars,
                    commandFixVars, freshnessVars, httpCheckVars, time, loaded, pc, at, missing, clears,
                    log, seen, blurred, open, drops, count, run>>
  \/ /\ part = "boots" /\ B!Next
     /\ UNCHANGED <<part, drivesVars, selfTestVars, tempsVars, containersVars, growthVars, limitAuditVars,
                    commandFixVars, freshnessVars, httpCheckVars, time, loaded, pc, at, missing, clears,
                    log, seen, blurred, open, drops, count, run>>
  \/ /\ part = "temps" /\ T!Next
     /\ UNCHANGED <<part, drivesVars, selfTestVars, kernelVars, containersVars, growthVars, limitAuditVars,
                    commandFixVars, freshnessVars, httpCheckVars, time, ends, at, missing, lost, reader,
                    clears, log, told, blurred, now, mark, unsaved, twice, drops, count, run>>
  \/ /\ part = "crashes" /\ C!Next
     /\ UNCHANGED <<part, drivesVars, selfTestVars, kernelVars, tempsVars, growthVars, limitAuditVars,
                    commandFixVars, freshnessVars, httpCheckVars, pc, at, missing, lost, reader, clears,
                    log, seen, told, blurred, now, mark, unsaved, twice, count, run>>
  \/ /\ part = "restarts" /\ R!Next
     /\ UNCHANGED <<part, drivesVars, selfTestVars, kernelVars, tempsVars, growthVars, limitAuditVars,
                    commandFixVars, freshnessVars, httpCheckVars, pc, at, missing, lost, reader, clears,
                    log, seen, told, blurred, now, mark, unsaved, twice, count, run>>
  \/ /\ part = "growth" /\ G!Next
     /\ UNCHANGED <<part, drivesVars, selfTestVars, kernelVars, tempsVars, containersVars, limitAuditVars,
                    commandFixVars, freshnessVars, httpCheckVars, time, pc, at, missing, lost, reader,
                    clears, log, seen, told, blurred, mark, unsaved, twice, drops, count, run>>
  \/ /\ part = "limits" /\ L!Next
     /\ UNCHANGED <<part, drivesVars, selfTestVars, kernelVars, tempsVars, containersVars, growthVars,
                    commandFixVars, freshnessVars, httpCheckVars, time, pc, at, missing, lost, reader,
                    log, seen, told, blurred, now, mark, unsaved, open, run>>
  \/ /\ part = "fixes" /\ F!Next
     /\ UNCHANGED <<part, drivesVars, selfTestVars, kernelVars, tempsVars, containersVars, growthVars,
                    limitAuditVars, freshnessVars, httpCheckVars, pc, missing, reader, clears, seen,
                    told, blurred, now, mark, out, unsaved, open, drops>>
  \/ /\ part = "commands" /\ N!Next
     /\ UNCHANGED <<part, drivesVars, selfTestVars, kernelVars, tempsVars, containersVars, growthVars,
                    limitAuditVars, freshnessVars, httpCheckVars, pc, missing, reader, clears, seen,
                    told, blurred, now, mark, out, unsaved, open, drops>>
  \/ /\ part = "files" /\ A!Next
     /\ UNCHANGED <<part, drivesVars, selfTestVars, kernelVars, tempsVars, containersVars, growthVars,
                    limitAuditVars, commandFixVars, httpCheckVars, pc, at, stored, lost, reader, clears,
                    log, seen, told, now, out, twice, open, drops, count>>
  \/ /\ part = "http" /\ H!Next
     /\ UNCHANGED <<part, drivesVars, selfTestVars, kernelVars, tempsVars, containersVars, growthVars,
                    limitAuditVars, commandFixVars, freshnessVars, time, ends, loaded, pc, missing,
                    stored, lost, reader, clears, log, seen, told, blurred, now, mark, out, unsaved,
                    twice, open, drops, count, run>>

Spec == Init /\ [][Next]_vars

-----------------------------------------------------------------------------
(* Properties *)

\* Of a drive's baseline, over pulled, renamed, sleeping, unreadable, excluded and retired drives:
\* a drive that is there is judged missing only where two drives claim its node, a counter's
\* rise since the last read that had it is told, a retired drive keeps no condition, and no drive is woken too often.  Of its
\* self-tests: a failed one is told exactly once, and only a test that passed since is dated.
DrivesJudged ==
  /\ [](part = "drives" => D!TypeOK /\ D!RisesTold /\ D!RetiredClear)
  /\ [](part = "external" => X!TypeOK /\ X!RisesTold /\ X!RetiredClear)
  /\ [][part = "drives" => D!MissingIsGone /\ D!WakesSpaced]_vars
  /\ [][part = "external" => X!MissingIsGone /\ X!WakesSpaced]_vars
  /\ [](part = "tests" => S!TypeOK /\ S!ToldOnce)
  /\ [][part = "tests" => S!FailuresTold /\ S!PassDated]_vars

\* A matching kernel record is neither lost nor told twice between the kernel's buffer and the
\* messages, over reader restarts, late loads, crashes and reboots, a class's messages are
\* stillWindow apart, and the one about the boot before comes once.
KernelTold ==
  /\ [](part = "kernel" => K!TypeOK /\ K!NothingLost /\ K!NothingTwice)
  /\ [](part = "boots" => B!TypeOK /\ B!NothingLost /\ B!NothingTwice)
  /\ [][part = "kernel" => K!MessagesSpaced]_vars
  /\ [][part = "boots" => B!MessagesSpaced]_vars

\* An open problem of a sensor, a container or a growing service ends only by what ends it, and
\* can still end: the chip that raised it reads good, the container has stayed up for the
\* threshold, the memory came down below half the level, or the thing itself is gone.  And
\* everyone who joins an open memory-limit finding is announced.
ProblemsEnd ==
  /\ [](part = "temps" => T!TypeOK /\ T!EndsAreTold)
  /\ [][part = "temps" => T!ResolvedByItsOwn]_vars
  /\ [][part = "crashes" => C!NoEarlyGood /\ C!OpenIsJudged]_vars
  /\ [][part = "restarts" => R!NoEarlyGood /\ R!OpenIsJudged]_vars
  /\ [](part = "growth" => G!TypeOK /\ G!OpenIsJudged)
  /\ [][part = "growth" => G!HeldOpen]_vars
  /\ [](part = "limits" => L!TypeOK /\ L!JoinersAnnounced)

\* Every fix a check did is recorded once, whichever tick it outlived; no hour of fixes the check
\* knows of has more than max_per_hour; and a fix needs its bad probes since the last good one
\* and the last fix, also over process ends, less the strikes an older stored state brings back.
FixesKept ==
  /\ [](part = "fixes" => F!TypeOK /\ F!FixesLogged /\ F!LimitKept)
  /\ [](part = "commands" => N!TypeOK /\ N!FixesLogged /\ N!LimitKept)
  /\ [][part = "fixes" => F!FixEarned]_vars
  /\ [][part = "commands" => N!FixEarned]_vars

\* A missing file is judged by every run since the file was last seen, over hung reads and
\* restarts.  A verdict on an endpoint is the endpoint's: never that of a slow lookup, of the
\* run's own end or of another address; and a secret stays with the host it was meant for.
VerdictsTrue ==
  /\ [](part = "files" => A!StampIsSeen)
  /\ [][part = "files" => A!MissingJudged]_vars
  /\ [](part = "http" => H!VerdictIsTheEndpoints /\ H!SecretStays)
=============================================================================
