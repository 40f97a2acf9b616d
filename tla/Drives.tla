------------------------------- MODULE Drives -------------------------------
(***************************************************************************)
(* The disks check (pkg/health/check/disks/disks.go) with /retire           *)
(* (pkg/health/runner/retire.go): which drive a node that could not be read *)
(* is taken for, which drives are judged missing, which error counters are  *)
(* told, which sleeping drive is woken; and what becomes of a result when   *)
(* the drive is retired, the run abandoned or the daemon stopped meanwhile. *)
(*                                                                          *)
(* Drives and nodes are numbers in the order of their sorted names.  The    *)
(* reads of a run are one step, each awake, asleep or failed as it happens; *)
(* a drive is on one node; time passes between runs.  The engine is the     *)
(* missing condition alone (thresholds: module Engine).  What a read says   *)
(* about one drive alone (health, spare, wear, temperature) is left out;    *)
(* self-tests are in module SelfTest.  0 is no drive, or the zero time; a    *)
(* drive has one error counter, -1 while the baseline does not have it.     *)
(***************************************************************************)
EXTENDS Integers, FiniteSets, FiniteSetsExt

CONSTANTS
  Serials, DevNodes,  \* the drives and the device nodes, as numbers from 1
  Excluded,           \* exclude_serials
  External,           \* drives on a usb or other transport
  IncludeChoices,     \* what include_serials may be after a restart
  ForceAfter,         \* force_read_after
  LastTime, LastChange, LastRise, LastEnd \* bounds: clock, moves and retirements, counter rises, process ends

VARIABLES
  time, changes, rises, ends,
  place,          \* the node each drive is on; 0 when pulled
  counter,        \* each drive's error counter
  include,        \* include_serials
  loaded, stopping,
  bases,          \* Check.bases
  credit,         \* Check.excludedNodes, by node
  lastNodes,      \* Check.nodes
  orphanSince, orphanForced, \* Check.asleepSince, Check.orphanForcedAt
  pc, probes, due, at,       \* the run: its probes by node, the forced one, its now
  abandoned,      \* nobody waits for the run
  result,         \* the run's readings
  missing,        \* open missing conditions
  stored,         \* the baselines and conditions of the last checkpoint
  \* history
  heard,          \* each counter as last told or adopted
  lost,           \* drives whose told result was dropped by an abandoned or interrupted run
  stuck,          \* drives retired between dropRetired and the engine, or silently with a condition
  reader,         \* the drive last read and judged on each node
  woken           \* when each node was last force-read for the drive on it, since drives changed

envVars == <<place, counter>>
boundVars == <<time, changes, rises, ends>>
lifeVars == <<include, loaded, stopping, stored>>
checkVars == <<bases, credit, lastNodes, orphanSince, orphanForced>>
runVars == <<pc, probes, due, at, abandoned, result>>
history == <<heard, lost, stuck, reader, woken>>
vars == <<boundVars, envVars, lifeVars, checkVars, runVars, missing, history>>

Unknown == -1

NoBase == [st |-> "none", node |-> 0, seen |-> 0, forced |-> 0, count |-> Unknown]
NoBases == [d \in Serials |-> NoBase]
NoTimes == [n \in DevNodes |-> 0]
NoProbes == [n \in {} |-> 0]
NoResult == [good |-> {}, missing |-> {}, rose |-> {}, fresh |-> {}]

InitCheck ==
  /\ bases = NoBases /\ credit = NoTimes /\ lastNodes = {} /\ orphanSince = NoTimes /\ orphanForced = NoTimes
  /\ pc = "idle" /\ probes = NoProbes /\ due = 0 /\ at = 0 /\ abandoned = FALSE /\ result = NoResult

Init ==
  /\ time = 1 /\ changes = 0 /\ rises = 0 /\ ends = 0
  /\ place = [d \in Serials |-> IF d \in DevNodes THEN d ELSE 0]
  /\ counter = [d \in Serials |-> 0]
  /\ include \in IncludeChoices /\ loaded = FALSE /\ stopping = FALSE /\ stored = [bases |-> NoBases, missing |-> {}]
  /\ InitCheck /\ missing = {}
  /\ heard = [d \in Serials |-> Unknown] /\ lost = {} /\ stuck = {} /\ reader = NoTimes /\ woken = NoTimes

-----------------------------------------------------------------------------
(* The machine *)

Move(d, n) ==
  /\ pc \in {"idle", "force"} /\ changes < LastChange /\ changes' = changes + 1
  /\ n # place[d] /\ (n = 0 \/ \A e \in Serials : place[e] # n)
  /\ place' = [place EXCEPT ![d] = n] /\ woken' = NoTimes
  /\ UNCHANGED <<time, rises, ends, counter, lifeVars, checkVars, runVars, missing, heard, lost, stuck,
                 reader>>

Rise(d) ==
  /\ pc = "idle" /\ rises < LastRise /\ rises' = rises + 1 /\ counter' = [counter EXCEPT ![d] = @ + 1]
  /\ UNCHANGED <<time, changes, ends, place, lifeVars, checkVars, runVars, missing, history>>

-----------------------------------------------------------------------------
(* Tracking *)

Active(d) == bases[d].st = "active"

\* tracked: a usb or other drive only when it is listed.
Tracked(d) == d \notin External \/ d \in include

\* discovered, retireUntracked: known drives that no longer qualify are retired.
RetireUntracked ==
  [d \in Serials |-> IF Active(d) /\ d \notin Excluded /\ ~Tracked(d) THEN [bases[d] EXCEPT !.st = "retired"]
                     ELSE bases[d]]

Known == {d \in Serials : RetireUntracked[d].st = "active" /\ d \notin Excluded}

\* byNode: the first active drive whose last read was on the node and that was
\* not read elsewhere in this run; 0 when there is none.  The node's transport
\* must be one the drive is tracked on.
Owner(n, ps, read) ==
  LET could == {d \in Serials : /\ Active(d) /\ bases[d].node = n /\ d \notin read \cup Excluded
                                /\ (ps[n].drive \in External => d \in include)}
  IN IF could = {} THEN 0 ELSE Min(could)

ReadDrives(ps) == {ps[n].drive : n \in {m \in DOMAIN ps : ps[m].out = "read"}}
Unread(ps) == {n \in DOMAIN ps : ps[n].out # "read"}

\* orphanAsleepSince
AsleepSince(n) == IF orphanSince[n] # 0 THEN orphanSince[n] ELSE at'

\* noteRead: a drive read on a node takes the node's credit; an excluded one
\* moves its own there.
NoteRead(cr, n, d) ==
  [m \in DevNodes |-> CASE d \in Excluded /\ m = n -> d
                        [] d \notin Excluded /\ m = n -> 0
                        [] m # n /\ cr[m] = d -> 0
                        [] OTHER -> cr[m]]

-----------------------------------------------------------------------------
(* A run *)

\* probe: discovery and the routine reads.  Nodes of untracked transports are
\* not read without include_serials.
Probe(failing, slept, failed) ==
  LET found == {place[d] : d \in Serials} \ {0}
      on(n) == CHOOSE d \in Serials : place[d] = n
      readable == {n \in found : on(n) \in External => include # {}}
  IN
  /\ pc = "idle" /\ loaded /\ ~stopping /\ slept \cup failed \subseteq readable /\ slept \cap failed = {}
  /\ IF failing THEN slept \cup failed = {} /\ UNCHANGED <<bases, pc, probes, stuck>>
     ELSE /\ bases' = RetireUntracked /\ stuck' = stuck \cup {d \in missing : bases'[d].st = "retired"}
          /\ IF found = {} /\ Known # {} THEN UNCHANGED <<pc, probes>>
             ELSE /\ pc' = "read"
                  /\ probes' = [n \in readable |->
                       [drive |-> on(n), out |-> CASE n \in failed -> "failed"
                                                   [] n \in slept -> "asleep"
                                                   [] OTHER -> "read"]]
  /\ UNCHANGED <<boundVars, envVars, lifeVars, credit, lastNodes, orphanSince, orphanForced, due, at, abandoned,
                 result, missing, heard, lost, reader, woken>>

\* lastRead of a sleeping node: the later of its last read and forced read.
LastRead(n) ==
  LET b == Owner(n, probes, ReadDrives(probes)) IN
  IF b # 0 THEN Max({bases[b].seen, bases[b].forced}) ELSE Max({AsleepSince(n), orphanForced[n]})

\* A node is never woken for an excluded or untracked drive.
MayWake(n) ==
  /\ probes[n].out = "asleep"
  /\ Owner(n, probes, ReadDrives(probes)) # 0 \/ (credit'[n] = 0 /\ probes[n].drive \notin External)

\* noteNodes, then forcedReadDue: of the nodes asleep for too long, the oldest,
\* if the run has time left (budget).
Note(budget) ==
  LET dueNodes == {n \in DOMAIN probes : MayWake(n) /\ at' - LastRead(n) >= ForceAfter}
      kept == IF DOMAIN probes = lastNodes THEN credit ELSE NoTimes
      noted == [n \in DevNodes |->
                  CASE n \in DOMAIN probes /\ probes[n].out = "read" -> NoteRead(kept, n, probes[n].drive)[n]
                    [] OTHER -> IF kept[n] \in ReadDrives(probes) THEN 0 ELSE kept[n]]
  IN
  /\ pc = "read" /\ at' = time
  /\ lastNodes' = DOMAIN probes /\ credit' = noted
  /\ (budget => dueNodes # {})
  /\ IF budget
       THEN /\ pc' = "force"
            /\ due' = CHOOSE n \in dueNodes : \A m \in dueNodes : LastRead(n) < LastRead(m)
                                                              \/ (LastRead(n) = LastRead(m) /\ n <= m)
       ELSE pc' = "judge" /\ UNCHANGED due
  /\ UNCHANGED <<boundVars, envVars, lifeVars, bases, orphanSince, orphanForced, probes, abandoned, result,
                 missing, history>>

\* Fault: the wake-up of a node nobody owns is not noted.
ForgetOrphanForced(target) == orphanForced

NoteOrphanForced(target) == IF target = 0 THEN [orphanForced EXCEPT ![due] = at] ELSE orphanForced

\* forceRead, noteForced.  What sits on the node may have changed since.
Force(fails) ==
  LET target == Owner(due, probes, ReadDrives(probes))
      there == {d \in Serials : place[d] = due}
      now == IF there = {} THEN probes[due].drive ELSE CHOOSE d \in there : TRUE
      ok == ~fails /\ there # {}
  IN
  /\ pc = "force" /\ pc' = "judge"
  /\ probes' = [probes EXCEPT ![due] = [drive |-> now, out |-> IF ok THEN "read" ELSE "forced"]]
  /\ bases' = IF target = 0 THEN bases ELSE [bases EXCEPT ![target].forced = at]
  /\ orphanForced' = NoteOrphanForced(target)
  /\ credit' = IF ok THEN NoteRead(credit, due, now) ELSE credit
  /\ woken' = [woken EXCEPT ![due] = IF target \in {0, now} THEN at ELSE 0]
  /\ UNCHANGED <<boundVars, envVars, lifeVars, lastNodes, orphanSince, due, at, abandoned, result, missing,
                 heard, lost, stuck, reader>>

\* Fault: only a node that failed suspends the missing judgement.
SuspendsFailed(n) == credit[n] = 0 /\ probes[n].drive \notin External /\ probes[n].out = "failed"

\* orphan: whether an unread node nobody owns may be any drive.
Suspends(n) == credit[n] = 0 /\ probes[n].drive \notin External

\* Fault: a read without the attributes counts as zero errors.
ZeroInGap(old, new) == 0

\* A read without the counters leaves those of the baseline alone: none of a fresh one.
KeepInGap(old, new) == old

\* judge.  gaps: drives whose read lacked the counters.  A counter the baseline does
\* not have, of a fresh drive or of one only read without it, is adopted untold.
Judge(gaps) ==
  LET first(d) == Min({n \in DOMAIN probes : probes[n].out = "read" /\ probes[n].drive = d})
      judged == {d \in ReadDrives(probes) : d \notin Excluded /\ Tracked(d)}
      fresh == {d \in judged : ~Active(d)}
      old(d) == IF d \in fresh THEN Unknown ELSE bases[d].count
      value(d) == IF d \in gaps THEN KeepInGap(old(d), counter[d]) ELSE counter[d]
      owned == {Owner(n, probes, judged) : n \in Unread(probes)} \ {0}
      orphans == {n \in Unread(probes) : Owner(n, probes, judged) = 0}
      seen == judged \cup owned
      suspended == \E n \in orphans : Suspends(n)
      sleeping == {n \in orphans : Suspends(n) /\ probes[n].out # "failed"}
      new == [d \in Serials |->
                IF d \in judged
                  THEN [st |-> "active", node |-> first(d), seen |-> at, count |-> value(d),
                        forced |-> IF d \in fresh THEN 0 ELSE bases[d].forced]
                  ELSE bases[d]]
  IN
  /\ pc = "judge" /\ pc' = (IF abandoned THEN "idle" ELSE "result")
  /\ gaps \subseteq judged
  /\ bases' = new
  /\ orphanSince' = [n \in DevNodes |-> IF n \in sleeping THEN IF orphanSince[n] # 0 THEN orphanSince[n] ELSE at
                                        ELSE 0]
  /\ orphanForced' = [n \in DevNodes |-> IF n \in orphans /\ Suspends(n) THEN orphanForced[n] ELSE 0]
  /\ LET r == [good |-> judged, fresh |-> fresh,
               missing |-> IF suspended THEN {}
                           ELSE {d \in Serials : new[d].st = "active" /\ d \notin seen \cup Excluded},
               rose |-> {d \in judged : old(d) # Unknown /\ new[d].count > old(d)}]
     IN /\ result' = IF abandoned THEN NoResult ELSE r
        /\ lost' = IF abandoned THEN lost \cup r.rose ELSE lost
        /\ heard' = [d \in Serials |-> IF d \in judged /\ old(d) = Unknown THEN value(d) ELSE heard[d]]
  /\ reader' = [n \in DevNodes |-> IF n \in DOMAIN probes /\ probes[n].out = "read" /\ probes[n].drive \in judged
                                   THEN probes[n].drive ELSE reader[n]]
  /\ probes' = NoProbes /\ due' = 0 /\ at' = 0 /\ abandoned' = FALSE
  /\ UNCHANGED <<boundVars, envVars, lifeVars, credit, lastNodes, missing, stuck, woken>>

-----------------------------------------------------------------------------
(* The runner *)

\* RunBounded gives up waiting; the run goes on and its result is dropped.
Abandon ==
  /\ pc = "judge" /\ ~abandoned /\ abandoned' = TRUE
  /\ UNCHANGED <<boundVars, envVars, lifeVars, checkVars, pc, probes, due, at, result, missing, history>>

\* The stop interrupts the tick before its results are applied.
Interrupt ==
  /\ pc = "result" /\ stopping /\ pc' = "idle" /\ result' = NoResult
  /\ lost' = lost \cup result.rose
  /\ UNCHANGED <<boundVars, envVars, lifeVars, checkVars, probes, due, at, abandoned, missing, heard, stuck,
                 reader, woken>>

\* Fault: no reading is dropped.
KeepRetired(ds) == ds

\* dropRetired, of one set of readings
DropRetired(ds) == {d \in ds : bases[d].st # "retired"}

\* apply: dropRetired reads the baselines ...
Drop ==
  /\ pc = "result" /\ ~stopping /\ pc' = "apply"
  /\ result' = [f \in DOMAIN result |-> DropRetired(result[f])]
  /\ lost' = lost \cup {d \in result.rose : bases[d].st = "retired"}
  /\ UNCHANGED <<boundVars, envVars, lifeVars, checkVars, probes, due, at, abandoned, missing, heard, stuck,
                 reader, woken>>

\* ... and the engine takes what is left.
Apply ==
  /\ pc = "apply" /\ pc' = "idle" /\ result' = NoResult
  /\ missing' = (missing \ result.good) \cup result.missing
  /\ heard' = [d \in Serials |-> IF d \in result.rose THEN bases[d].count ELSE heard[d]]
  /\ UNCHANGED <<boundVars, envVars, lifeVars, checkVars, probes, due, at, abandoned, lost, stuck, reader, woken>>

\* Runner.Retire of the one active drive that matches.
Retire(d) ==
  /\ changes < LastChange /\ changes' = changes + 1
  /\ Active(d) /\ bases' = [bases EXCEPT ![d].st = "retired"]
  /\ missing' = missing \ {d}
  /\ stuck' = IF pc = "apply" THEN stuck \cup {d} ELSE stuck
  /\ woken' = NoTimes
  /\ UNCHANGED <<time, rises, ends, envVars, lifeVars, credit, lastNodes, orphanSince, orphanForced, runVars,
                 heard, lost, reader>>

\* disksPersister: Restore and Save.
Load ==
  /\ ~loaded /\ loaded' = TRUE /\ bases' = stored.bases /\ missing' = stored.missing
  /\ heard' = [d \in Serials |-> stored.bases[d].count]
  /\ UNCHANGED <<boundVars, envVars, include, stopping, stored, credit, lastNodes, orphanSince, orphanForced,
                 runVars, lost, stuck, reader, woken>>

Save ==
  /\ loaded /\ (pc = "idle" \/ abandoned) /\ ends < LastEnd
  /\ stored' = [bases |-> bases, missing |-> missing]
  /\ UNCHANGED <<boundVars, envVars, include, loaded, stopping, checkVars, runVars, missing, history>>

Tick ==
  /\ pc = "idle" /\ time < LastTime /\ time' = time + 1
  /\ UNCHANGED <<changes, rises, ends, envVars, lifeVars, checkVars, runVars, missing, history>>

Stop ==
  /\ ~stopping /\ ends < LastEnd /\ stopping' = TRUE
  /\ UNCHANGED <<boundVars, envVars, include, loaded, stored, checkVars, runVars, missing, history>>

\* The process ends; another starts, with another configuration perhaps.
Crash(inc) ==
  /\ ends < LastEnd /\ ends' = ends + 1
  /\ include' = inc /\ loaded' = FALSE /\ stopping' = FALSE
  /\ bases' = NoBases /\ credit' = NoTimes /\ lastNodes' = {} /\ orphanSince' = NoTimes /\ orphanForced' = NoTimes
  /\ pc' = "idle" /\ probes' = NoProbes /\ due' = 0 /\ at' = 0 /\ abandoned' = FALSE /\ result' = NoResult
  /\ missing' = {} /\ lost' = {} /\ reader' = NoTimes /\ woken' = NoTimes
  /\ UNCHANGED <<time, changes, rises, envVars, stored, heard, stuck>>

Next ==
  \/ \E d \in Serials : Rise(d) \/ Retire(d) \/ \E n \in DevNodes \cup {0} : Move(d, n)
  \/ \E b \in BOOLEAN, slept, failed \in SUBSET DevNodes : Probe(b, slept, failed)
  \/ \E b \in BOOLEAN : Note(b) \/ Force(b)
  \/ \E gaps \in SUBSET Serials : Judge(gaps)
  \/ Abandon \/ Interrupt \/ Drop \/ Apply \/ Load \/ Save \/ Tick \/ Stop
  \/ \E inc \in IncludeChoices : Crash(inc)

Spec == Init /\ [][Next]_vars

-----------------------------------------------------------------------------
(* Properties *)

TypeOK ==
  /\ pc \in {"idle", "read", "force", "judge", "result", "apply"}
  /\ \A d \in Serials : bases[d].st \in {"none", "active", "retired"} /\ bases[d].node \in DevNodes \cup {0}
  /\ missing \subseteq Serials /\ due \in DevNodes \cup {0}

\* A drive that is on a node of the run is judged missing only when the node could
\* not be read and another drive's last read was on it, too, or its transport is
\* external: not because drives were pulled, renamed, asleep, excluded or
\* unreadable otherwise.
MissingIsGone ==
  pc = "judge" /\ pc' = "result" =>
       \A d \in result'.missing, n \in DOMAIN probes :
         probes[n].drive = d => /\ probes[n].out # "read"
                                /\ d \in External \/ credit[n] # 0 \/ \E e \in Serials \ {d} : Active(e) /\ bases[e].node = n

\* Every rise of a counter from one read that had it to the next was told, over the
\* reads in between that lacked it, but for the runs nobody waited for, the stop
\* interrupted or a retirement dropped.  What the counter did before the first read
\* that had it is not told.
RisesTold == pc = "idle" /\ loaded => \A d \in Serials : Active(d) => d \in lost \/ bases[d].count = heard[d]

\* A retired drive has no condition, although a run may have judged it before, but
\* for one retired while the engine takes the readings in, and one no longer listed
\* that was retired silently.
RetiredClear == \A d \in Serials : bases[d].st = "retired" /\ d \in missing => d \in stuck

\* A node is woken again only after force_read_after, unless it was taken for
\* another drive's, a drive moved, one was retired, or the daemon restarted.
WakesSpaced == pc = "force" /\ pc' = "judge" => woken[due] = 0 \/ at - woken[due] >= ForceAfter
=============================================================================
