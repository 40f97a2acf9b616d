-------------------------------- MODULE Tick --------------------------------
(***************************************************************************)
(* One tick of the health runner (pkg/health/runner: Do, tick, runChecks,   *)
(* checkpoint, saveInterruptedFixes, Checkpoint, Load) over the store's     *)
(* checkpointer (pkg/health/store/state.go), with shutdowns, stops and      *)
(* crashes.                                                                 *)
(*                                                                          *)
(* Conditions are open or not (module Engine has their streaks).  The       *)
(* notifier (module Notifier) is the set of conditions whose PROBLEM it was *)
(* handed and whose RESOLVED it was not: what was delivered or is queued.   *)
(* Alert-log records are numbers.  Flush, the daily and weekly jobs,        *)
(* checker errors, samples and schedules are left out.                      *)
(***************************************************************************)
EXTENDS Naturals, Sequences, SequencesExt, FiniteSets

CONSTANTS
  Network,             \* the network check's key, applied before the others
  Others,              \* the keys of the other checks
  MaxPending,          \* MaxPendingAlerts
  MaxRecs,             \* bound: alert-log records
  MaxStarts            \* bound: starts of the daemon

ASSUME TickAssumption ==
  /\ IsFiniteSet(Others) /\ Network \notin Others
  /\ {MaxPending, MaxRecs, MaxStarts} \subseteq Nat

Keys == Others \cup {Network}

VARIABLES
  pc,            \* "down", "idle", or where the tick is
  open,          \* the engine's open conditions
  announced,     \* the notifier's: PROBLEM handed over, RESOLVED not
  raised,        \* c.alerts: the conditions this tick's runs opened
  resolved,      \* ... and those they ended
  before,        \* c.before: the open conditions before the runs
  fixes,         \* records of the fixes the checks took and the runner did not take yet
  logged,        \* r.logged: records of pushes and clears
  pending,       \* r.pendingAlerts
  held,          \* the checkpointer's alerts
  degraded,      \* the checkpointer's degraded
  saveReported,  \* r.saveReported
  loaded,        \* r.loaded
  shutdown,      \* the tick's context is cancelled
  interrupted,   \* the tick was cut short
  stored,        \* the store: open conditions and the notifier's state
  log,           \* the store's alerts table
  nextRec,       \* records made so far
  lost,          \* records dropped by a bound, or that died unsaved with a process
  cleared,       \* history: conditions that were cleared
  unseen,        \* history: conditions an interrupted tick turned and the stop's checkpoint wrote
  starts         \* starts of the daemon

tickVars == <<raised, resolved, before>>
recVars == <<fixes, logged, pending, nextRec, lost>>
storeVars == <<held, degraded, saveReported, stored, log>>
lifeVars == <<loaded, shutdown, interrupted, starts, cleared, unseen>>
vars == <<pc, open, announced, tickVars, recVars, storeVars, lifeVars>>

TypeOK ==
  /\ pc \in {"down", "idle", "network", "batch", "interrupt", "dispatch", "save"}
  /\ \A K \in {open, announced, raised, resolved, before, cleared, unseen} : K \subseteq Keys
  /\ {degraded, saveReported, loaded, shutdown, interrupted} \subseteq BOOLEAN
  /\ stored \in [open : SUBSET Keys, announced : SUBSET Keys]
  /\ \A s \in {fixes, logged, pending, held, log} : Range(s) \subseteq 1..nextRec
  /\ Len(pending) <= MaxPending /\ Len(held) <= MaxPending
  /\ lost \subseteq 1..nextRec /\ starts \in Nat

Init ==
  /\ pc = "idle" /\ open = {} /\ announced = {} /\ raised = {} /\ resolved = {} /\ before = {}
  /\ fixes = <<>> /\ logged = <<>> /\ pending = <<>> /\ held = <<>>
  /\ degraded = FALSE /\ saveReported = FALSE
  /\ loaded = FALSE /\ shutdown = FALSE /\ interrupted = FALSE
  /\ stored = [open |-> {}, announced |-> {}]
  /\ log = <<>> /\ nextRec = 0 /\ lost = {} /\ starts = 1 /\ cleared = {} /\ unseen = {}

-----------------------------------------------------------------------------
(* Records and the store *)

\* Fault: no bound.
KeepAll(s) == s

\* KeepNewest: what is kept ...
KeepNewest(s) == IF Len(s) <= MaxPending THEN s ELSE SubSeq(s, Len(s) - MaxPending + 1, Len(s))
\* ... and what is dropped.
DroppedOf(s) == Range(s) \ Range(KeepNewest(s))

\* Fault: the records of an interrupted or unloaded tick replace the earlier ones.
OnlyNew(recs) == recs

\* addPending's argument: the new records go behind the pending ones.
Pended(recs) == pending \o recs

\* What a write may do: a cancelled context can cut it off.
Writes == {"ok", "fail"} \cup (IF shutdown THEN {"cut"} ELSE {})

\* Fault: the checkpointer keeps what it wrote.
KeepWritten(all) == KeepNewest(all)

\* The checkpointer's alerts after a successful write.
AfterWrite(all) == <<>>

\* Store.Checkpoint of a snapshot and new records, in one transaction: on a
\* failure the records are retained, and degraded says so.
StoreCheckpoint(w, conds, recs) ==
  LET all == held \o recs
  IN /\ w \in Writes
     /\ held' = IF w = "ok" THEN AfterWrite(all) ELSE KeepNewest(all)
     /\ log' = IF w = "ok" THEN log \o KeepNewest(all) ELSE log
     /\ stored' = IF w = "ok" THEN [open |-> conds, announced |-> announced] ELSE stored
     /\ degraded' = CASE w = "ok" -> FALSE [] w = "fail" -> TRUE [] w = "cut" -> degraded

\* Fault: every nil error counts, although a degraded store returns nil too.
NilError(w) == w = "ok" \/ (w = "fail" /\ degraded)

\* checkpoint's first case: written, and the store is not degraded.
SaveRecovered(w) == w = "ok"

\* Runner.checkpoint with the records recs: pending until the state is
\* loaded, else handed to the store.  The first failure of an outage is
\* reported, unless the checker errors are rate-limited.
RunnerCheckpoint(w, reported, recs) ==
  LET all == Pended(recs)
  IN IF loaded
       THEN /\ StoreCheckpoint(w, open, KeepNewest(all))
            /\ pending' = <<>>
            /\ lost' = lost \cup DroppedOf(all) \cup DroppedOf(held \o KeepNewest(all))
            /\ reported => w = "fail" /\ ~degraded
            /\ saveReported' = (reported \/ (saveReported /\ ~SaveRecovered(w)))
       ELSE /\ w = "ok" /\ ~reported
            /\ pending' = KeepNewest(all)
            /\ lost' = lost \cup DroppedOf(all)
            /\ UNCHANGED <<held, degraded, saveReported, stored, log>>

-----------------------------------------------------------------------------
(* The tick *)

\* Do: Load may fail and is tried again by the next tick; state loaded late is
\* merged with what memory built.
BeginTick(ok) ==
  /\ pc = "idle" /\ ~shutdown
  /\ pc' = "network"
  /\ loaded' = (loaded \/ ok)
  /\ LET merge == ok /\ ~loaded
     IN /\ open' = IF merge THEN open \cup stored.open ELSE open
        /\ announced' = IF merge THEN announced \cup stored.announced ELSE announced
        /\ before' = open'
  /\ raised' = {} /\ resolved' = {}
  /\ UNCHANGED <<recVars, storeVars, shutdown, interrupted, starts, cleared, unseen>>

\* Checks turn the conditions in K: raised, or resolved when open.
Turn(K) ==
  /\ open' = (open \cup K) \ (open \cap K)
  /\ raised' = raised \cup (K \ open)
  /\ resolved' = resolved \cup (K \cap open)

\* runChecks, first half: the network check runs and its result is applied ...
RunNetwork(K) ==
  /\ pc = "network" /\ ~shutdown /\ K \subseteq {Network}
  /\ Turn(K)
  /\ pc' = "batch"
  /\ UNCHANGED <<announced, before, recVars, storeVars, lifeVars>>

\* ... second half: the other checks run, may take a fix, and are applied ...
RunBatch(K, fix) ==
  /\ pc = "batch" /\ ~shutdown /\ K \subseteq Others
  /\ Turn(K)
  /\ fix => nextRec < MaxRecs
  /\ nextRec' = IF fix THEN nextRec + 1 ELSE nextRec
  /\ fixes' = IF fix THEN Append(fixes, nextRec + 1) ELSE fixes
  /\ pc' = "dispatch"
  /\ UNCHANGED <<announced, before, logged, pending, lost, storeVars, lifeVars>>

\* ... or the context ended during the runs, and their results are not applied;
\* a fix was taken all the same.
Interrupt(fix) ==
  /\ pc \in {"network", "batch"} /\ shutdown
  /\ fix => nextRec < MaxRecs
  /\ nextRec' = IF fix THEN nextRec + 1 ELSE nextRec
  /\ fixes' = IF fix THEN Append(fixes, nextRec + 1) ELSE fixes
  /\ interrupted' = TRUE
  /\ pc' = "interrupt"
  /\ UNCHANGED <<open, announced, tickVars, logged, pending, lost, storeVars, loaded, shutdown, starts,
                 cleared, unseen>>

\* Fault: the live conditions are saved.
LiveConditions == open

\* The conditions as they were before the tick's runs.
BeforeRuns == before

\* saveInterruptedFixes: the fixes reach the alert log, the tick's results do
\* not reach the store.
SaveInterruptedFixes(w) ==
  /\ pc = "interrupt"
  /\ pc' = "idle"
  /\ fixes' = <<>>
  /\ LET all == IF fixes = <<>> THEN pending ELSE Pended(fixes)
     IN IF fixes # <<>> /\ loaded
          THEN /\ StoreCheckpoint(w, BeforeRuns, KeepNewest(all))
               /\ pending' = <<>>
               /\ lost' = lost \cup DroppedOf(all) \cup DroppedOf(held \o KeepNewest(all))
          ELSE /\ w = "ok"
               /\ pending' = KeepNewest(all)
               /\ lost' = lost \cup DroppedOf(all)
               /\ UNCHANGED <<held, degraded, stored, log>>
  /\ UNCHANGED <<open, announced, tickVars, logged, nextRec, saveReported, lifeVars>>

\* dispatch: the notifier is handed each alert of the tick.
Dispatch ==
  /\ pc = "dispatch"
  /\ announced' = (announced \cup raised) \ resolved
  /\ pc' = "save"
  /\ UNCHANGED <<open, tickVars, recVars, storeVars, lifeVars>>

AlertCount == Cardinality(raised \cup resolved)

\* The numbers of the records of this tick's alerts.
AlertRecords == [i \in 1..AlertCount |-> nextRec + i]

\* The tick's checkpoint: the pushes and clears since the last one, the
\* alerts and the fixes.
Save(w, reported) ==
  /\ pc = "save" /\ nextRec + AlertCount <= MaxRecs
  /\ RunnerCheckpoint(w, reported, logged \o AlertRecords \o fixes)
  /\ nextRec' = nextRec + AlertCount
  /\ logged' = <<>> /\ fixes' = <<>> /\ raised' = {} /\ resolved' = {}
  /\ pc' = "idle"
  /\ UNCHANGED <<open, announced, before, lifeVars>>

-----------------------------------------------------------------------------
(* Other goroutines, stops and crashes *)

\* A pushed event is logged.
Push ==
  /\ pc # "down" /\ ~shutdown /\ nextRec < MaxRecs
  /\ nextRec' = nextRec + 1
  /\ logged' = Append(logged, nextRec + 1)
  /\ UNCHANGED <<pc, open, announced, tickVars, fixes, pending, lost, storeVars, lifeVars>>

\* The /clear command ends a condition without a RESOLVED, and logs it.
Clear(k) ==
  /\ pc # "down" /\ ~shutdown /\ k \in open /\ nextRec < MaxRecs
  /\ open' = open \ {k}
  /\ cleared' = cleared \cup {k}
  /\ nextRec' = nextRec + 1
  /\ logged' = Append(logged, nextRec + 1)
  /\ UNCHANGED <<pc, announced, tickVars, fixes, pending, lost, storeVars, loaded, shutdown,
                 interrupted, starts, unseen>>

\* The daemon is told to stop: the scheduler cancels the tick's context.
Shutdown ==
  /\ pc # "down" /\ ~shutdown
  /\ shutdown' = TRUE
  /\ UNCHANGED <<pc, open, announced, tickVars, recVars, storeVars, loaded, interrupted, starts,
                 cleared, unseen>>

\* The process is gone, and its memory with it.
Gone ==
  /\ pc' = "down"
  /\ open' = {} /\ announced' = {} /\ raised' = {} /\ resolved' = {} /\ before' = {}
  /\ fixes' = <<>> /\ logged' = <<>> /\ pending' = <<>> /\ held' = <<>>
  /\ degraded' = FALSE /\ saveReported' = FALSE
  /\ loaded' = FALSE /\ shutdown' = FALSE /\ interrupted' = FALSE
  /\ UNCHANGED <<starts, cleared>>

\* The stop hook's Checkpoint, once the tick has ended, interrupted or not, and
\* nothing pushes any more; then the process exits.
StopCheckpoint(w) ==
  /\ pc = "idle" /\ shutdown
  /\ w \in Writes
  /\ LET all == held \o KeepNewest(Pended(logged))
         written == loaded /\ w = "ok"
     IN /\ log' = IF written THEN log \o KeepNewest(all) ELSE log
        /\ stored' = IF written THEN [open |-> open, announced |-> announced] ELSE stored
        /\ lost' = IF written THEN lost \cup DroppedOf(Pended(logged)) \cup DroppedOf(all)
                   ELSE lost \cup Range(held \o Pended(logged))
        /\ unseen' = IF written /\ interrupted THEN unseen \cup raised \cup resolved ELSE unseen
  /\ UNCHANGED nextRec
  /\ Gone

\* A crash, or a stop that runs out of time: what was not saved is lost.
Crash ==
  /\ pc # "down"
  /\ lost' = lost \cup Range(held \o pending \o logged \o fixes)
  /\ UNCHANGED <<stored, log, nextRec, unseen>>
  /\ Gone

\* The daemon starts with empty memory.
Start ==
  /\ pc = "down" /\ starts < MaxStarts
  /\ starts' = starts + 1
  /\ pc' = "idle"
  /\ UNCHANGED <<open, announced, tickVars, recVars, storeVars, loaded, shutdown, interrupted,
                 cleared, unseen>>

\* The last start of the bound has ended.
Ended == pc = "down" /\ starts = MaxStarts /\ UNCHANGED vars

Next ==
  \/ \E ok \in BOOLEAN : BeginTick(ok)
  \/ \E K \in SUBSET {Network} : RunNetwork(K)
  \/ \E K \in SUBSET Others, fix \in BOOLEAN : RunBatch(K, fix)
  \/ \E fix \in BOOLEAN : Interrupt(fix)
  \/ \E w \in {"ok", "fail", "cut"} : SaveInterruptedFixes(w) \/ StopCheckpoint(w)
  \/ Dispatch
  \/ \E w \in {"ok", "fail", "cut"}, reported \in BOOLEAN : Save(w, reported)
  \/ \E k \in Keys : Clear(k)
  \/ Push \/ Shutdown \/ Crash \/ Start \/ Ended

Spec == Init /\ [][Next]_vars

-----------------------------------------------------------------------------
(* Properties *)

\* The store never holds an open condition whose PROBLEM the notifier was not
\* handed (it would never alert), nor has it lost one whose RESOLVED it was not
\* handed, unless it was cleared, wherever the tick is interrupted and whichever
\* checkpoint writes.  The one exception is the network check's own condition, which
\* is applied before the other checks run: once a stop's checkpoint wrote it after a
\* tick that was interrupted among those.
StoredIsAnnounced ==
  /\ stored.open \subseteq stored.announced \cup unseen
  /\ stored.announced \subseteq stored.open \cup cleared \cup unseen
  /\ unseen \subseteq {Network}

\* saveInterruptedFixes' comment, of an interrupted tick: "no result of the tick is
\* lost unseen".
NoResultUnseen ==
  /\ stored.open \subseteq stored.announced
  /\ stored.announced \subseteq stored.open \cup cleared

\* The alert log gets every record of a fix, a push or a clear exactly once, also by
\* the retries of a degraded store, interrupted ticks and the checkpoints of a stop:
\* a record waits in memory or is in the log, unless a bound dropped it or a process
\* died with it unsaved.
RecordedOnce ==
  /\ TypeOK
  /\ \A i, j \in 1..Len(log) : log[i] = log[j] => i = j
  /\ 1..nextRec \subseteq Range(fixes \o logged \o pending \o held \o log) \cup lost

\* FR-032: after a reported write failure the recovery notice goes out with the
\* save that has the store written again, neither earlier nor later.
RecoveryNoticed ==
  [][pc = "save" /\ pc' = "idle" /\ saveReported => (saveReported' <=> degraded')]_vars
=============================================================================
