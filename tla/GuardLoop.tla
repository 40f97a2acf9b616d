----------------------------- MODULE GuardLoop -----------------------------
(***************************************************************************)
(* The fast memory guard (pkg/health/memguard: episode.go, loop.go): a loop *)
(* that reads the host every second, judges a danger episode, and restarts  *)
(* or stops the culprit in a goroutine of its own; a reporter goroutine     *)
(* takes outcomes and records from buffered channels that drop their oldest *)
(* entry.  A beat is two steps, collect and observe.                        *)
(*                                                                          *)
(* Which service is the culprit is a free choice.  Readings are danger,     *)
(* clear or unreadable; the services' and the top process's read errors     *)
(* only add log items to the outcomes, as the host's do, and are left out.  *)
(* An outcome is its kind and when its decision was made: no_culprit,       *)
(* protected and would_* are one kind, and so are an action's ends.         *)
(***************************************************************************)
EXTENDS Integers, Sequences, FiniteSets

CONSTANTS
  Services,        \* services the guard may blame
  Protected,       \* ... of which never_touch
  Modes,           \* modes the guard may start in, of {"act", "report"}
  DangerFor, RecoveryWindow, RepeatWindow,
  Restarted,       \* services an earlier run restarted, restored late
  OutcomeBuffer,   \* outcomeBuffer
  MaxNow           \* bound: the clock

ASSUME GuardAssumption ==
  /\ Protected \subseteq Services /\ Restarted \subseteq Services
  /\ Modes \subseteq {"act", "report"}
  /\ {DangerFor, RecoveryWindow, RepeatWindow, MaxNow} \subseteq Nat
  /\ OutcomeBuffer \in Nat \ {0}

VARIABLES
  now,          \* the clock
  mode,         \* cfg.Mode
  pc,           \* the loop: "collect", "observe", "sleep", "exit" or "stopped"
  stopping,     \* ctx is done
  ep,           \* g.ep
  dangerSince, clearSince,  \* of the current run of readings; 0: zero time
  records,      \* g.records
  hostFailing,  \* l.hostFailing
  running,      \* actions in progress
  results,      \* l.results
  late,         \* l.late: a set of record sets
  outcomes,     \* l.outcomes
  states,       \* l.states: a set of record sets
  rpc,          \* the reporter: "deliver", "drain" or "done"
  saved,        \* what the reporter saved last
  \* history
  finished,     \* actions that ran: service, decided action, times, success
  told,         \* action outcomes the reporter delivered, or the full buffer dropped
  restored,     \* RestoreLate was called
  mergedAt      \* when its records were merged; 0: not yet

guardVars == <<ep, dangerSince, clearSince, records>>
outVars == <<outcomes, told>>
chanVars == <<results, late, outVars, states>>
lateVars == <<restored, mergedAt>>
actionVars == <<running, finished>>
reportVars == <<rpc, saved>>
vars == <<now, mode, pc, stopping, guardVars, hostFailing, chanVars, actionVars, reportVars,
          lateVars>>

Record == [svc : Services, act : {"restart", "stop", "kill"}, at : Nat, mode : {"act", "report"}]

\* The earlier run's records, of just before this one started.
Prior == [svc : Restarted, act : {"restart"}, at : {1}, mode : {"act"}]

NoEpisode == [state |-> "idle", act |-> "none", actedAt |-> 0, doneAt |-> 0]

TypeOK ==
  /\ now \in Nat /\ dangerSince \in Nat /\ clearSince \in Nat
  /\ ep \in [state : {"idle", "danger", "acted", "reported", "not_recovered"},
             act : {"none", "restart", "stop", "kill"}, actedAt : Nat, doneAt : Nat]
  /\ records \subseteq Record /\ saved \subseteq Record
  /\ Len(results) <= 1 /\ Cardinality(late) <= 1 /\ Cardinality(states) <= 1
  /\ Len(outcomes) <= OutcomeBuffer

Init ==
  /\ now = 2 /\ mode \in Modes /\ pc = "collect" /\ stopping = FALSE
  /\ ep = NoEpisode /\ dangerSince = 0 /\ clearSince = 0 /\ records = {}
  /\ hostFailing = FALSE /\ running = {} /\ results = <<>>
  /\ late = {} /\ outcomes = <<>> /\ states = {}
  /\ rpc = "deliver" /\ saved = {}
  /\ finished = {} /\ told = {} /\ restored = FALSE /\ mergedAt = 0

-----------------------------------------------------------------------------
(* Records and channels *)

\* Within: the repeat window.
Live(rs, at) == {r \in rs : at - r.at <= RepeatWindow}

\* addRecord: prune at the record's own time, then append.
AddRecord(r) == Live(records, r.at) \cup {r}

\* Fault: the late records replace the guard's own, as Restore's do.
LateOnly(more) == Live(more, now)

\* Merge: what is live of both.
Merged(more) == Live(records \cup more, now)

\* actionFor: stop when the guard acted on the service within the window.
ActionFor(svc) ==
  IF RepeatWindow > 0 /\ \E r \in Live(records, now) : r.svc = svc /\ r.mode = "act"
    THEN "stop" ELSE "restart"

\* The outcomes that count as told once they leave the queue.
Actions(s) == {s[i].at : i \in {j \in DOMAIN s : s[j].kind = "action"}}

\* Fault: a full buffer takes one more.
KeepAll(it) == outcomes' = Append(outcomes, it) /\ UNCHANGED told

\* offer on the outcomes: when the buffer is full the oldest makes room.  The
\* reporter may take k entries between offer's failed send and its receive.
Offer(it) ==
  IF Len(outcomes) < OutcomeBuffer
    THEN outcomes' = Append(outcomes, it) /\ UNCHANGED told
    ELSE \E k \in 0 .. OutcomeBuffer - 1 :
           /\ outcomes' = Append(SubSeq(outcomes, k + 2, OutcomeBuffer), it)
           /\ told' = told \cup Actions(SubSeq(outcomes, 1, k + 1))

\* save: the exported records replace those not yet taken.
Save(rs) == states' = {Live(rs, now)}

-----------------------------------------------------------------------------
(* The loop *)

\* ActionDone tells whether the result is the current episode's.
Current(r) == ep.state = "acted" /\ ep.actedAt = r.at

\* finish: ActionDone, save, emit.
Finish(r) ==
  /\ ep' = CASE Current(r) /\ r.ok -> [ep EXCEPT !.act = r.act, !.doneAt = now]
             [] Current(r) /\ ~r.ok -> [ep EXCEPT !.state = "reported"]
             [] OTHER -> ep
  /\ IF r.ok
       THEN LET rec == [svc |-> r.svc, act |-> r.act, at |-> r.at, mode |-> "act"]
            IN records' = AddRecord(rec) /\ Save(AddRecord(rec))
       ELSE UNCHANGED <<records, states>>
  /\ Offer([kind |-> "action", at |-> r.at])
  /\ results' = <<>>
  /\ finished' = finished \cup {[svc |-> r.svc, act |-> r.decided, at |-> r.at, done |-> now,
                                 ok |-> r.ok]}

\* collect takes the result of a finished action ...
CollectResult ==
  /\ pc = "collect" /\ results # <<>>
  /\ Finish(Head(results))
  /\ pc' = "observe"
  /\ UNCHANGED <<now, mode, stopping, dangerSince, clearSince, hostFailing, running, late,
                 reportVars, lateVars>>

\* ... or the records restored late (either, when both are there) ...
CollectLate ==
  /\ pc = "collect"
  /\ \E more \in late : records' = Merged(more) /\ Save(Merged(more))
  /\ late' = {} /\ mergedAt' = now
  /\ pc' = "observe"
  /\ UNCHANGED <<now, mode, stopping, ep, dangerSince, clearSince, hostFailing, results, outVars,
                 actionVars, reportVars, restored>>

\* ... or nothing.
CollectNothing ==
  /\ pc = "collect" /\ results = <<>> /\ late = {}
  /\ pc' = "observe"
  /\ UNCHANGED <<now, mode, stopping, guardVars, hostFailing, chanVars, actionVars, reportVars,
                 lateVars>>

\* The host cannot be read: the first failure is queued for the log, and
\* nothing is judged.
HostUnreadable ==
  /\ pc = "observe"
  /\ hostFailing' = TRUE
  /\ IF hostFailing THEN UNCHANGED outVars ELSE Offer([kind |-> "error", at |-> 0])
  /\ pc' = "sleep"
  /\ UNCHANGED <<now, mode, stopping, guardVars, results, late, states, actionVars, reportVars,
                 lateVars>>

\* track: when the current run of danger or clear readings began.
DangerSince(danger) == IF ~danger THEN 0 ELSE IF dangerSince = 0 THEN now ELSE dangerSince

ClearSince(danger) == IF danger THEN 0 ELSE IF clearSince = 0 THEN now ELSE clearSince

\* A host reading ends the beat.
Track(danger) ==
  /\ pc = "observe" /\ pc' = "sleep"
  /\ dangerSince' = DangerSince(danger)
  /\ clearSince' = ClearSince(danger)
  /\ hostFailing' = FALSE
  /\ UNCHANGED <<now, mode, stopping, results, late, finished, reportVars, lateVars>>

\* Fault: the action is judged while it still runs, from when it was decided.
JudgedFromDecision == now - ep.actedAt >= RecoveryWindow

\* recovered: the action has finished and the recovery window has passed since.
RecoveryOver == ep.doneAt # 0 /\ now - ep.doneAt >= RecoveryWindow

\* Fault: one danger reading is enough.
AnyDanger(danger) == danger

\* Danger held for DangerFor.
DangerHeld(danger) == danger /\ now - DangerSince(danger) >= DangerFor

\* The reading leads to a decision.
Due(danger) ==
  \/ ep.state \in {"idle", "danger"} /\ DangerHeld(danger)
  \/ ep.state = "acted" /\ danger /\ RecoveryOver

\* The episode is over, for a clear reading.
EpisodeOver ==
  CASE ep.state \in {"idle", "danger"} -> TRUE
    [] ep.state = "acted" -> RecoveryOver /\ now - ClearSince(FALSE) >= DangerFor
    [] ep.state \in {"reported", "not_recovered"} -> now - ClearSince(FALSE) >= RecoveryWindow

\* ObserveHost without a decision.
Observe(danger) ==
  /\ Track(danger) /\ ~Due(danger)
  /\ ep' = CASE ~danger /\ EpisodeOver -> NoEpisode
             [] danger /\ ep.state = "idle" -> [NoEpisode EXCEPT !.state = "danger"]
             [] OTHER -> ep
  /\ UNCHANGED <<records, running, outVars, states>>

\* recovered: still in danger after the window.
NotRecovered ==
  /\ Track(TRUE) /\ ep.state = "acted" /\ Due(TRUE)
  /\ ep' = [ep EXCEPT !.state = "not_recovered"]
  /\ Offer([kind |-> "not_recovered", at |-> now])
  /\ UNCHANGED <<records, running, states>>

\* decide, without an action: no culprit, or a protected one.
ReportOnly ==
  /\ Track(TRUE) /\ ep.state # "acted" /\ Due(TRUE)
  /\ ep' = [ep EXCEPT !.state = "reported"]
  /\ Offer([kind |-> "reported", at |-> now])
  /\ UNCHANGED <<records, running, states>>

\* decide in report mode: the record is kept and saved, nothing is done.
WouldAct(svc) ==
  /\ Track(TRUE) /\ ep.state # "acted" /\ Due(TRUE) /\ mode = "report"
  /\ LET rec == [svc |-> svc, act |-> ActionFor(svc), at |-> now, mode |-> "report"]
     IN records' = AddRecord(rec) /\ Save(AddRecord(rec))
  /\ ep' = [ep EXCEPT !.state = "reported"]
  /\ Offer([kind |-> "reported", at |-> now])
  /\ UNCHANGED running

\* decide in act mode: the action starts in its own goroutine.
Act(svc) ==
  /\ Track(TRUE) /\ ep.state # "acted" /\ Due(TRUE) /\ mode = "act"
  /\ ep' = [state |-> "acted", act |-> ActionFor(svc), actedAt |-> now, doneAt |-> 0]
  /\ running' = running \cup {[svc |-> svc, act |-> ActionFor(svc), at |-> now, pc |-> "run"]}
  /\ UNCHANGED <<records, outVars, states>>

\* Between two beats: the next second, or the end.
Sleep ==
  /\ pc = "sleep" /\ now < MaxNow
  /\ now' = now + 1
  /\ pc' = "collect"
  /\ UNCHANGED <<mode, stopping, guardVars, hostFailing, chanVars, actionVars, reportVars,
                 lateVars>>

Exit ==
  /\ pc = "sleep" /\ stopping
  /\ pc' = "exit"
  /\ UNCHANGED <<now, mode, stopping, guardVars, hostFailing, chanVars, actionVars, reportVars,
                 lateVars>>

\* The clock goes on while the loop waits for its action.
Wait ==
  /\ pc = "exit" /\ running # {} /\ now < MaxNow
  /\ now' = now + 1
  /\ UNCHANGED <<mode, pc, stopping, guardVars, hostFailing, chanVars, actionVars, reportVars,
                 lateVars>>

\* Fault: the loop waits for a result, which an abandoned action never sends.
AwaitResult == running = {} /\ (ep.state = "acted" /\ ep.doneAt = 0 => results # <<>>)

\* Run's way out waits for the action ...
ActionsEnded == running = {}

\* ... takes in its result, if any, and lets the reporter drain.
Leave ==
  /\ pc = "exit" /\ ActionsEnded
  /\ IF results # <<>> THEN Finish(Head(results))
     ELSE UNCHANGED <<ep, records, states, outVars, results, finished>>
  /\ pc' = "stopped"
  /\ UNCHANGED <<now, mode, stopping, dangerSince, clearSince, hostFailing, running, late,
                 reportVars, lateVars>>

-----------------------------------------------------------------------------
(* The action's goroutine *)

\* The result goes to the loop.
SendResult(a, act, ok) ==
  /\ results = <<>>
  /\ results' = <<[svc |-> a.svc, act |-> act, decided |-> a.act, at |-> a.at, ok |-> ok]>>
  /\ running' = running \ {a}

\* run returns: the action succeeded (recorded even when the guard stops) ...
Succeed(a) ==
  /\ a.pc = "run"
  /\ SendResult(a, a.act, TRUE)
  /\ UNCHANGED <<now, mode, pc, stopping, guardVars, hostFailing, late, outVars, states, finished,
                 reportVars, lateVars>>

\* ... or failed, by an error the runtime returned ...
Fail(a) ==
  /\ a.pc = "run" /\ ~stopping
  /\ SendResult(a, a.act, FALSE)
  /\ UNCHANGED <<now, mode, pc, stopping, guardVars, hostFailing, late, outVars, states, finished,
                 reportVars, lateVars>>

\* ... or timed out, or could not reach its runtime, and falls back to a kill ...
FallBack(a) ==
  /\ a.pc = "run" /\ ~stopping
  /\ running' = (running \ {a}) \cup {[a EXCEPT !.pc = "kill"]}
  /\ UNCHANGED <<now, mode, pc, stopping, guardVars, hostFailing, chanVars, finished, reportVars,
                 lateVars>>

\* ... or failed in any of these ways while the guard stops: it is dropped.
Abandon(a) ==
  /\ a.pc = "run" /\ stopping
  /\ running' = running \ {a}
  /\ UNCHANGED <<now, mode, pc, stopping, guardVars, hostFailing, chanVars, finished, reportVars,
                 lateVars>>

\* kill: through the kernel.
Kill(a, ok) ==
  /\ a.pc = "kill"
  /\ SendResult(a, IF ok THEN "kill" ELSE a.act, ok)
  /\ UNCHANGED <<now, mode, pc, stopping, guardVars, hostFailing, late, outVars, states, finished,
                 reportVars, lateVars>>

-----------------------------------------------------------------------------
(* The reporter's goroutine and the others *)

\* deliver and drain: an outcome is reported ...
Report ==
  /\ rpc # "done" /\ outcomes # <<>>
  /\ told' = told \cup Actions(<<Head(outcomes)>>)
  /\ outcomes' = Tail(outcomes)
  /\ UNCHANGED <<now, mode, pc, stopping, guardVars, hostFailing, results, late, states,
                 actionVars, reportVars, lateVars>>

\* ... the state is saved ...
SaveState ==
  /\ rpc = "deliver" /\ states # {}
  /\ saved' = UNION states
  /\ states' = {}
  /\ UNCHANGED <<now, mode, pc, stopping, guardVars, hostFailing, results, late, outVars,
                 actionVars, rpc, lateVars>>

\* ... until the loop has stopped.
Drain ==
  /\ rpc = "deliver" /\ pc = "stopped"
  /\ rpc' = "drain"
  /\ UNCHANGED <<now, mode, pc, stopping, guardVars, hostFailing, chanVars, actionVars, saved,
                 lateVars>>

\* Fault: the state still queued is not saved.
NothingMore == saved

\* The state still queued when the outcomes are drained.
LastState == IF states = {} THEN saved ELSE UNION states

\* drain's end: the outcomes are out, and the last state is saved.
DrainEnd ==
  /\ rpc = "drain" /\ outcomes = <<>>
  /\ saved' = LastState
  /\ states' = {}
  /\ rpc' = "done"
  /\ UNCHANGED <<now, mode, pc, stopping, guardVars, hostFailing, results, late, outVars,
                 actionVars, lateVars>>

\* RestoreLate, by the runner's goroutine.
RestoreLate ==
  /\ ~restored
  /\ restored' = TRUE
  /\ late' = {Prior}
  /\ UNCHANGED <<now, mode, pc, stopping, guardVars, hostFailing, results, outVars, states,
                 actionVars, reportVars, mergedAt>>

\* The daemon stops the guard.
Stop ==
  /\ ~stopping
  /\ stopping' = TRUE
  /\ UNCHANGED <<now, mode, pc, guardVars, hostFailing, chanVars, actionVars, reportVars, lateVars>>

LoopStep ==
  \/ CollectResult \/ CollectLate \/ CollectNothing \/ HostUnreadable
  \/ \E danger \in BOOLEAN : Observe(danger)
  \/ NotRecovered \/ ReportOnly
  \/ \E svc \in Services \ Protected : WouldAct(svc) \/ Act(svc)
  \/ Leave

ActionStep ==
  \E a \in running :
    \/ Succeed(a) \/ Fail(a) \/ FallBack(a) \/ Abandon(a)
    \/ \E ok \in BOOLEAN : Kill(a, ok)

ReporterStep == Report \/ SaveState \/ Drain \/ DrainEnd

Next ==
  \/ LoopStep \/ Sleep \/ Exit \/ Wait \/ ActionStep \/ ReporterStep
  \/ RestoreLate \/ Stop

\* The loop beats; its timer and ctx are in one select, which does not starve
\* either; an action is bounded by its timeout; the reporter's reports are
\* bounded by the delivery lanes.
Fairness ==
  /\ WF_vars(LoopStep) /\ WF_vars(Sleep) /\ SF_vars(Exit)
  /\ WF_vars(ActionStep) /\ WF_vars(ReporterStep)

Spec == Init /\ [][Next]_vars /\ Fairness

-----------------------------------------------------------------------------
(* Properties *)

\* "The guard decides no new action before ActionDone, so at most one runs"
\* (handle): an action in progress, or its result, belongs to the current
\* episode, which is not judged before; results' single slot never blocks.
OneActionAtATime ==
  /\ Cardinality(running) + Len(results) <= 1
  /\ \A a \in running : ep.state = "acted" /\ ep.actedAt = a.at /\ ep.doneAt = 0

\* The decisions of actions, in progress or finished.
Decisions == {[svc |-> a.svc, act |-> a.act, at |-> a.at] : a \in running}
               \cup {[svc |-> f.svc, act |-> f.act, at |-> f.at] : f \in finished}

\* FR-006: actions run one at a time, and after one that succeeded the guard
\* waits for the recovery window from its end, sees a clear reading, and only
\* then counts a new danger, held for DangerFor, before it acts again, on
\* whichever service.
ActionsSpaced ==
  /\ TypeOK /\ OneActionAtATime
  /\ \A f \in finished, d \in Decisions :
       f.ok /\ f.at < d.at => d.at > f.done + RecoveryWindow + DangerFor

\* FR-005: a service that ran away again within the repeat window is stopped,
\* not restarted, whatever else was recorded, merged or pruned meanwhile; once
\* the earlier run's records are in, the actions of that run count too.
RepeatIsStopped ==
  \A d \in Decisions :
    \/ d.act = "stop"
    \/ /\ \A f \in finished :
            ~(f.ok /\ f.svc = d.svc /\ f.at < d.at /\ d.at - f.at <= RepeatWindow)
       /\ \A p \in Prior :
            ~(mergedAt \in 1 .. d.at /\ p.svc = d.svc /\ d.at - p.at <= RepeatWindow)

\* Once the guard has stopped, all it did is told and kept: each finished
\* action's outcome was reported or dropped by the full buffer, and what the
\* reporter saved last holds every successful action still in the window.
ToldAndKept ==
  rpc = "done" =>
    /\ {f.at : f \in finished} \subseteq told
    /\ \A f \in finished : f.ok /\ now - f.at <= RepeatWindow
         => \E r \in saved : r.svc = f.svc /\ r.at = f.at

\* A guard told to stop stops, with everything drained, although an action may
\* be under way.
StopEnds == stopping ~> (rpc = "done")
=============================================================================
