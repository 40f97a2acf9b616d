---------------------------- MODULE GuardRecords ----------------------------
(***************************************************************************)
(* The memory guard's intervention records between its loop, its writer and *)
(* the store (cmd/health_memory.go): they are restored when the runner      *)
(* loads the state, perhaps after the loop started; the loop's deliver      *)
(* goroutine saves them into guardState; the writer puts what changed into  *)
(* kv memory.guard, retries, and a last time after the loop has ended.      *)
(*                                                                          *)
(* A record is the time its action was decided, one action at a time (the   *)
(* loop itself is module GuardLoop).  A stored value that cannot be decoded *)
(* restores as none: kv = {}.  Record lists are sets.                       *)
(***************************************************************************)
EXTENDS Integers, Sequences, FiniteSets

CONSTANTS
  Window,                 \* repeat_window
  MaxNow, MaxEnds, MaxFails \* bounds: clock, process ends, failed writes

VARIABLES
  now, ends, fails, stopping,
  kv,         \* kv memory.guard
  errs,       \* start errors not raised yet
  mode,       \* the mode /status shows
  phase,      \* the loop
  recs,       \* the loop's records
  acting,     \* the running action's record, or 0
  lateCh,     \* the loop's late channel (0 or 1 list)
  states,     \* the loop's states channel (0 or 1 list)
  saver,      \* the deliver goroutine inside Save: "idle" or "signal"
  records, late, started, restored, version, written, \* guardState
  dirty,      \* its channel
  loader,     \* the runner's Restore: "no", "handoff", "signal", "yes"
  writer, snap \* the writer and the list and version it is writing

stVars == <<records, late, started, restored, version, written>>
loopVars == <<phase, recs, acting, lateCh, states, saver>>
startVars == <<errs, mode>>
boundVars == <<now, ends, fails>>
vars == <<boundVars, stopping, kv, startVars, loopVars, stVars, dirty, loader, writer, snap>>

NoSnap == [recs |-> {}, version |-> 0]

InitProcess ==
  /\ stopping = FALSE /\ errs = <<>> /\ mode = "act"
  /\ phase = "off" /\ recs = {} /\ acting = 0 /\ lateCh = <<>> /\ states = <<>> /\ saver = "idle"
  /\ records = {} /\ late = {} /\ started = FALSE /\ restored = FALSE /\ version = 0 /\ written = 0
  /\ dirty = FALSE /\ loader = "no" /\ writer = "off" /\ snap = NoSnap

Init == InitProcess /\ now = 1 /\ ends = 0 /\ fails = 0 /\ kv = {}

\* Record.Within
Within(r, t) == t - r <= Window

\* prune: Export, Restore and addRecord keep what is within the window.
Prune(rs) == {r \in rs : Within(r, now)}

\* MergeRecords
Merge(own, more) == Prune(own \cup more)

-----------------------------------------------------------------------------
(* The start *)

\* run: the shield first; an unmeasurable host leaves the guard not running, an
\* unknown cgroup of its own makes act fall back to report.
StartErrors(shield, survey, host, self) ==
  (IF shield THEN <<>> ELSE <<"shield">>) \o
  CASE ~survey -> <<"cgroup">>
    [] survey /\ ~host -> <<"host">>
    [] survey /\ host /\ ~self -> <<"self">>
    [] OTHER -> <<>>

StartGuard(shield, survey, host, self) ==
  /\ phase = "off" /\ ~stopping
  /\ errs' = StartErrors(shield, survey, host, self)
  /\ mode' = CASE ~(survey /\ host) -> "not running" [] ~self -> "report" [] OTHER -> "act"
  /\ IF survey /\ host
       THEN \* loop.Restore(g.state.start(loop.RestoreLate)), then the writer
            /\ started' = TRUE /\ recs' = Prune(records)
            /\ phase' = "running" /\ writer' = "wait"
       ELSE phase' = "ended" /\ UNCHANGED <<started, recs, writer>>
  /\ UNCHANGED <<boundVars, stopping, kv, acting, lateCh, states, saver, records, late, restored, version,
                 written, dirty, loader, snap>>

\* raiseAll: one checker error at a time, until the stop.
Raise ==
  /\ errs # <<>> /\ errs' = IF stopping THEN <<>> ELSE Tail(errs)
  /\ UNCHANGED <<boundVars, stopping, kv, mode, loopVars, stVars, dirty, loader, writer, snap>>

-----------------------------------------------------------------------------
(* The loop and its deliver goroutine *)

\* offer on a channel of one: a list not taken yet is replaced.
Offer(rs) == <<rs>>

Act ==
  /\ phase = "running" /\ acting = 0 /\ now \notin recs \cup kv
  /\ acting' = now
  /\ UNCHANGED <<boundVars, stopping, kv, startVars, phase, recs, lateCh, states, saver, stVars, dirty,
                 loader, writer, snap>>

\* finish: an action that succeeded is recorded and saved; Run takes it in on its
\* way out, too.
Finish(ok) ==
  /\ acting # 0 /\ acting' = 0
  /\ recs' = IF ok THEN Prune(recs) \cup {acting} ELSE recs
  /\ states' = IF ok THEN Offer(Prune(recs')) ELSE states
  /\ UNCHANGED <<boundVars, stopping, kv, startVars, phase, lateCh, saver, stVars, dirty, loader, writer,
                 snap>>

\* collect, late records
CollectLate ==
  /\ phase = "running" /\ lateCh # <<>>
  /\ recs' = Merge(recs, lateCh[1]) /\ lateCh' = <<>>
  /\ states' = Offer(Prune(recs'))
  /\ UNCHANGED <<boundVars, stopping, kv, startVars, phase, acting, saver, stVars, dirty, loader, writer,
                 snap>>

\* Fault: the loop's records replace the late ones.
DropLate(rs) == {}

\* Save keeps the late records the loop does not hold.
KeepLate(rs) == {r \in late : Within(r, now) /\ r \notin rs}

\* deliver calls guardState.Save (the part under its lock).
Save ==
  /\ states # <<>> /\ saver = "idle"
  /\ states' = <<>> /\ saver' = "signal"
  /\ records' = states[1] /\ late' = KeepLate(states[1]) /\ version' = version + 1
  /\ UNCHANGED <<boundVars, stopping, kv, startVars, phase, recs, acting, lateCh, started, restored, written,
                 dirty, loader, writer, snap>>

\* signal, after the unlock
SaveSignal ==
  /\ saver = "signal" /\ saver' = "idle" /\ dirty' = TRUE
  /\ UNCHANGED <<boundVars, stopping, kv, startVars, phase, recs, acting, lateCh, states, stVars, loader,
                 writer, snap>>

\* Fault: the loop's end does not wait for the last records to be saved.
LeaveEarly == acting = 0

\* Run leaves: the action has ended, the deliver goroutine has drained.
Drained == acting = 0 /\ states = <<>> /\ saver = "idle"

Leave ==
  /\ phase = "running" /\ stopping /\ Drained
  /\ phase' = "left"
  /\ UNCHANGED <<boundVars, stopping, kv, startVars, recs, acting, lateCh, states, saver, stVars, dirty,
                 loader, writer, snap>>

-----------------------------------------------------------------------------
(* The restore *)

\* Restore, under its lock: records restored before the start are taken by it;
\* later ones are kept beside the loop's.
Restore ==
  /\ loader = "no" /\ restored' = TRUE
  /\ IF started THEN late' = kv /\ version' = version + 1 /\ loader' = "handoff" /\ UNCHANGED records
     ELSE records' = kv /\ loader' = "yes" /\ UNCHANGED <<late, version>>
  /\ UNCHANGED <<boundVars, stopping, kv, startVars, loopVars, started, written, dirty, writer, snap>>

\* RestoreLate: all the records restored late are offered to the loop.
Handoff ==
  /\ loader = "handoff" /\ loader' = "signal" /\ lateCh' = Offer(late)
  /\ UNCHANGED <<boundVars, stopping, kv, startVars, phase, recs, acting, states, saver, stVars, dirty, writer,
                 snap>>

RestoreSignal ==
  /\ loader = "signal" /\ loader' = "yes" /\ dirty' = TRUE
  /\ UNCHANGED <<boundVars, stopping, kv, startVars, loopVars, stVars, writer, snap>>

-----------------------------------------------------------------------------
(* The writer *)

All == IF late = {} THEN records ELSE Merge(records, late)

\* Fault: what is unwritten is written although the store was not read yet.
UnwrittenBlind == version # written

Unwritten == restored /\ version # written

Wake ==
  /\ writer = "wait" /\ dirty /\ dirty' = FALSE /\ writer' = "write"
  /\ UNCHANGED <<boundVars, stopping, kv, startVars, loopVars, stVars, loader, snap>>

\* write: nothing to write, or the list and its version under the lock.
BeginWrite ==
  /\ writer \in {"write", "final"}
  /\ IF Unwritten
       THEN writer' = (IF writer = "write" THEN "put" ELSE "final put") /\ snap' = [recs |-> All, version |-> version]
       ELSE writer' = (IF writer = "write" THEN "wait" ELSE "ended") /\ UNCHANGED snap
  /\ UNCHANGED <<boundVars, stopping, kv, startVars, loopVars, stVars, dirty, loader>>

\* Fault: what was saved meanwhile counts as written, too.
MarkAll == version

\* markWritten
MarkWritten == IF snap.version > written THEN snap.version ELSE written

\* PutKV returns, in time.
Put ==
  /\ writer \in {"put", "final put"} /\ kv' = snap.recs /\ snap' = NoSnap
  /\ written' = MarkWritten
  /\ writer' = IF writer = "put" THEN "wait" ELSE "ended"
  /\ UNCHANGED <<boundVars, stopping, startVars, loopVars, records, late, started, restored, version, dirty,
                 loader>>

\* PutKV fails, or is cut off when it was applied already.
PutFails(applied) ==
  /\ writer \in {"put", "final put"} /\ fails < MaxFails /\ fails' = fails + 1
  /\ kv' = (IF applied THEN snap.recs ELSE kv) /\ snap' = NoSnap
  /\ writer' = IF writer = "put" THEN "retry" ELSE "ended"
  /\ UNCHANGED <<now, ends, stopping, startVars, loopVars, stVars, dirty, loader>>

\* The writer retries at the next runner tick.
Retry ==
  /\ writer = "retry" /\ writer' = "write"
  /\ UNCHANGED <<boundVars, stopping, kv, startVars, loopVars, stVars, dirty, loader, snap>>

\* The writer ends with ctx ...
WriterStops ==
  /\ stopping /\ writer \in {"wait", "retry"} /\ writer' = "done"
  /\ UNCHANGED <<boundVars, stopping, kv, startVars, loopVars, stVars, dirty, loader, snap>>

\* ... and when the loop has left, too, the final write begins.
FinalWrite ==
  /\ phase = "left" /\ writer = "done"
  /\ phase' = "ended" /\ writer' = "final"
  /\ UNCHANGED <<boundVars, stopping, kv, startVars, recs, acting, lateCh, states, saver, stVars, dirty,
                 loader, snap>>

-----------------------------------------------------------------------------
(* The process *)

Tick ==
  /\ now < MaxNow /\ now' = now + 1
  /\ UNCHANGED <<ends, fails, stopping, kv, startVars, loopVars, stVars, dirty, loader, writer, snap>>

Stop ==
  /\ ~stopping /\ stopping' = TRUE
  /\ UNCHANGED <<boundVars, kv, startVars, loopVars, stVars, dirty, loader, writer, snap>>

\* The process ends, stopped or not (OnStop waits for the guard no longer than
\* its ctx), and another starts.
Crash ==
  /\ ends < MaxEnds /\ ends' = ends + 1 /\ UNCHANGED <<now, fails, kv>>
  /\ stopping' = FALSE /\ errs' = <<>> /\ mode' = "act"
  /\ phase' = "off" /\ recs' = {} /\ acting' = 0 /\ lateCh' = <<>> /\ states' = <<>> /\ saver' = "idle"
  /\ records' = {} /\ late' = {} /\ started' = FALSE /\ restored' = FALSE /\ version' = 0 /\ written' = 0
  /\ dirty' = FALSE /\ loader' = "no" /\ writer' = "off" /\ snap' = NoSnap

Next ==
  \/ \E shield, survey, host, self \in BOOLEAN : StartGuard(shield, survey, host, self)
  \/ Raise \/ Act \/ \E ok \in BOOLEAN : Finish(ok)
  \/ CollectLate \/ Save \/ SaveSignal \/ Leave
  \/ Restore \/ Handoff \/ RestoreSignal
  \/ Wake \/ BeginWrite \/ Put \/ (\E a \in BOOLEAN : PutFails(a)) \/ Retry \/ WriterStops \/ FinalWrite
  \/ Tick \/ Stop \/ Crash

Spec == Init /\ [][Next]_vars

-----------------------------------------------------------------------------
(* Properties *)

TypeOK ==
  /\ kv \subseteq 1 .. MaxNow /\ recs \subseteq 1 .. MaxNow /\ records \subseteq 1 .. MaxNow
  /\ phase \in {"off", "running", "left", "ended"}
  /\ writer \in {"off", "wait", "write", "put", "retry", "done", "final", "final put", "ended"}
  /\ written <= version

\* A stored record never leaves the store while the repeat window still counts
\* it: not when the guard acts before the store is read, not across crashes.
StoredStays == \A r \in kv : Within(r, now') => r \in kv'

\* Once the late records have reached the loop, the running guard knows every
\* stored action the repeat window counts, so a repeat is stopped, not restarted.
LoopKnowsStored == restored /\ loader = "yes" /\ lateCh = <<>> /\ phase = "running" => Prune(kv) \subseteq recs

\* A guard that has ended with its final write done leaves every counted action
\* of its loop in the store, one that succeeded while stopping too.
EndsWritten == writer = "ended" /\ restored /\ version = written => Prune(recs) \subseteq kv
=============================================================================
