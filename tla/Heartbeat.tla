------------------------------- MODULE Heartbeat -------------------------------
(***************************************************************************)
(* The heartbeat file (pkg/host/lockfile/lockfile.go): the daemon's ticks and  *)
(* `tgshd heartbeat --planned-reboot` are processes that read, change and      *)
(* replace one file under a sidecar lock, and may be killed at any step.  The  *)
(* daemon also starts other programs, each of which shares its open files for  *)
(* a moment.                                                                   *)
(***************************************************************************)
EXTENDS Integers

CONSTANTS
  Commands,     \* `tgshd heartbeat` processes
  Windows,      \* seconds they ask for, 0 to clear
  LastTime, MaxTicks, MaxSpoils     \* bounds

Daemon == 0
Procs == Commands \cup {Daemon}

VARIABLES
  time, ticks, spoils,
  file,         \* [ts, planned], or [ts |-> 0, planned |-> 0] when missing or corrupt
  hidden,       \* the file cannot be read
  lock,         \* the process whose open file holds the sidecar lock, or -1
  proc,         \* process -> [at, now, want, read]
  child,        \* a child of the daemon still shares its open files
  \* history
  asked,        \* the planned_until of the last command that replaced the file
  beat          \* the time of the last tick, or first command, that did

history == <<asked, beat>>
vars == <<time, ticks, spoils, file, hidden, lock, proc, child, history>>

Empty == [ts |-> 0, planned |-> 0]
Idle == [at |-> "idle", now |-> 0, want |-> 0, read |-> Empty]

\* The clock starts above 0, as a heartbeat without a time has ts 0.
Init ==
  /\ time = 1 /\ ticks = 0 /\ spoils = 0
  /\ file = Empty /\ hidden = FALSE /\ lock = -1 /\ proc = [p \in Procs |-> Idle] /\ child = FALSE
  /\ asked = 0 /\ beat = 0

-----------------------------------------------------------------------------
(* update *)

\* WriteTick and runHeartbeat read the clock before they wait for the lock.
Begin(p, want) ==
  /\ proc[p].at = "idle"
  /\ IF p = Daemon THEN ticks < MaxTicks /\ ticks' = ticks + 1 ELSE UNCHANGED ticks
  /\ proc' = [proc EXCEPT ![p] = [at |-> "waits", now |-> time, want |-> want, read |-> Empty]]
  /\ UNCHANGED <<time, spoils, file, hidden, lock, child, history>>

\* A plausible fault: the file is changed without the lock.
AnyTime == TRUE

LockFree == lock = -1

Lock(p) ==
  /\ proc[p].at = "waits" /\ LockFree
  /\ lock' = p /\ proc' = [proc EXCEPT ![p].at = "reads"]
  /\ UNCHANGED <<time, ticks, spoils, file, hidden, child, history>>

\* A plausible fault: the file is only closed.
CloseOnly(p) == IF lock = p /\ ~(p = Daemon /\ child) THEN -1 ELSE lock

\* unlockAndClose: LOCK_UN also frees a lock that a child's copy would keep.
Unlock(p) == IF lock = p THEN -1 ELSE lock

\* A plausible fault: a file that cannot be read counts as empty.
ReadAnyway == {IF hidden THEN Empty ELSE file}

\* ReadHeartbeat: missing and corrupt count as empty; unreadable is an error.
ReadHeartbeat == IF hidden THEN {} ELSE {file}

Read(p) ==
  /\ proc[p].at = "reads"
  /\ \/ \E h \in ReadHeartbeat : proc' = [proc EXCEPT ![p].at = "writes", ![p].read = h]
     \/ ReadHeartbeat = {} /\ proc' = [proc EXCEPT ![p].at = "unlocks"]
  /\ UNCHANGED <<time, ticks, spoils, file, hidden, lock, child, history>>

\* WriteTick keeps the window until it has passed.
Tick(h, now) == [ts |-> now, planned |-> IF h.planned > now THEN h.planned ELSE 0]

\* A plausible fault: a command stamps the file like a tick.
StampAlways(h, now) == now

\* A file without a time gets one, so that a watchdog does not take it for stale.
StampFirst(h, now) == IF h.ts = 0 THEN now ELSE h.ts

\* SetPlanned
Plan(h, now, seconds) == [ts |-> StampFirst(h, now), planned |-> IF seconds > 0 THEN now + seconds ELSE 0]

\* writeAtomic's rename; what fails before it only leaves the file as it was.
Rename(p) ==
  LET r == proc[p]
      new == IF p = Daemon THEN Tick(r.read, r.now) ELSE Plan(r.read, r.now, r.want)
  IN /\ r.at = "writes"
     /\ file' = new
     /\ asked' = IF p = Daemon THEN asked ELSE new.planned
     /\ beat' = IF p = Daemon \/ beat = 0 THEN r.now ELSE beat
     /\ proc' = [proc EXCEPT ![p].at = "unlocks"]
     /\ UNCHANGED <<time, ticks, spoils, hidden, lock, child>>

WriteFails(p) ==
  /\ proc[p].at = "writes"
  /\ proc' = [proc EXCEPT ![p].at = "unlocks"]
  /\ UNCHANGED <<time, ticks, spoils, file, hidden, lock, child, history>>

Return(p) ==
  /\ proc[p].at = "unlocks"
  /\ lock' = Unlock(p) /\ proc' = [proc EXCEPT ![p] = Idle]
  /\ UNCHANGED <<time, ticks, spoils, file, hidden, child, history>>

-----------------------------------------------------------------------------
(* The host *)

\* A killed process closes its files; the daemon's children are killed with it.
Kill(p) ==
  /\ proc[p].at /= "idle"
  /\ lock' = IF lock = p THEN -1 ELSE lock
  /\ proc' = [proc EXCEPT ![p] = Idle]
  /\ child' = (child /\ p /= Daemon)
  /\ UNCHANGED <<time, ticks, spoils, file, hidden, history>>

\* The daemon forks, and the child replaces itself with another program.
Fork ==
  /\ ~child /\ child' = TRUE
  /\ UNCHANGED <<time, ticks, spoils, file, hidden, lock, proc, history>>

Exec ==
  /\ child /\ child' = FALSE
  /\ lock' = IF lock = Daemon /\ proc[Daemon].at \notin {"reads", "writes", "unlocks"} THEN -1 ELSE lock
  /\ UNCHANGED <<time, ticks, spoils, file, hidden, proc, history>>

\* Permissions or the disk take the file away, or give it back.
Hide ==
  /\ spoils < MaxSpoils /\ spoils' = spoils + 1
  /\ hidden' = ~hidden
  /\ UNCHANGED <<time, ticks, file, lock, proc, child, history>>

Pass ==
  /\ time < LastTime /\ time' = time + 1
  /\ UNCHANGED <<ticks, spoils, file, hidden, lock, proc, child, history>>

Next ==
  \/ \E p \in Procs : \/ \E want \in Windows : (p = Daemon => want = 0) /\ Begin(p, want)
                      \/ Lock(p) \/ Read(p) \/ Rename(p) \/ WriteFails(p) \/ Return(p) \/ Kill(p)
  \/ Fork \/ Exec \/ Hide \/ Pass

Spec == Init /\ [][Next]_vars

-----------------------------------------------------------------------------

\* Whatever order ticks and commands come in, and wherever one is killed, a watchdog
\* finds in the file the window of the last command, until a tick at or after its end
\* cleared it, and the time of the last tick.
FileIsCurrent ==
  /\ file.ts = beat
  /\ file.planned = asked \/ (file.planned = 0 /\ asked <= file.ts)

\* Nobody waits for a lock whose owner has left its update.
LockIsFreed == lock /= -1 => proc[lock].at \in {"reads", "writes", "unlocks"}
==============================================================================
