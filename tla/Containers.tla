------------------------------ MODULE Containers ------------------------------
(***************************************************************************)
(* The containers check (pkg/health/check/containers/containers.go) over     *)
(* containers that crash and are restarted, are stopped, started, removed    *)
(* and changed by hand between its runs.  A restart that the check did not   *)
(* see coming makes the container suspect until it has been up for           *)
(* Threshold; what the check tells the engine may be lost with a result that *)
(* comes too late, and what it remembers with the process.                   *)
(***************************************************************************)
EXTENDS Integers, FiniteSets

CONSTANTS
  Names,
  Threshold,
  LastTime, MaxCount, MaxDrops, MaxEnds     \* bounds

VARIABLES
  time, drops, ends, loaded,
  box,          \* name -> the container, "none" when there is no such container
  prev,         \* name -> {} or {observation}
  open,         \* the engine's open conditions
  out,          \* {} or {the result on its way}
  stored,
  \* history
  up,           \* name -> since when it has been up without an unexpected restart, or LastTime + 1
  deaf          \* names whose end was in a dropped result, or forgotten with the process

history == <<up, deaf>>
vars == <<time, drops, ends, loaded, box, prev, open, out, stored, history>>

Gone == [state |-> "none", watched |-> FALSE, started |-> 0, count |-> 0]
Fresh(t) == [state |-> "running", watched |-> TRUE, started |-> t, count |-> 0]

Init ==
  /\ time = 0 /\ drops = 0 /\ ends = 0 /\ loaded = FALSE
  /\ box = [n \in Names |-> Fresh(0)] /\ prev = [n \in Names |-> {}]
  /\ open = {} /\ out = {} /\ stored = [prev |-> prev, open |-> {}]
  /\ up = [n \in Names |-> 0] /\ deaf = {}

-----------------------------------------------------------------------------
(* The engine's containers *)

Change(n, b) == box' = [box EXCEPT ![n] = b]

\* It dies and its restart policy brings it back, at once or after a pause.
CrashRestart(n) ==
  /\ box[n].state \in {"running", "restarting"} /\ box[n].count < MaxCount
  /\ \E s \in {"running", "restarting"} :
       Change(n, [box[n] EXCEPT !.state = s, !.started = IF s = "running" THEN time ELSE @, !.count = @ + 1])
  /\ up' = [up EXCEPT ![n] = time]
  /\ UNCHANGED <<time, drops, ends, loaded, prev, open, out, stored, deaf>>

\* Stopped, or started again, by hand.
StopStart(n) ==
  /\ \/ box[n].state = "running" /\ Change(n, [box[n] EXCEPT !.state = "exited"])
     \/ box[n].state = "exited" /\ Change(n, [box[n] EXCEPT !.state = "running", !.started = time, !.count = 0])
  /\ UNCHANGED <<time, drops, ends, loaded, prev, open, out, stored, history>>

\* Removed, or its restart policy or the exclude list changed.
Unwatch(n) ==
  /\ box[n].watched
  /\ \E b \in {Gone, [box[n] EXCEPT !.watched = FALSE]} : Change(n, b)
  /\ UNCHANGED <<time, drops, ends, loaded, prev, open, out, stored, history>>

-----------------------------------------------------------------------------
(* The check *)

Observation(b, suspect) ==
  [stopped |-> b.state = "exited", suspect |-> suspect, count |-> b.count, started |-> b.started]

Up(b) == b.state = "running" /\ time - b.started >= Threshold

\* A plausible fault: a suspect container is forgiven once it is seen running unchanged.
Forgiving(b, p) ==
  /\ \E o \in p : ~o.stopped /\ (o.count /= b.count \/ o.started /= b.started)
  /\ ~Up(b)

\* isSuspect
Suspect(b, p) ==
  /\ \E o \in p : o.suspect \/ (~o.stopped /\ (o.count /= b.count \/ o.started /= b.started))
  /\ ~Up(b)

\* judge: restarting, not running, unhealthy or suspect.
Bad(b, p, sick) == b.state /= "running" \/ sick \/ Suspect(b, p)

\* A plausible fault: only a container that no longer exists is let go.
Absent == {n \in Names : prev[n] /= {} /\ box[n].state = "none"}

\* Known and no longer listed or watched.
LetGo == {n \in Names : prev[n] /= {} /\ ~box[n].watched}

Watched == {n \in Names : box[n].watched}

\* A listing failure judges nothing and forgets nothing.
Run ==
  /\ out = {}
  /\ \E sick \in SUBSET Watched :
       LET bad == {n \in Watched : Bad(box[n], prev[n], n \in sick)}
       IN out' = {[bad |-> bad, good |-> Watched \ bad, ended |-> LetGo]}
  /\ prev' = [n \in Names |->
       IF n \in Watched THEN {Observation(box[n], Suspect(box[n], prev[n]))}
       ELSE IF n \in LetGo THEN {} ELSE prev[n]]
  /\ UNCHANGED <<time, drops, ends, loaded, box, open, stored, history>>

\* The engine takes the result; the threshold is its own business.
Apply ==
  /\ \E r \in out : open' = (open \cup r.bad) \ (r.good \cup r.ended)
  /\ out' = {}
  /\ \E r \in out : deaf' = (deaf \cap open') \ r.bad
  /\ UNCHANGED <<time, drops, ends, loaded, box, prev, stored, up>>

\* The run was given up before its result came.
Drop ==
  /\ drops < MaxDrops /\ drops' = drops + 1
  /\ \E r \in out : deaf' = deaf \cup r.ended
  /\ out' = {}
  /\ UNCHANGED <<time, ends, loaded, box, prev, open, stored, up>>

Save ==
  /\ loaded /\ out = {}
  /\ stored' = [prev |-> prev, open |-> open]
  /\ UNCHANGED <<time, drops, ends, loaded, box, prev, open, out, history>>

\* Late, the stored observations replace the check's; the engine keeps its newer ones.
Load ==
  /\ ~loaded /\ loaded' = TRUE /\ out = {}
  /\ prev' = stored.prev /\ open' = open \cup stored.open
  /\ deaf' = deaf \cup {n \in open' : stored.prev[n] = {}}
  /\ UNCHANGED <<time, drops, ends, box, out, stored, up>>

End ==
  /\ ends < MaxEnds /\ ends' = ends + 1
  /\ loaded' = FALSE /\ prev' = [n \in Names |-> {}] /\ open' = {} /\ out' = {} /\ deaf' = {}
  /\ UNCHANGED <<time, drops, box, stored, up>>

Pass ==
  /\ time < LastTime /\ time' = time + 1
  /\ UNCHANGED <<drops, ends, loaded, box, prev, open, out, stored, history>>

Next ==
  \/ \E n \in Names : CrashRestart(n) \/ StopStart(n) \/ Unwatch(n)
  \/ Run \/ Apply \/ Drop \/ Save \/ Load \/ End \/ Pass

Spec == Init /\ [][Next]_vars

-----------------------------------------------------------------------------

\* A container the check has been watching all along is never called good within
\* Threshold of a crash: neither the run that first sees it back, nor a later one, nor
\* one that finds it stopped and started in between.
NoEarlyGood ==
  \A r \in out' \ out : \A n \in r.good :
       (\E o \in prev[n] : o.suspect \/ (~o.stopped /\ up[n] > o.started)) /\ box[n].started >= up[n]
         => time - up[n] >= Threshold

\* When a result has been applied, every problem still open is one this run saw: a
\* container that was removed, or is no longer watched, takes its problem with it,
\* unless the run that said so was dropped or the process lost what it knew.
OpenIsJudged ==
  \A r \in out : out' = {} /\ drops' = drops /\ ends' = ends => open' \ deaf' \subseteq r.bad
==============================================================================
