------------------------------- MODULE Engine -------------------------------
(***************************************************************************)
(* The threshold state machine of pkg/health/engine.go, with the wall clock *)
(* it is driven by and the snapshot the store keeps of it.  The engine's    *)
(* mutex makes every operation one step.  Times are numbers; the store      *)
(* keeps whole seconds, so saving rounds down to a multiple of Sec.         *)
(* StreakStart, LastText and the check's name are only carried along for    *)
(* the messages and are left out.                                           *)
(***************************************************************************)
EXTENDS Integers

CONSTANTS
  Keys,       \* condition keys
  Interval,   \* the check's interval
  Threshold,  \* bad time before a PROBLEM
  Sec,        \* one second, the store's resolution
  MaxNow,     \* bound: the wall clock
  MaxSeen     \* bound: bad readings of one streak

ASSUME EngineAssumption ==
  /\ Interval \in Nat /\ Threshold \in Nat /\ Sec \in Nat \ {0}
  /\ MaxNow \in Nat /\ MaxSeen \in Nat

VARIABLES
  now,     \* the wall clock, which may be set back
  conds,   \* Engine.conds
  stored,  \* the conditions table
  loaded,  \* Runner.loaded: the stored conditions were merged
  alerts   \* the alerts the last operation returned, as <<key, kind>> pairs

vars == <<now, conds, stored, loaded, alerts>>

\* A condition; `seen` (its streak's bad readings) and `dropped` (its PROBLEM
\* was dropped and is to be raised again) are history.
Condition ==
  [tracked : BOOLEAN, open : BOOLEAN, badFor : Nat, lastAt : Nat,
   seen : Nat, dropped : BOOLEAN]

NoCondition ==
  [tracked |-> FALSE, open |-> FALSE, badFor |-> 0, lastAt |-> 0,
   seen |-> 0, dropped |-> FALSE]

Verdicts == {"Bad", "Good", "Unknown"}

TypeOK ==
  /\ now \in Nat
  /\ conds \in [Keys -> Condition]
  /\ stored \in [Keys -> Condition]
  /\ loaded \in BOOLEAN
  /\ alerts \subseteq Keys \X {"PROBLEM", "RESOLVED"}

Init ==
  /\ now = Sec
  /\ conds = [k \in Keys |-> NoCondition]
  /\ stored = [k \in Keys |-> NoCondition]
  /\ loaded = FALSE
  /\ alerts = {}

-----------------------------------------------------------------------------
\* The most one reading may add: gapCapFactor * interval.
GapCap == (3 * Interval) \div 2

\* Fault: the time since the last reading counts in full.
UncappedElapsed(c) == IF now > c.lastAt THEN now - c.lastAt ELSE 0

\* The observed bad time a reading adds: capped, and none when the clock was
\* set back.
Elapsed(c) ==
  LET gap == now - c.lastAt
  IN IF gap < 0 THEN 0 ELSE IF gap > GapCap THEN GapCap ELSE gap

\* Engine.bad on the condition's state.
AfterBad(c) ==
  LET total == IF c.tracked THEN c.badFor + Elapsed(c) ELSE 0
      opens == c.open \/ total >= Threshold
  IN [tracked |-> TRUE, open |-> opens, badFor |-> total, lastAt |-> now,
      seen |-> c.seen + 1, dropped |-> c.dropped /\ ~opens]

\* Engine.bad and Engine.good, per verdict; an unknown verdict changes nothing.
AfterReading(c, v) ==
  CASE v = "Bad" -> AfterBad(c)
    [] v = "Good" -> NoCondition
    [] v = "Unknown" -> c

\* Fault: RESOLVED for every tracked condition that turns good.
AnyResolved(r) ==
  {<<k, "RESOLVED">> : k \in {j \in Keys : r[j] = "Good" /\ conds[j].tracked}}

\* Engine.good's alerts for the readings r.
ResolvedBy(r) ==
  {<<k, "RESOLVED">> : k \in {j \in Keys : r[j] = "Good" /\ conds[j].open}}

\* Engine.bad's alerts.
RaisedBy(r) ==
  {<<k, "PROBLEM">> :
     k \in {j \in Keys : r[j] = "Bad" /\ ~conds[j].open /\ AfterBad(conds[j]).open}}

\* Apply: one run of a check; "Unknown" also stands for a key it did not read.
Apply(r) ==
  /\ \A k \in Keys : conds[k].seen < MaxSeen
  /\ conds' = [k \in Keys |-> AfterReading(conds[k], r[k])]
  /\ alerts' = RaisedBy(r) \cup ResolvedBy(r)
  /\ UNCHANGED <<now, stored, loaded>>

\* Clear (one key) and ClearPrefix (all keys of a drive).
Clear(K) ==
  /\ conds' = [k \in Keys |-> IF k \in K THEN NoCondition ELSE conds[k]]
  /\ alerts' = {}
  /\ UNCHANGED <<now, stored, loaded>>

\* Fault: the bad time starts again.
ReopenedFromZero(c) == [c EXCEPT !.open = FALSE, !.badFor = 0, !.dropped = TRUE]

\* Reopen's effect: no longer raised, bad time kept.
Reopened(c) == [c EXCEPT !.open = FALSE, !.dropped = TRUE]

\* Reopen: the PROBLEM of an open condition was dropped undelivered.
Reopen(k) ==
  /\ conds[k].open
  /\ conds' = [conds EXCEPT ![k] = Reopened(conds[k])]
  /\ alerts' = {}
  /\ UNCHANGED <<now, stored, loaded>>

\* The runner's Load: Merge adds the stored conditions whose key is untracked.
Merge ==
  /\ ~loaded
  /\ loaded' = TRUE
  /\ conds' = [k \in Keys |-> IF conds[k].tracked THEN conds[k] ELSE stored[k]]
  /\ alerts' = {}
  /\ UNCHANGED <<now, stored>>

Truncate(t) == (t \div Sec) * Sec

\* writeConditions: whole seconds.
Saved(c) == [c EXCEPT !.badFor = Truncate(@), !.lastAt = Truncate(@)]

\* The runner's checkpoint of Conditions(), only once loaded.
Checkpoint ==
  /\ loaded
  /\ stored' = [k \in Keys |-> Saved(conds[k])]
  /\ alerts' = {}
  /\ UNCHANGED <<now, conds, loaded>>

\* The daemon exits, by a crash or a stop, and starts with an empty engine.
Restart ==
  /\ conds' = [k \in Keys |-> NoCondition]
  /\ loaded' = FALSE
  /\ alerts' = {}
  /\ UNCHANGED <<now, stored>>

\* Time passes, or the clock is set.
SetClock(t) ==
  /\ now' = t
  /\ alerts' = {}
  /\ UNCHANGED <<conds, stored, loaded>>

Next ==
  \/ \E r \in [Keys -> Verdicts] : Apply(r)
  \/ \E K \in SUBSET Keys : Clear(K)
  \/ \E k \in Keys : Reopen(k)
  \/ Merge \/ Checkpoint \/ Restart
  \/ \E t \in Sec..MaxNow : SetClock(t)

Spec == Init /\ [][Next]_vars

-----------------------------------------------------------------------------
(* Properties *)

\* Only observed time counts (gapCapFactor's comment): a streak's bad time
\* never exceeds one capped gap per bad reading after the first, whatever
\* restarts, late loads, clock changes and unreadable stretches lie between.
OnlyObservedTimeCounts ==
  \A k \in Keys : conds[k].tracked =>
    conds[k].seen >= 1 /\ conds[k].badFor <= (conds[k].seen - 1) * GapCap

\* An open condition has been observed bad for the threshold: its PROBLEM is
\* never owed to a gap, and never lost by a save and a restart.
OpenReachedThreshold ==
  \A k \in Keys : conds[k].open =>
    conds[k].tracked /\ (conds[k].seen - 1) * GapCap >= Threshold

\* Reopen's promise: the next Bad reading of a condition whose PROBLEM was
\* dropped raises it again at once, also after a save and a restart.
ReopenedRaisesAtOnce ==
  [][\A k \in Keys : conds[k].dropped /\ conds'[k].seen > conds[k].seen
       => <<k, "PROBLEM">> \in alerts']_vars

\* The engine without its clock.
StatusOf(c) ==
  IF ~c.tracked THEN "healthy" ELSE IF c.open THEN "open" ELSE "streak"

Stream == INSTANCE AlertStream
  WITH status <- [k \in Keys |-> StatusOf(conds[k])]

\* The engine implements AlertStream: PROBLEM and RESOLVED alternate per
\* condition and go out exactly when a run opens or ends it.
AlertsMatchStates == Stream!Spec
=============================================================================
