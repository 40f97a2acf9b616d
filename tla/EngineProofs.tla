---------------------------- MODULE EngineProofs ----------------------------
(***************************************************************************)
(* Proofs about Engine for any set of keys, threshold, interval and clock.  *)
(* The bound on the observed bad time is inductive once it is stated of the *)
(* stored conditions too: a late Merge brings them back.                    *)
(***************************************************************************)
EXTENDS Engine, TLAPS

\* What every condition, tracked or stored, satisfies.
Observed(c) ==
  /\ ~c.tracked => c.seen = 0 /\ ~c.open
  /\ c.tracked => c.seen >= 1 /\ c.badFor <= (c.seen - 1) * GapCap
  /\ c.open => (c.seen - 1) * GapCap >= Threshold

EngineInv ==
  /\ TypeOK
  /\ \A k \in Keys : Observed(conds[k]) /\ Observed(stored[k])

\* The gap cap is a natural number.
LEMMA GapCapNat == GapCap \in Nat
  BY EngineAssumption DEF GapCap

\* One more reading allows one more gap.
LEMMA OneMoreGap ==
  ASSUME NEW n \in Nat, NEW g \in Nat
  PROVE  n >= 1 => (n - 1) * g + g = n * g
  OBVIOUS

\* Elapsed is between zero and the gap cap.
LEMMA ElapsedBounds ==
  ASSUME TypeOK, NEW c \in Condition
  PROVE  Elapsed(c) \in Nat /\ Elapsed(c) <= GapCap
<1>1. now \in Nat /\ c.lastAt \in Nat /\ GapCap \in Nat
  BY GapCapNat DEF TypeOK, Condition
<1> QED BY <1>1 DEF Elapsed

\* Rounding down to whole seconds never increases a duration.
LEMMA TruncateBounds ==
  ASSUME NEW t \in Nat
  PROVE  Truncate(t) \in Nat /\ Truncate(t) <= t
  BY EngineAssumption DEF Truncate

\* A condition that is not tracked satisfies the invariant.
LEMMA NoConditionOK == NoCondition \in Condition /\ Observed(NoCondition)
  BY DEF NoCondition, Condition, Observed

\* Engine.bad keeps the bad time within the observed gaps and opens only at
\* the threshold.
LEMMA BadOK ==
  ASSUME TypeOK, NEW c \in Condition, Observed(c)
  PROVE  AfterBad(c) \in Condition /\ Observed(AfterBad(c))
<1> DEFINE total == IF c.tracked THEN c.badFor + Elapsed(c) ELSE 0
           opens == c.open \/ total >= Threshold
           d == AfterBad(c)
<1>1. /\ c.badFor \in Nat /\ c.seen \in Nat /\ now \in Nat
      /\ c.tracked \in BOOLEAN /\ c.open \in BOOLEAN /\ c.dropped \in BOOLEAN
  BY DEF TypeOK, Condition
<1>2. Elapsed(c) \in Nat /\ Elapsed(c) <= GapCap
  BY ElapsedBounds
<1>3. GapCap \in Nat /\ Threshold \in Nat /\ c.seen * GapCap \in Nat /\ (c.seen - 1) * GapCap \in Int
  BY <1>1, GapCapNat, EngineAssumption
<1>4. total \in Nat /\ opens \in BOOLEAN
  BY <1>1, <1>2
<1>5. /\ d.tracked = TRUE /\ d.open = opens /\ d.badFor = total
      /\ d.lastAt = now /\ d.seen = c.seen + 1 /\ d.dropped = (c.dropped /\ ~opens)
  BY DEF AfterBad
<1>6. d \in Condition
  <2> HIDE DEF total, opens
  <2>1. (c.dropped /\ ~opens) \in BOOLEAN
    OBVIOUS
  <2>2. d = [tracked |-> TRUE, open |-> opens, badFor |-> total, lastAt |-> now,
             seen |-> c.seen + 1, dropped |-> c.dropped /\ ~opens]
    BY DEF AfterBad, total, opens
  <2> QED BY <1>1, <1>4, <2>1, <2>2 DEF Condition
<1>7. total <= c.seen * GapCap
  <2>1. CASE c.tracked
    <3>1. (c.seen - 1) * GapCap + GapCap = c.seen * GapCap
      BY <1>1, <1>3, <2>1, OneMoreGap DEF Observed
    <3>2. c.badFor <= (c.seen - 1) * GapCap
      BY <2>1 DEF Observed
    <3> QED BY <1>1, <1>2, <1>3, <2>1, <3>1, <3>2
  <2>2. CASE ~c.tracked BY <1>3, <2>2
  <2> QED BY <2>1, <2>2
<1>8. opens => c.seen * GapCap >= Threshold
  <2>1. CASE c.open
    <3>1. c.seen >= 1 /\ (c.seen - 1) * GapCap >= Threshold
      BY <2>1 DEF Observed
    <3>2. (c.seen - 1) * GapCap + GapCap = c.seen * GapCap
      BY <1>1, <1>3, <3>1, OneMoreGap
    <3> QED BY <1>3, <3>1, <3>2
  <2>2. CASE total >= Threshold BY <1>3, <1>4, <1>7, <2>2
  <2> QED BY <2>1, <2>2
<1>9. (d.seen - 1) * GapCap = c.seen * GapCap
  <2>1. d.seen - 1 = c.seen BY <1>1, <1>5
  <2> QED BY <2>1
<1>10. Observed(d)
  <2> HIDE DEF d, total, opens
  <2> QED BY <1>1, <1>5, <1>7, <1>8, <1>9 DEF Observed
<1> QED BY <1>6, <1>10

\* A run of a check, whatever it read, keeps the invariant of a condition.
LEMMA ReadingOK ==
  ASSUME TypeOK, NEW c \in Condition, Observed(c), NEW v \in Verdicts
  PROVE  AfterReading(c, v) \in Condition /\ Observed(AfterReading(c, v))
  BY BadOK, NoConditionOK DEF AfterReading, Verdicts

\* Saving a condition in whole seconds keeps the invariant.
LEMMA SavedOK ==
  ASSUME NEW c \in Condition, Observed(c)
  PROVE  Saved(c) \in Condition /\ Observed(Saved(c))
<1>1. /\ c.badFor \in Nat /\ c.lastAt \in Nat /\ c.seen \in Nat
      /\ GapCap \in Nat /\ (c.seen - 1) * GapCap \in Int
  BY GapCapNat DEF Condition
<1>2. /\ Truncate(c.badFor) \in Nat /\ Truncate(c.badFor) <= c.badFor
      /\ Truncate(c.lastAt) \in Nat
  BY <1>1, TruncateBounds
<1>3. Saved(c) \in Condition
  BY <1>2 DEF Saved, Condition
<1>4. /\ Saved(c).tracked = c.tracked /\ Saved(c).open = c.open
      /\ Saved(c).seen = c.seen /\ Saved(c).badFor = Truncate(c.badFor)
  BY DEF Saved, Condition
<1>5. Observed(Saved(c))
  BY <1>1, <1>2, <1>4 DEF Observed
<1> QED BY <1>3, <1>5

\* Reopening keeps the bad time, so it keeps the invariant.
LEMMA ReopenedOK ==
  ASSUME NEW c \in Condition, Observed(c)
  PROVE  Reopened(c) \in Condition /\ Observed(Reopened(c))
  BY DEF Reopened, Condition, Observed

\* The alerts of a run are pairs of a key and a kind.
LEMMA AlertsTyped ==
  ASSUME NEW r
  PROVE  RaisedBy(r) \cup ResolvedBy(r) \subseteq Keys \X {"PROBLEM", "RESOLVED"}
  BY DEF RaisedBy, ResolvedBy

\* The empty engine satisfies the invariant.
LEMMA EngineInit == Init => EngineInv
  BY NoConditionOK, EngineAssumption DEF Init, EngineInv, TypeOK

\* Every operation of the engine, the store and the clock keeps the invariant.
LEMMA EngineStep == EngineInv /\ [Next]_vars => EngineInv'
<1> SUFFICES ASSUME EngineInv, [Next]_vars PROVE EngineInv'
  OBVIOUS
<1> USE DEF EngineInv
<1>0. \A k \in Keys : conds[k] \in Condition /\ stored[k] \in Condition
  BY DEF TypeOK
<1>1. ASSUME NEW r \in [Keys -> Verdicts], Apply(r) PROVE EngineInv'
  <2>1. \A k \in Keys : conds'[k] \in Condition /\ Observed(conds'[k])
    BY <1>0, <1>1, ReadingOK DEF Apply
  <2>2. alerts' \subseteq Keys \X {"PROBLEM", "RESOLVED"}
    BY <1>1, AlertsTyped DEF Apply
  <2>3. conds' \in [Keys -> Condition]
    BY <1>1, <2>1 DEF Apply
  <2> QED BY <1>1, <2>1, <2>2, <2>3 DEF Apply, TypeOK
<1>2. ASSUME NEW K \in SUBSET Keys, Clear(K) PROVE EngineInv'
  <2>1. \A k \in Keys : conds'[k] \in Condition /\ Observed(conds'[k])
    BY <1>0, <1>2, NoConditionOK DEF Clear
  <2>2. conds' \in [Keys -> Condition]
    BY <1>2, <2>1 DEF Clear
  <2> QED BY <1>2, <2>1, <2>2 DEF Clear, TypeOK
<1>3. ASSUME NEW k \in Keys, Reopen(k) PROVE EngineInv'
  <2>1. Reopened(conds[k]) \in Condition /\ Observed(Reopened(conds[k]))
    BY <1>0, ReopenedOK
  <2>2. conds' \in [Keys -> Condition]
    BY <1>3, <2>1 DEF Reopen, TypeOK
  <2>3. \A j \in Keys : Observed(conds'[j])
    BY <1>3, <2>1 DEF Reopen, TypeOK
  <2> QED BY <1>3, <2>2, <2>3 DEF Reopen, TypeOK
<1>4. CASE Merge
  <2>1. \A k \in Keys : conds'[k] \in Condition /\ Observed(conds'[k])
    BY <1>0, <1>4 DEF Merge
  <2>2. conds' \in [Keys -> Condition]
    BY <1>4, <2>1 DEF Merge
  <2> QED BY <1>4, <2>1, <2>2 DEF Merge, TypeOK
<1>5. CASE Checkpoint
  <2>1. \A k \in Keys : stored'[k] \in Condition /\ Observed(stored'[k])
    BY <1>0, <1>5, SavedOK DEF Checkpoint
  <2>2. stored' \in [Keys -> Condition]
    BY <1>5, <2>1 DEF Checkpoint
  <2> QED BY <1>5, <2>1, <2>2 DEF Checkpoint, TypeOK
<1>6. CASE Restart
  BY <1>6, NoConditionOK DEF Restart, TypeOK
<1>7. ASSUME NEW t \in Sec..MaxNow, SetClock(t) PROVE EngineInv'
  BY <1>7, EngineAssumption DEF SetClock, TypeOK
<1>8. CASE UNCHANGED vars
  BY <1>8 DEF vars, TypeOK
<1> QED BY <1>1, <1>2, <1>3, <1>4, <1>5, <1>6, <1>7, <1>8 DEF Next

\* The inductive invariant holds in every reachable state.
THEOREM EngineInvariant == Spec => []EngineInv
  BY EngineInit, EngineStep, PTL DEF Spec

\* A streak's bad time counts only observed gaps (Engine.bad, gapCapFactor).
THEOREM EngineObservedTime == Spec => []OnlyObservedTimeCounts
<1>1. EngineInv => OnlyObservedTimeCounts
  BY DEF EngineInv, Observed, OnlyObservedTimeCounts
<1> QED BY <1>1, EngineInvariant, PTL

\* An open condition was observed bad for its threshold (Engine.bad, Merge).
THEOREM EngineThreshold == Spec => []OpenReachedThreshold
<1>1. EngineInv => OpenReachedThreshold
  BY DEF EngineInv, TypeOK, Condition, Observed, OpenReachedThreshold
<1> QED BY <1>1, EngineInvariant, PTL

-----------------------------------------------------------------------------
(* Reopen's promise, for a threshold of whole seconds. *)

\* What a condition needs to be raised at its next Bad reading: open or dropped
\* conditions keep a bad time of the threshold.
Ripe(c) ==
  /\ c.open => c.badFor >= Threshold
  /\ c.dropped => c.tracked /\ ~c.open /\ c.badFor >= Threshold

RipeInv == \A k \in Keys : Ripe(conds[k]) /\ Ripe(stored[k])

\* Saving whole seconds keeps a time at or above a threshold of whole seconds.
LEMMA TruncateKeeps ==
  ASSUME NEW m \in Nat, Threshold = m * Sec, NEW t \in Nat, t >= Threshold
  PROVE  Truncate(t) >= Threshold
<1>1. PICK q \in Nat : q = t \div Sec
  BY EngineAssumption
<1>2. t < (q + 1) * Sec /\ Sec \in Nat /\ Sec > 0
  BY <1>1, EngineAssumption
<1>3. m * Sec < (q + 1) * Sec
  BY <1>2, EngineAssumption
<1>4. m < q + 1
  BY <1>2, <1>3
<1>5. q * Sec >= m * Sec
  BY <1>2, <1>4
<1> QED BY <1>1, <1>5 DEF Truncate

\* A Bad reading of a dropped condition opens it again, and one of an open
\* condition keeps its bad time.
LEMMA BadRipe ==
  ASSUME TypeOK, NEW c \in Condition, Observed(c), Ripe(c)
  PROVE  Ripe(AfterBad(c)) /\ (c.dropped => ~c.open /\ AfterBad(c).open)
<1> DEFINE total == IF c.tracked THEN c.badFor + Elapsed(c) ELSE 0
           opens == c.open \/ total >= Threshold
           d == AfterBad(c)
<1>1. /\ c.badFor \in Nat /\ Elapsed(c) \in Nat /\ Threshold \in Nat
      /\ c.tracked \in BOOLEAN /\ c.open \in BOOLEAN /\ c.dropped \in BOOLEAN
  BY ElapsedBounds, EngineAssumption DEF Condition
<1>2. /\ d.tracked = TRUE /\ d.open = opens /\ d.badFor = total
      /\ d.dropped = (c.dropped /\ ~opens)
  BY DEF AfterBad
<1>3. c.open => c.tracked
  BY <1>1 DEF Observed
<1>4. c.tracked => total >= c.badFor
  BY <1>1
<1>5. c.open \/ c.dropped => total >= Threshold
  BY <1>1, <1>3, <1>4 DEF Ripe
<1> HIDE DEF total, d
<1> QED BY <1>1, <1>2, <1>5 DEF Ripe, d

\* Every operation keeps open and dropped conditions ripe.
LEMMA RipeStep ==
  ASSUME NEW m \in Nat, Threshold = m * Sec
  PROVE  EngineInv /\ RipeInv /\ [Next]_vars => RipeInv'
<1> SUFFICES ASSUME EngineInv, RipeInv, [Next]_vars PROVE RipeInv'
  OBVIOUS
<1>0. /\ TypeOK
      /\ \A k \in Keys : /\ conds[k] \in Condition /\ stored[k] \in Condition
                         /\ Observed(conds[k]) /\ Ripe(conds[k]) /\ Ripe(stored[k])
  BY DEF EngineInv, RipeInv, TypeOK
<1>1. Ripe(NoCondition)
  BY DEF Ripe, NoCondition
<1>2. ASSUME NEW r \in [Keys -> Verdicts], Apply(r) PROVE RipeInv'
  <2>1. \A k \in Keys : conds'[k] \in {AfterBad(conds[k]), NoCondition, conds[k]}
    BY <1>2 DEF Apply, AfterReading, Verdicts
  <2>2. \A k \in Keys : Ripe(conds'[k])
    BY <1>0, <1>1, <2>1, BadRipe
  <2> QED BY <1>0, <1>2, <2>2 DEF Apply, RipeInv
<1>3. ASSUME NEW k \in Keys, Reopen(k) PROVE RipeInv'
  <2>1. conds[k] \in Condition /\ Ripe(conds[k]) /\ Observed(conds[k]) /\ conds[k].open
    BY <1>0, <1>3 DEF Reopen
  <2>2. Ripe(Reopened(conds[k]))
    BY <2>1 DEF Reopened, Condition, Ripe, Observed
  <2>3. \A j \in Keys : Ripe(conds'[j])
    BY <1>0, <1>3, <2>2 DEF Reopen, TypeOK
  <2> QED BY <1>0, <1>3, <2>3 DEF Reopen, RipeInv
<1>4. CASE Checkpoint
  <2>1. ASSUME NEW k \in Keys PROVE Ripe(Saved(conds[k]))
    <3>1. PICK c \in Condition : c = conds[k]
      BY <1>0
    <3>2. c.badFor \in Nat /\ Ripe(c)
      BY <1>0, <3>1 DEF Condition
    <3>3. c.badFor >= Threshold => Truncate(c.badFor) >= Threshold
      BY <3>2, TruncateKeeps
    <3>4. /\ Saved(c).tracked = c.tracked /\ Saved(c).open = c.open
          /\ Saved(c).dropped = c.dropped /\ Saved(c).badFor = Truncate(c.badFor)
      BY DEF Saved, Condition
    <3> QED BY <3>1, <3>2, <3>3, <3>4 DEF Ripe
  <2>2. \A k \in Keys : Ripe(stored'[k])
    BY <1>4, <2>1 DEF Checkpoint
  <2> QED BY <1>0, <1>4, <2>2 DEF Checkpoint, RipeInv
<1>5. CASE \E K \in SUBSET Keys : Clear(K)
  BY <1>0, <1>1, <1>5 DEF Clear, RipeInv
<1>6. CASE Merge \/ Restart
  BY <1>0, <1>1, <1>6 DEF Merge, Restart, RipeInv
<1>7. CASE \E t \in Sec..MaxNow : SetClock(t)
  BY <1>0, <1>7 DEF SetClock, RipeInv
<1>8. CASE UNCHANGED vars
  BY <1>0, <1>8 DEF vars, RipeInv
<1> QED BY <1>2, <1>3, <1>4, <1>5, <1>6, <1>7, <1>8 DEF Next

\* The next Bad reading of a dropped condition raises its PROBLEM.
LEMMA RipeRaises ==
  ASSUME EngineInv, RipeInv, Next, NEW k \in Keys,
         conds[k].dropped, conds'[k].seen > conds[k].seen
  PROVE  <<k, "PROBLEM">> \in alerts'
<1>0. /\ TypeOK /\ conds[k] \in Condition /\ Observed(conds[k]) /\ Ripe(conds[k])
      /\ conds[k].tracked /\ conds[k].seen \in Nat
  BY DEF EngineInv, RipeInv, TypeOK, Condition, Ripe
<1>1. ASSUME NEW r \in [Keys -> Verdicts], Apply(r)
      PROVE  <<k, "PROBLEM">> \in alerts'
  <2>1. conds'[k] # NoCondition /\ conds'[k] # conds[k]
    BY <1>0 DEF NoCondition
  <2>2. r[k] = "Bad"
    BY <1>1, <2>1 DEF Apply, AfterReading, Verdicts
  <2>3. ~conds[k].open /\ AfterBad(conds[k]).open
    BY <1>0, BadRipe
  <2> QED BY <1>1, <2>2, <2>3 DEF Apply, RaisedBy
<1>2. \/ conds'[k] = conds[k] \/ conds'[k] = NoCondition
      \/ conds'[k].seen = conds[k].seen
      \/ \E r \in [Keys -> Verdicts] : Apply(r)
  <2>1. ASSUME NEW j \in Keys, Reopen(j) PROVE conds'[k].seen = conds[k].seen
    BY <1>0, <2>1 DEF Reopen, Reopened, EngineInv, TypeOK, Condition
  <2>2. CASE (\E K \in SUBSET Keys : Clear(K)) \/ Merge \/ Restart
    BY <1>0, <2>2 DEF Clear, Merge, Restart
  <2>3. CASE Checkpoint \/ \E t \in Sec..MaxNow : SetClock(t)
    BY <2>3 DEF Checkpoint, SetClock
  <2> QED BY <2>1, <2>2, <2>3 DEF Next
<1> QED BY <1>0, <1>1, <1>2 DEF NoCondition

\* Reopen's promise for any keys, interval, clock and restarts: with a threshold
\* of whole seconds, which is what the store keeps, the next Bad reading of a
\* condition whose PROBLEM was dropped raises it again at once.
THEOREM EngineReopened ==
  ASSUME NEW m \in Nat, Threshold = m * Sec
  PROVE  Spec => ReopenedRaisesAtOnce
<1>1. Init => RipeInv
  <2>1. Ripe(NoCondition)
    BY DEF Ripe, NoCondition
  <2> QED BY <2>1 DEF Init, RipeInv
<1>2. EngineInv /\ RipeInv /\ [Next]_vars => RipeInv'
  BY RipeStep
<1>3. EngineInv /\ RipeInv /\ [Next]_vars =>
        [\A k \in Keys : conds[k].dropped /\ conds'[k].seen > conds[k].seen
           => <<k, "PROBLEM">> \in alerts']_vars
  BY RipeRaises
<1> QED BY <1>1, <1>2, <1>3, EngineInvariant, PTL DEF Spec, ReopenedRaisesAtOnce

-----------------------------------------------------------------------------
(* The engine implements AlertStream. *)

Status == [k \in Keys |-> StatusOf(conds[k])]

\* The empty engine is an initial state of AlertStream.
LEMMA StreamInit == Init => Stream!Init
  BY DEF Init, Stream!Init, StatusOf, NoCondition

\* A condition's abstract state is one of the three.
LEMMA StatusTyped ==
  \A k \in Keys : /\ StatusOf(conds[k]) \in {"healthy", "streak", "open"}
                  /\ StatusOf(conds'[k]) \in {"healthy", "streak", "open"}
  BY DEF StatusOf

\* A run of a check is a Run of AlertStream, with exactly its alerts.
LEMMA StreamApply ==
  ASSUME EngineInv, NEW r \in [Keys -> Verdicts], Apply(r)
  PROVE  Stream!Run
<1> DEFINE t == [k \in Keys |-> StatusOf(conds'[k])]
<1>0. t \in [Keys -> {"healthy", "streak", "open"}]
  BY StatusTyped
<1>1. \A k \in Keys : conds'[k] = AfterReading(conds[k], r[k])
  BY DEF Apply
<1>2. ASSUME NEW k \in Keys
      PROVE  /\ t[k] \in Stream!MayBecome(StatusOf(conds[k]))
             /\ (StatusOf(conds[k]) # "open" /\ t[k] = "open")
                  <=> (r[k] = "Bad" /\ ~conds[k].open /\ AfterBad(conds[k]).open)
             /\ (StatusOf(conds[k]) = "open" /\ t[k] = "healthy")
                  <=> (r[k] = "Good" /\ conds[k].open)
  <2>1. /\ conds[k] \in Condition /\ Observed(conds[k]) /\ r[k] \in Verdicts
    BY DEF EngineInv, TypeOK
  <2>2. conds[k].tracked \in BOOLEAN /\ conds[k].open \in BOOLEAN
        /\ (conds[k].open => conds[k].tracked)
    BY <2>1 DEF Condition, Observed
  <2>3. CASE r[k] = "Bad"
    <3>1. conds'[k] = AfterBad(conds[k])
      BY <1>1, <2>3 DEF AfterReading
    <3>2. AfterBad(conds[k]).tracked /\ (conds[k].open => AfterBad(conds[k]).open)
      BY DEF AfterBad
    <3> QED BY <2>2, <2>3, <3>1, <3>2 DEF StatusOf, Stream!MayBecome
  <2>4. CASE r[k] = "Good"
    <3>1. conds'[k] = NoCondition
      BY <1>1, <2>4 DEF AfterReading
    <3>2. t[k] = "healthy"
      BY <3>1 DEF StatusOf, NoCondition
    <3> QED BY <2>2, <2>4, <3>2 DEF StatusOf, Stream!MayBecome
  <2>5. CASE r[k] = "Unknown"
    <3>1. conds'[k] = conds[k]
      BY <1>1, <2>5 DEF AfterReading
    <3> QED BY <2>2, <2>5, <3>1 DEF StatusOf, Stream!MayBecome
  <2> QED BY <2>1, <2>3, <2>4, <2>5 DEF Verdicts
<1>3. RaisedBy(r) = Stream!Raised(Status, t)
  BY <1>2 DEF RaisedBy, Stream!Raised, Status
<1>4. ResolvedBy(r) = Stream!Resolved(Status, t)
  BY <1>2 DEF ResolvedBy, Stream!Resolved, Status
<1>5. alerts' = Stream!Raised(Status, t) \cup Stream!Resolved(Status, t)
  BY <1>3, <1>4 DEF Apply
<1> QED BY <1>0, <1>2, <1>5 DEF Stream!Run, Status

\* Every other operation is silent in AlertStream.
LEMMA StreamSilent ==
  ASSUME EngineInv,
         \/ \E K \in SUBSET Keys : Clear(K)
         \/ \E k \in Keys : Reopen(k)
         \/ Merge \/ Checkpoint \/ Restart
         \/ \E t \in Sec..MaxNow : SetClock(t)
  PROVE  Stream!Silent
<1>1. alerts' = {}
  BY DEF Clear, Reopen, Merge, Checkpoint, Restart, SetClock
<1>2. [k \in Keys |-> StatusOf(conds'[k])] \in [Keys -> {"healthy", "streak", "open"}]
  BY StatusTyped
<1>3. \A k \in Keys : /\ conds[k].open \in BOOLEAN /\ conds[k].tracked \in BOOLEAN
                      /\ conds[k].open => conds[k].tracked
  BY DEF EngineInv, TypeOK, Condition, Observed
<1>4. CASE (\E K \in SUBSET Keys : Clear(K)) \/ Restart
  <2>1. \A k \in Keys : StatusOf(conds'[k]) \in {StatusOf(conds[k]), "healthy"}
    BY <1>4 DEF Clear, Restart, StatusOf, NoCondition
  <2> QED BY <1>1, <1>2, <2>1 DEF Stream!Silent
<1>5. ASSUME NEW k \in Keys, Reopen(k) PROVE Stream!Silent
  <2>1. \A j \in Keys \ {k} : conds'[j] = conds[j]
    BY <1>5 DEF Reopen, EngineInv, TypeOK
  <2>2. conds'[k] = Reopened(conds[k]) /\ conds[k].open
    BY <1>5 DEF Reopen, EngineInv, TypeOK
  <2>3. Reopened(conds[k]).tracked = conds[k].tracked /\ Reopened(conds[k]).open = FALSE
    BY DEF Reopened, EngineInv, TypeOK, Condition
  <2>4. \A j \in Keys : \/ StatusOf(conds'[j]) = StatusOf(conds[j])
                        \/ StatusOf(conds[j]) = "open" /\ StatusOf(conds'[j]) = "streak"
    BY <1>3, <2>1, <2>2, <2>3 DEF StatusOf
  <2> QED BY <1>1, <1>2, <2>4 DEF Stream!Silent
<1>6. CASE Merge
  <2>1. \A k \in Keys : StatusOf(conds[k]) # "healthy" => StatusOf(conds'[k]) = StatusOf(conds[k])
    BY <1>6 DEF Merge, StatusOf
  <2> QED BY <1>1, <1>2, <2>1 DEF Stream!Silent
<1>7. CASE Checkpoint \/ \E t \in Sec..MaxNow : SetClock(t)
  <2>1. conds' = conds
    BY <1>7 DEF Checkpoint, SetClock
  <2> QED BY <1>1, <1>2, <2>1 DEF Stream!Silent
<1> QED BY <1>4, <1>5, <1>6, <1>7

\* The engine implements AlertStream: its alerts tell exactly when a run opens
\* or ends a condition, for any keys, thresholds, restarts and late loads.
THEOREM EngineRefinesStream == Spec => AlertsMatchStates
<1>1. Init => Stream!Init
  BY StreamInit
<1>2. EngineInv /\ [Next]_vars => [Stream!Next]_(Stream!vars)
  <2> SUFFICES ASSUME EngineInv, [Next]_vars PROVE [Stream!Next]_(Stream!vars)
    OBVIOUS
  <2>1. CASE \E r \in [Keys -> Verdicts] : Apply(r)
    BY <2>1, StreamApply DEF Stream!Next
  <2>2. CASE UNCHANGED vars
    BY <2>2 DEF vars, Stream!vars
  <2> QED BY <2>1, <2>2, StreamSilent DEF Next, Stream!Next
<1> QED BY <1>1, <1>2, EngineInvariant, PTL DEF Spec, AlertsMatchStates, Stream!Spec
=============================================================================
